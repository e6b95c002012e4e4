---------------------------- MODULE LedgerTxProofs ----------------------------
(***************************************************************************)
(* Proofs about LedgerTx, for any number of connections, wallets and       *)
(* programs: no interleaving overdraws a wallet, every deadlock has an     *)
(* operation in it that does not lock its wallets through lock_wallets, a  *)
(* wallet on hold changes only by the reversal of a deposit, and the       *)
(* committed ledger is what one transaction at a time makes of it.         *)
(***************************************************************************)
EXTENDS LedgerTx, LedgerLemmas

-----------------------------------------------------------------------------
(* Facts about entries, views and the order of wallets.                    *)

\* The entry a statement works on is an entry.
LEMMA CurrentType ==
    ASSUME TypeOK, NEW t \in Txs, todo[t] # <<>>
    PROVE  /\ Current(t) \in Entries
           /\ CurrentWallet(t) \in Wallets
           /\ Current(t).amount \in Int
           /\ Tail(todo[t]) \in Seq(Entries)
<1>1. todo[t] \in Seq(Entries)
    BY DEF TypeOK
<1>2. Head(todo[t]) \in Entries /\ Tail(todo[t]) \in Seq(Entries)
    BY <1>1
<1> QED
    BY <1>2 DEF Current, CurrentWallet, Entries

\* The unique index keys of an entry are those of its wallet.
LEMMA KeysOfType ==
    ASSUME NEW e \in Entries
    PROVE  /\ KeysOf(e) \in SUBSET Keys
           /\ \A k \in KeysOf(e) : k[1] = e.wallet
BY DEF KeysOf, Keys, Entries

\* What a transaction sees is a ledger.
LEMMA ViewType ==
    ASSUME TypeOK, NEW t \in Txs
    PROVE  /\ View(t) \in Ledgers
           /\ \A w \in Wallets : View(t).balance[w] = led.balance[w] + delta[t][w]
           /\ \A w \in Wallets : View(t).balance[w] \in Int
<1>1. /\ led.balance \in [Wallets -> Int] /\ led.hold \in SUBSET Wallets
      /\ led.keys \in SUBSET Keys
      /\ delta[t] \in [Wallets -> Int] /\ mine[t] \in SUBSET Keys
      /\ held[t] \in SUBSET Wallets
    BY DEF TypeOK, Ledgers
<1> QED
    BY <1>1 DEF View, Ledgers

\* lock_wallets takes the least of the wallets it has yet to lock.
LEMMA NextToLockIsLeast ==
    ASSUME TypeOK, NEW t \in Txs, toLock[t] # {}
    PROVE  /\ NextToLock(t) \in toLock[t]
           /\ NextToLock(t) \in Wallets
           /\ \A v \in toLock[t] : Rank[NextToLock(t)] <= Rank[v]
<1>1. toLock[t] \in SUBSET Wallets /\ \A w \in Wallets : Rank[w] \in Nat
    BY RankAssumption DEF TypeOK
<1> DEFINE ranks == {Rank[w] : w \in toLock[t]}
<1>2. ranks \in SUBSET Nat /\ ranks # {}
    BY <1>1
<1>3. PICK n \in ranks : \A m \in ranks : n <= m
    BY <1>2, LeastNatural
<1>4. \E w \in toLock[t] : \A v \in toLock[t] : Rank[w] <= Rank[v]
    BY <1>3
<1> QED
    BY <1>1, <1>4 DEF NextToLock

-----------------------------------------------------------------------------
(* The invariant.                                                          *)

\* Nothing is open at first, and no earlier transaction left an overdraft.
LEMMA InitInv == Init => Inv
<1> SUFFICES ASSUME Init PROVE Inv
    OBVIOUS
<1> USE DEF Init
<1>1. \A t \in Txs, w \in Wallets : delta[t][w] = 0
    BY DEF NoChange
<1>2. TypeOK
    BY BalanceAssumption DEF TypeOK, Ledgers, PCs, NoChange
<1>3. ChangesUnderLock
    BY <1>1 DEF ChangesUnderLock
<1>4. StatementsInOrder
    BY DEF StatementsInOrder, InOrder
<1>5. NeverOverdrawn
    BY <1>1, <1>2, ViewType, BalanceAssumption DEF NeverOverdrawn
<1> QED
    BY <1>2, <1>3, <1>4, <1>5 DEF Inv

\* A step that leaves the ledger, the locks of the wallets and what the
\* transactions keep apart as they are keeps ChangesUnderLock and
\* NeverOverdrawn.
LEMMA SameViews ==
    ASSUME Inv, UNCHANGED <<led, row, delta, mine, held>>
    PROVE  /\ ChangesUnderLock'
           /\ NeverOverdrawn'
           /\ \A u \in Txs : View(u)' = View(u)
BY DEF Inv, ChangesUnderLock, NeverOverdrawn, View

\* A step of another transaction leaves the statements of u in order, if it
\* leaves the rows u holds and their balances to it.
LEMMA OthersInOrder ==
    ASSUME Inv, NEW u \in Txs,
           pc'[u] = pc[u], todo'[u] = todo[u], toLock'[u] = toLock[u], prog'[u] = prog[u],
           \A v \in Wallets : row[v] = u =>
               row'[v] = u /\ View(u)'.balance[v] = View(u).balance[v]
    PROVE  InOrder(u)'
<1>1. Current(u)' = Current(u) /\ CurrentWallet(u)' = CurrentWallet(u)
    BY DEF Current, CurrentWallet
<1>2. todo[u] # <<>> => CurrentWallet(u) \in Wallets
    BY CurrentType DEF Inv
<1>3. InOrder(u)
    BY DEF Inv, StatementsInOrder
<1>4. pc[u] = "insert" => row[CurrentWallet(u)] = u /\ CurrentWallet(u) \in Wallets
    BY <1>2, <1>3 DEF InOrder
<1>5. pc[u] = "insert" => Covers(View(u)', Current(u)')
    BY <1>1, <1>3, <1>4 DEF InOrder, Covers, CurrentWallet
<1> QED
    BY <1>1, <1>2, <1>3, <1>5 DEF InOrder

\* A connection that starts an operation has changed nothing yet.
LEMMA BeginInv ==
    ASSUME Inv, NEW t \in Txs, Begin(t)
    PROVE  Inv'
<1> USE DEF Inv
<1>1. PICK p \in Programs :
          /\ prog' = [prog EXCEPT ![t] = p]
          /\ todo' = [todo EXCEPT ![t] = p.entries]
          /\ toLock' = [toLock EXCEPT ![t] = p.locks]
          /\ pc' = [pc EXCEPT ![t] = IF p.refers = {} THEN FirstLock(p) ELSE "reference"]
    BY DEF Begin
<1>2. UNCHANGED <<led, row, share, delta, mine, held>>
    BY DEF Begin
<1>3. p.entries \in Seq(Entries) /\ p.entries # <<>> /\ p.locks \in SUBSET Wallets
    BY ProgramAssumption DEF ProgramSpace
<1>4. TypeOK'
    BY <1>1, <1>2, <1>3 DEF TypeOK, PCs, FirstLock
<1>5. ChangesUnderLock' /\ NeverOverdrawn' /\ \A u \in Txs : View(u)' = View(u)
    BY <1>2, SameViews
<1>6. StatementsInOrder'
  <2>1. InOrder(t)'
      BY <1>1, <1>2, <1>3 DEF TypeOK, FirstLock, InOrder
  <2>2. ASSUME NEW u \in Txs \ {t} PROVE InOrder(u)'
      BY <1>1, <1>2, <1>5, OthersInOrder DEF TypeOK
  <2> QED
      BY <2>1, <2>2 DEF StatementsInOrder
<1> QED
    BY <1>4, <1>5, <1>6

\* FOR KEY SHARE on the referenced wallet touches no entry and no row lock.
LEMMA InsertReferenceInv ==
    ASSUME Inv, NEW t \in Txs, InsertReference(t)
    PROVE  Inv'
<1> USE DEF Inv, InsertReference
<1>1. TypeOK'
    BY DEF TypeOK, PCs, FirstLock
<1>2. ChangesUnderLock' /\ NeverOverdrawn' /\ \A u \in Txs : View(u)' = View(u)
    BY SameViews
<1>3. StatementsInOrder'
  <2>1. InOrder(t)'
      BY <1>1 DEF TypeOK, FirstLock, InOrder, StatementsInOrder
  <2>2. ASSUME NEW u \in Txs \ {t} PROVE InOrder(u)'
      BY <1>2, OthersInOrder DEF TypeOK
  <2> QED
      BY <2>1, <2>2 DEF StatementsInOrder
<1> QED
    BY <1>1, <1>2, <1>3

\* lock_wallets takes a free row: its wallet had no uncommitted change.
LEMMA LockNextInv ==
    ASSUME Inv, NEW t \in Txs, LockNext(t)
    PROVE  Inv'
<1> USE DEF Inv
<1> DEFINE w == NextToLock(t)
<1>1. toLock[t] # {} /\ todo[t] # <<>> /\ w \in toLock[t] /\ w \in Wallets
    BY NextToLockIsLeast DEF LockNext, StatementsInOrder, InOrder
<1>2. row[w] \in {NoTx, t}
    BY DEF LockNext, FreeToLock
<1> HIDE DEF w
<1>3. /\ row' = [row EXCEPT ![w] = t]
      /\ toLock' = [toLock EXCEPT ![t] = @ \ {w}]
      /\ pc' = [pc EXCEPT ![t] = IF toLock'[t] = {} THEN "lock_wallet" ELSE @]
      /\ pc[t] = "lock_wallets"
      /\ UNCHANGED <<led, share, prog, todo, delta, mine, held>>
    BY DEF LockNext, w
<1>4. TypeOK'
    BY <1>1, <1>3 DEF TypeOK, PCs
<1>5. \A u \in Txs : View(u)' = View(u)
    BY <1>3 DEF View
<1>6. \A u \in Txs, v \in Wallets : row[v] = u => row'[v] = u
    BY <1>1, <1>2, <1>3, NoTxAssumption DEF TypeOK
<1>7. ChangesUnderLock'
    BY <1>3, <1>6 DEF ChangesUnderLock
<1>8. NeverOverdrawn'
    BY <1>3, <1>5 DEF NeverOverdrawn
<1>9. StatementsInOrder'
  <2>1. InOrder(t)'
      BY <1>1, <1>3 DEF TypeOK, InOrder
  <2>2. ASSUME NEW u \in Txs \ {t} PROVE InOrder(u)'
      BY <1>3, <1>5, <1>6, OthersInOrder DEF TypeOK
  <2> QED
      BY <2>1, <2>2 DEF StatementsInOrder
<1> QED
    BY <1>4, <1>7, <1>8, <1>9

\* apply_ledger_entry goes on to the hold check holding the row.
LEMMA LockRowInv ==
    ASSUME Inv, NEW t \in Txs, LockRow(t)
    PROVE  Inv'
<1> USE DEF Inv
<1> DEFINE w == CurrentWallet(t)
<1>1. todo[t] # <<>> /\ w \in Wallets
    BY CurrentType DEF LockRow, StatementsInOrder, InOrder
<1>2. row[w] \in {NoTx, t}
    BY DEF LockRow, FreeToLock
<1>3. /\ row' = [row EXCEPT ![w] = t]
      /\ pc' = [pc EXCEPT ![t] = "hold"]
      /\ UNCHANGED <<led, share, prog, todo, toLock, delta, mine, held>>
      /\ w' = w
    BY DEF LockRow, CurrentWallet, Current
<1> HIDE DEF w
<1>4. TypeOK'
    BY <1>1, <1>3 DEF TypeOK, PCs
<1>5. \A u \in Txs : View(u)' = View(u)
    BY <1>3 DEF View
<1>6. \A u \in Txs, v \in Wallets : row[v] = u => row'[v] = u
    BY <1>1, <1>2, <1>3, NoTxAssumption DEF TypeOK
<1>7. ChangesUnderLock'
    BY <1>3, <1>6 DEF ChangesUnderLock
<1>8. NeverOverdrawn'
    BY <1>3, <1>5 DEF NeverOverdrawn
<1>9. StatementsInOrder'
  <2>1. InOrder(t)'
      BY <1>1, <1>3 DEF TypeOK, InOrder, w
  <2>2. ASSUME NEW u \in Txs \ {t} PROVE InOrder(u)'
      BY <1>3, <1>5, <1>6, OthersInOrder DEF TypeOK
  <2> QED
      BY <2>1, <2>2 DEF StatementsInOrder
<1> QED
    BY <1>4, <1>7, <1>8, <1>9

\* A statement that only goes on to the next one.
LEMMA ProceedInv ==
    ASSUME Inv, NEW t \in Txs, NEW next \in {"balance", "insert"},
           pc[t] \in {"hold", "balance"}, Proceed(t, next),
           next = "insert" => Covers(View(t), Current(t))
    PROVE  Inv'
<1> USE DEF Inv, Proceed
<1>1. TypeOK'
    BY DEF TypeOK, PCs
<1>2. ChangesUnderLock' /\ NeverOverdrawn' /\ \A u \in Txs : View(u)' = View(u)
    BY SameViews
<1>3. StatementsInOrder'
  <2>1. InOrder(t)'
      BY <1>2 DEF TypeOK, InOrder, StatementsInOrder, Current, CurrentWallet
  <2>2. ASSUME NEW u \in Txs \ {t} PROVE InOrder(u)'
      BY <1>2, OthersInOrder DEF TypeOK
  <2> QED
      BY <2>1, <2>2 DEF StatementsInOrder
<1> QED
    BY <1>1, <1>2, <1>3

\* The end of a transaction, whether it commits or not: the others see what
\* they saw of the rows they hold.
LEMMA ReleaseInv ==
    ASSUME Inv, NEW t \in Txs, Release(t), led' \in {led, View(t)}
    PROVE  Inv'
<1> USE DEF Inv
<1>1. /\ row' = [w \in Wallets |-> IF row[w] = t THEN NoTx ELSE row[w]]
      /\ share' = [w \in Wallets |-> share[w] \ {t}]
      /\ pc' = [pc EXCEPT ![t] = "idle"]
      /\ todo' = [todo EXCEPT ![t] = <<>>]
      /\ toLock' = [toLock EXCEPT ![t] = {}]
      /\ delta' = [delta EXCEPT ![t] = NoChange]
      /\ mine' = [mine EXCEPT ![t] = {}]
      /\ held' = [held EXCEPT ![t] = {}]
      /\ prog' = [prog EXCEPT ![t] = NoProgram]
    BY DEF Release
<1>2. View(t) \in Ledgers /\ led \in Ledgers
    BY ViewType DEF TypeOK
<1>3. TypeOK'
  <2>1. led' \in Ledgers
      BY <1>2
  <2>2. NoChange \in [Wallets -> Int]
      BY DEF NoChange
  <2> QED
      BY <1>1, <2>1, <2>2 DEF TypeOK, PCs
<1>4. \A u \in Txs \ {t} : /\ pc'[u] = pc[u] /\ todo'[u] = todo[u] /\ toLock'[u] = toLock[u]
                           /\ delta'[u] = delta[u] /\ mine'[u] = mine[u] /\ held'[u] = held[u]
                           /\ prog'[u] = prog[u]
    BY <1>1 DEF TypeOK
<1>5. \A w \in Wallets : delta'[t][w] = 0 /\ mine'[t] = {} /\ held'[t] = {} /\ pc'[t] = "idle"
    BY <1>1 DEF TypeOK, NoChange
<1>6. \A u \in Txs \ {t}, w \in Wallets : row[w] = u => row'[w] = u
    BY <1>1 DEF TypeOK
<1>7. ChangesUnderLock'
  <2>1. ASSUME NEW u \in Txs, NEW w \in Wallets
        PROVE  \/ row'[w] = u
               \/ delta'[u][w] = 0 /\ w \notin held'[u] /\ \A k \in mine'[u] : k[1] # w
    <3>1. CASE u = t
        BY <3>1, <1>5
    <3>2. CASE u # t
        BY <3>2, <1>4, <1>6 DEF ChangesUnderLock
    <3> QED
        BY <3>1, <3>2
  <2> QED
      BY <2>1 DEF ChangesUnderLock
\* The committed balance of a wallet is what it was, or t's, which is the
\* same thing for a wallet somebody else changed.
<1>8. \A w \in Wallets : \/ led'.balance[w] = led.balance[w]
                         \/ led'.balance[w] = View(t).balance[w]
    OBVIOUS
<1>9. \A u \in Txs \ {t}, w \in Wallets :
          row[w] = u => led'.balance[w] = led.balance[w]
  <2> SUFFICES ASSUME NEW u \in Txs \ {t}, NEW w \in Wallets, row[w] = u
               PROVE  led'.balance[w] = led.balance[w]
      OBVIOUS
  <2>1. delta[t][w] = 0
      BY DEF ChangesUnderLock
  <2>2. led.balance[w] \in Int
      BY <1>2 DEF Ledgers
  <2>3. View(t).balance[w] = led.balance[w]
      BY <2>1, <2>2, ViewType
  <2> QED
      BY <2>3, <1>8
<1>10. \A u \in Txs, w \in Wallets : View(u)'.balance[w] = led'.balance[w] + delta'[u][w]
    BY DEF View
<1>11. NeverOverdrawn'
  <2>1. \A w \in Wallets : led'.balance[w] >= 0 /\ led'.balance[w] \in Int
      BY <1>2, <1>8, ViewType DEF NeverOverdrawn, Ledgers
  <2>2. ASSUME NEW u \in Txs, NEW w \in Wallets PROVE View(u)'.balance[w] >= 0
    <3>1. CASE u = t \/ row[w] # u
      <4>1. delta'[u][w] = 0
          BY <3>1, <1>4, <1>5 DEF ChangesUnderLock
      <4> QED
          BY <4>1, <2>1, <1>10
    <3>2. CASE u # t /\ row[w] = u
        BY <3>2, <1>4, <1>9, <1>10, ViewType DEF NeverOverdrawn
    <3> QED
        BY <3>1, <3>2
  <2> QED
      BY <2>1, <2>2 DEF NeverOverdrawn
<1>12. StatementsInOrder'
  <2>1. InOrder(t)'
      BY <1>1 DEF TypeOK, InOrder
  <2>2. ASSUME NEW u \in Txs \ {t} PROVE InOrder(u)'
    <3>1. \A v \in Wallets : row[v] = u => View(u)'.balance[v] = View(u).balance[v]
        BY <1>4, <1>9, <1>10, ViewType
    <3> QED
        BY <3>1, <1>4, <1>6, OthersInOrder
  <2> QED
      BY <2>1, <2>2 DEF StatementsInOrder
<1> QED
    BY <1>3, <1>7, <1>11, <1>12

\* The hold check reads the view of t and decides where t goes on.
LEMMA CheckHoldInv ==
    ASSUME Inv, NEW t \in Txs, CheckHold(t)
    PROVE  Inv'
<1>1. CASE HoldPermits(View(t), Current(t))
  <2>1. todo[t] # <<>>
      BY DEF CheckHold, Inv, StatementsInOrder, InOrder
  <2>2. CASE Current(t).amount < 0
      BY <1>1, <2>2, ProceedInv DEF CheckHold
  <2>3. CASE ~ (Current(t).amount < 0)
      BY <1>1, <2>3, ProceedInv DEF CheckHold, Covers
  <2> QED
      BY <2>2, <2>3
<1>2. CASE ~ HoldPermits(View(t), Current(t))
    BY <1>2, ReleaseInv DEF CheckHold, Rollback
<1> QED
    BY <1>1, <1>2

\* The balance check holds of the view the INSERT is made in, since t has the
\* row; an orphaned deposit that is spent puts a row of t on hold.
LEMMA CheckBalanceInv ==
    ASSUME Inv, NEW t \in Txs, CheckBalance(t)
    PROVE  Inv'
<1>1. CASE Covers(View(t), Current(t))
    BY <1>1, ProceedInv DEF CheckBalance
<1>2. CASE ~ Covers(View(t), Current(t)) /\ ~ prog[t].orphans
    BY <1>2, ReleaseInv DEF CheckBalance, Rollback
<1>3. CASE ~ Covers(View(t), Current(t)) /\ prog[t].orphans
  <2> USE DEF Inv
  <2> DEFINE w == CurrentWallet(t)
  <2>1. todo[t] # <<>> /\ w \in Wallets /\ row[w] = t
      BY CurrentType DEF CheckBalance, StatementsInOrder, InOrder
  <2>2. /\ held' = [held EXCEPT ![t] = @ \cup {w}]
        /\ pc' = [pc EXCEPT ![t] = "commit"]
        /\ UNCHANGED <<led, row, share, prog, todo, toLock, delta, mine>>
      BY <1>3 DEF CheckBalance
  <2> HIDE DEF w
  <2>3. TypeOK'
      BY <2>1, <2>2 DEF TypeOK, PCs
  <2>4. ChangesUnderLock'
      BY <2>1, <2>2 DEF ChangesUnderLock, TypeOK
  <2>5. \A u \in Txs : View(u)'.balance = View(u).balance
      BY <2>2 DEF View
  <2>6. NeverOverdrawn'
      BY <2>2, <2>5 DEF NeverOverdrawn
  <2>7. StatementsInOrder'
    <3>1. InOrder(t)'
        BY <2>2 DEF TypeOK, InOrder
    <3>2. ASSUME NEW u \in Txs \ {t} PROVE InOrder(u)'
        BY <2>2, <2>5, OthersInOrder DEF TypeOK
    <3> QED
        BY <3>1, <3>2 DEF StatementsInOrder
  <2> QED
      BY <2>3, <2>4, <2>6, <2>7
<1> QED
    BY <1>1, <1>2, <1>3

\* The INSERT adds an amount the view of t covers to a wallet t has locked.
LEMMA InsertInv ==
    ASSUME Inv, NEW t \in Txs, Insert(t)
    PROVE  Inv'
<1>1. CASE ~ Fresh(View(t), Current(t))
    BY <1>1, ReleaseInv DEF Insert, Rollback
<1>2. CASE Fresh(View(t), Current(t))
  <2> USE DEF Inv
  <2> DEFINE w == CurrentWallet(t)
             a == Current(t).amount
             ks == KeysOf(Current(t))
  <2>1. /\ todo[t] # <<>> /\ w \in Wallets /\ a \in Int /\ row[w] = t
        /\ Tail(todo[t]) \in Seq(Entries)
        /\ a < 0 => View(t).balance[w] + a >= 0
      BY CurrentType DEF Insert, StatementsInOrder, InOrder, Covers, CurrentWallet
  <2>2. ks \in SUBSET Keys /\ \A k \in ks : k[1] = w
      BY <2>1, CurrentType, KeysOfType DEF CurrentWallet
  <2>3. /\ delta' = [delta EXCEPT ![t][w] = @ + a]
        /\ mine' = [mine EXCEPT ![t] = @ \cup ks]
        /\ todo' = [todo EXCEPT ![t] = Tail(@)]
        /\ pc' = [pc EXCEPT ![t] = IF Tail(todo[t]) = <<>> THEN "commit" ELSE "lock_wallet"]
        /\ UNCHANGED <<led, row, share, prog, toLock, held>>
      BY <1>2 DEF Insert
  <2> HIDE DEF w, a, ks
  <2>d. /\ delta' \in [Txs -> [Wallets -> Int]]
        /\ delta'[t][w] = delta[t][w] + a
        /\ \A u \in Txs, v \in Wallets : (u # t \/ v # w) => delta'[u][v] = delta[u][v]
      BY <2>1, <2>3 DEF TypeOK
  <2>4. TypeOK'
    <3>1. mine' \in [Txs -> SUBSET Keys] /\ todo' \in [Txs -> Seq(Entries)] /\ pc' \in [Txs -> PCs]
        BY <2>1, <2>2, <2>3 DEF TypeOK, PCs
    <3> QED
        BY <2>3, <2>d, <3>1 DEF TypeOK
  <2>5. \A u \in Txs, v \in Wallets :
            (u # t \/ v # w) => delta'[u][v] = delta[u][v] /\ View(u)'.balance[v] = View(u).balance[v]
      BY <2>3, <2>d DEF View
  <2>6. ChangesUnderLock'
      BY <2>1, <2>2, <2>3, <2>5 DEF ChangesUnderLock, TypeOK
  <2>7. NeverOverdrawn'
    <3>1. View(t)'.balance[w] = View(t).balance[w] + a
      <4>1. led.balance[w] \in Int /\ delta[t][w] \in Int
          BY <2>1 DEF TypeOK, Ledgers
      <4>2. View(t)'.balance[w] = led.balance[w] + (delta[t][w] + a)
          BY <2>1, <2>3, <2>d DEF View
      <4> QED
          BY <2>1, <4>1, <4>2, ViewType
    <3>2. View(t).balance[w] \in Int /\ View(t).balance[w] >= 0
        BY <2>1, ViewType DEF NeverOverdrawn
    <3>3. View(t)'.balance[w] >= 0
        BY <2>1, <3>1, <3>2
    <3> QED
        BY <2>3, <2>5, <3>3 DEF NeverOverdrawn
  <2>8. StatementsInOrder'
    <3>1. InOrder(t)'
        BY <2>3 DEF TypeOK, InOrder
    <3>2. ASSUME NEW u \in Txs \ {t} PROVE InOrder(u)'
        BY <2>3, <2>5, OthersInOrder DEF TypeOK
    <3> QED
        BY <3>1, <3>2 DEF StatementsInOrder
  <2> QED
      BY <2>4, <2>6, <2>7, <2>8
<1> QED
    BY <1>1, <1>2

\* Every statement of every connection preserves the invariant.
LEMMA NextInv == Inv /\ [Next]_vars => Inv'
<1> SUFFICES ASSUME Inv, [Next]_vars PROVE Inv'
    OBVIOUS
<1>1. CASE UNCHANGED vars
  <2>1. UNCHANGED <<led, row, share, pc, prog, todo, toLock, delta, mine, held>>
      BY <1>1 DEF vars
  <2>2. TypeOK'
      BY <2>1 DEF Inv, TypeOK
  <2>3. ChangesUnderLock' /\ NeverOverdrawn' /\ \A u \in Txs : View(u)' = View(u)
      BY <2>1, SameViews
  <2>4. \A u \in Txs : InOrder(u)'
      BY <2>1, <2>3, OthersInOrder
  <2> QED
      BY <2>2, <2>3, <2>4 DEF Inv, StatementsInOrder
<1>2. ASSUME NEW t \in Txs, Begin(t) \/ Step(t) \/ Abort(t) PROVE Inv'
  <2>1. CASE Begin(t)
      BY <2>1, BeginInv
  <2>2. CASE InsertReference(t)
      BY <2>2, InsertReferenceInv
  <2>3. CASE LockNext(t)
      BY <2>3, LockNextInv
  <2>4. CASE LockRow(t)
      BY <2>4, LockRowInv
  <2>5. CASE CheckHold(t)
      BY <2>5, CheckHoldInv
  <2>6. CASE CheckBalance(t)
      BY <2>6, CheckBalanceInv
  <2>7. CASE Insert(t)
      BY <2>7, InsertInv
  <2>8. CASE Commit(t)
      BY <2>8, ReleaseInv DEF Commit
  <2>9. CASE Abort(t) \/ DeadlockAbort(t)
      BY <2>9, ReleaseInv DEF Abort, DeadlockAbort, Rollback
  <2> QED
      BY <1>2, <2>1, <2>2, <2>3, <2>4, <2>5, <2>6, <2>7, <2>8, <2>9 DEF Step
<1> QED
    BY <1>1, <1>2 DEF Next

(***************************************************************************)
(* The inductive invariant holds in every state.                           *)
(***************************************************************************)
THEOREM LedgerTxInvariant == Spec => []Inv
BY InitInv, NextInv, PTL DEF Spec

(***************************************************************************)
(* apply_ledger_entry checks the balance under the lock of the wallet: no  *)
(* interleaving of any number of transactions, commits, rollbacks and      *)
(* aborts takes a balance below zero.                                      *)
(***************************************************************************)
THEOREM NoOverdraft == Spec => []NeverOverdrawn
<1>1. Inv => NeverOverdrawn
    BY DEF Inv
<1> QED
    BY <1>1, LedgerTxInvariant, PTL

-----------------------------------------------------------------------------
(* The order of locks, and what it says of deadlocks.                      *)

\* The wallets of a program are wallets.
LEMMA EnteredType ==
    ASSUME NEW p \in Programs \cup {NoProgram}
    PROVE  /\ Entered(p) \in SUBSET Wallets
           /\ p.locks \in SUBSET Wallets
           /\ p.refers \in SUBSET Wallets
           /\ p.entries \in Seq(Entries)
           /\ \A i \in 1..Len(p.entries) : p.entries[i].wallet \in Entered(p)
<1>1. /\ p.entries \in Seq(Entries)
      /\ p.locks \in SUBSET Wallets
      /\ p.refers \in SUBSET Wallets
  <2>1. CASE p \in Programs
      BY <2>1, ProgramAssumption DEF ProgramSpace
  <2>2. CASE p = NoProgram
      BY <2>2 DEF NoProgram
  <2> QED
      BY <2>1, <2>2
<1>2. \A i \in 1..Len(p.entries) : p.entries[i] \in Entries
    BY <1>1
<1> QED
    BY <1>1, <1>2 DEF Entered, Entries

\* At first nobody holds a row.
LEMMA InitOrder == Init => OrderInv
<1> SUFFICES ASSUME Init PROVE OrderInv
    OBVIOUS
<1>1. LocksExclude
    BY DEF Init, LocksExclude
<1>2. ASSUME NEW t \in Txs PROVE LockProgress(t)
    BY NoTxAssumption DEF Init, LockProgress, NoProgram
<1> QED
    BY <1>1, <1>2 DEF OrderInv

\* A step of another transaction that neither gives u a row nor takes one
\* from it.
LEMMA OthersProgress ==
    ASSUME OrderInv, NEW u \in Txs,
           pc'[u] = pc[u], todo'[u] = todo[u], toLock'[u] = toLock[u], prog'[u] = prog[u],
           \A w \in Wallets : /\ row'[w] = u <=> row[w] = u
                              /\ u \in share'[w] <=> u \in share[w],
           prog[u].locks \subseteq Wallets
    PROVE  LockProgress(u)'
<1>1. LockProgress(u)
    BY DEF OrderInv
<1>2. \A w \in prog[u].locks \ toLock[u] : row'[w] = u
  <2>1. \A w \in prog[u].locks \ toLock[u] : w \in Wallets /\ row[w] = u
      BY <1>1 DEF LockProgress
  <2> QED
      BY <2>1
<1>3. \A i \in 1..Len(todo'[u]) : todo'[u][i].wallet \in Entered(prog'[u])
    BY <1>1 DEF LockProgress
<1>4. Entered(prog[u])' = Entered(prog'[u])
    BY DEF Entered
<1> QED
    BY <1>1, <1>2, <1>3, <1>4 DEF LockProgress

\* A connection that starts an operation holds nothing and has all to lock.
LEMMA BeginOrder ==
    ASSUME Inv, OrderInv, NEW t \in Txs, Begin(t)
    PROVE  OrderInv'
<1>1. PICK p \in Programs :
          /\ prog' = [prog EXCEPT ![t] = p]
          /\ todo' = [todo EXCEPT ![t] = p.entries]
          /\ toLock' = [toLock EXCEPT ![t] = p.locks]
          /\ pc' = [pc EXCEPT ![t] = IF p.refers = {} THEN FirstLock(p) ELSE "reference"]
    BY DEF Begin
<1>2. UNCHANGED <<row, share>> /\ pc[t] = "idle"
    BY DEF Begin
<1>3. \A w \in Wallets : row[w] # t /\ t \notin share[w]
    BY <1>2 DEF OrderInv, LockProgress, NoProgram, Entered
<1>4. p.locks \in SUBSET Wallets /\ \A i \in 1..Len(p.entries) : p.entries[i].wallet \in Entered(p)
    BY EnteredType
<1>5. LocksExclude'
    BY <1>2 DEF OrderInv, LocksExclude
<1>6. LockProgress(t)'
    BY <1>1, <1>2, <1>3, <1>4 DEF LockProgress, FirstLock, Inv, TypeOK
<1>7. ASSUME NEW u \in Txs \ {t} PROVE LockProgress(u)'
    BY <1>1, <1>2, EnteredType, OthersProgress DEF Inv, TypeOK
<1> QED
    BY <1>5, <1>6, <1>7 DEF OrderInv

\* The reference is shared only if nobody else has the row FOR UPDATE.
LEMMA InsertReferenceOrder ==
    ASSUME Inv, OrderInv, NEW t \in Txs, InsertReference(t)
    PROVE  OrderInv'
<1> DEFINE r == Referenced(t)
<1>1. LockProgress(t) /\ InOrder(t)
    BY DEF OrderInv, Inv, StatementsInOrder
<1>2. /\ pc[t] = "reference" /\ r \in prog[t].refers
      /\ row[r] \in {NoTx, t}
      /\ share' = [share EXCEPT ![r] = @ \cup {t}]
      /\ pc' = [pc EXCEPT ![t] = FirstLock(prog[t])]
      /\ UNCHANGED <<row, prog, todo, toLock>>
    BY <1>1 DEF InsertReference, Referenced, LockProgress, FreeToShare
<1>3. prog[t] \in Programs \cup {NoProgram} /\ prog[t].refers \in SUBSET Wallets
    BY EnteredType DEF Inv, TypeOK
<1>4. toLock[t] = prog[t].locks /\ \A v, w \in prog[t].refers : v = w
    BY <1>1, <1>2, <1>3, ProgramAssumption DEF InOrder, NoProgram
<1> HIDE DEF r
<1>5. LocksExclude'
    BY <1>2, NoTxAssumption DEF OrderInv, LocksExclude, Inv, TypeOK
<1>6. LockProgress(t)'
  <2>1. pc'[t] = FirstLock(prog[t]) /\ prog'[t] = prog[t] /\ toLock'[t] = toLock[t] /\ todo'[t] = todo[t]
      BY <1>2 DEF Inv, TypeOK
  <2>2. \A w \in Wallets : t \in share'[w] => w \in prog[t].refers
      BY <1>1, <1>2 DEF LockProgress, Inv, TypeOK
  <2>3. FirstLock(prog[t]) # "lock_wallets" => toLock[t] = {}
      BY <1>4 DEF FirstLock
  <2>4. FirstLock(prog[t]) \in {"lock_wallet", "lock_wallets"}
      BY DEF FirstLock
  <2>5. \A w \in Wallets, v \in toLock[t] : row[w] # t \/ Rank[w] < Rank[v]
      BY <1>1 DEF LockProgress
  <2> QED
      BY <1>1, <1>2, <2>1, <2>2, <2>3, <2>4, <2>5 DEF LockProgress
<1>7. ASSUME NEW u \in Txs \ {t} PROVE LockProgress(u)'
    BY <1>2, EnteredType, OthersProgress DEF Inv, TypeOK
<1> QED
    BY <1>5, <1>6, <1>7 DEF OrderInv

\* lock_wallets takes the least wallet left, so what it holds stays below
\* what it has yet to lock.
LEMMA LockNextOrder ==
    ASSUME Inv, OrderInv, NEW t \in Txs, LockNext(t)
    PROVE  OrderInv'
<1> DEFINE w == NextToLock(t)
<1>1. LockProgress(t) /\ InOrder(t) /\ pc[t] = "lock_wallets"
    BY DEF OrderInv, Inv, StatementsInOrder, LockNext
<1>2. /\ w \in toLock[t] /\ w \in Wallets
      /\ \A v \in toLock[t] : Rank[w] <= Rank[v]
    BY <1>1, NextToLockIsLeast DEF InOrder, Inv
<1>3. /\ row[w] \in {NoTx, t} /\ share[w] \subseteq {t}
      /\ row' = [row EXCEPT ![w] = t]
      /\ toLock' = [toLock EXCEPT ![t] = @ \ {w}]
      /\ pc' = [pc EXCEPT ![t] = IF toLock'[t] = {} THEN "lock_wallet" ELSE @]
      /\ UNCHANGED <<share, prog, todo>>
    BY DEF LockNext, FreeToLock
<1> HIDE DEF w
<1>4. LocksExclude'
    BY <1>2, <1>3 DEF OrderInv, LocksExclude, Inv, TypeOK
<1>5. LockProgress(t)'
  <2>1. /\ prog[t].locks \in SUBSET Wallets /\ toLock[t] \in SUBSET Wallets
        /\ \A v \in Wallets : Rank[v] \in Int
    <3>1. prog[t] \in Programs \cup {NoProgram} /\ toLock[t] \in SUBSET Wallets
        BY DEF Inv, TypeOK
    <3>2. \A v \in Wallets : Rank[v] \in Int
        BY RankAssumption
    <3> QED
        BY <3>1, <3>2, EnteredType
  <2>2. \A v \in toLock[t] \ {w} : Rank[w] < Rank[v]
      BY <1>2, <2>1, RankAssumption
  <2>3. /\ toLock'[t] = toLock[t] \ {w} /\ prog'[t] = prog[t] /\ todo'[t] = todo[t]
        /\ pc'[t] = IF toLock'[t] = {} THEN "lock_wallet" ELSE "lock_wallets"
        /\ \A v \in Wallets : row'[v] = IF v = w THEN t ELSE row[v]
      BY <1>1, <1>2, <1>3 DEF Inv, TypeOK
  <2>4. \A u \in Wallets, v \in toLock'[t] : row'[u] = t => Rank[u] < Rank[v]
      BY <1>1, <2>2, <2>3 DEF LockProgress
  <2>5. \A v \in Wallets : row'[v] = t =>
            v \in (prog[t].locks \ toLock'[t]) \cup Entered(prog[t])
      BY <1>1, <1>2, <2>3 DEF LockProgress
  <2>6. \A v \in prog[t].locks \ toLock'[t] : row'[v] = t
      BY <1>1, <2>1, <2>3 DEF LockProgress
  <2> QED
    <3>1. \A v \in Wallets : t \in share'[v] => v \in prog'[t].refers
        BY <1>1, <1>3, <2>3 DEF LockProgress
    <3>2. toLock'[t] \subseteq prog'[t].locks
        BY <1>1, <2>3 DEF LockProgress
    <3>3. \A i \in 1..Len(todo'[t]) : todo'[t][i].wallet \in Entered(prog'[t])
        BY <1>1, <2>3 DEF LockProgress
    <3> QED
        BY <2>3, <2>4, <2>5, <2>6, <3>1, <3>2, <3>3 DEF LockProgress
<1>6. ASSUME NEW u \in Txs \ {t} PROVE LockProgress(u)'
    BY <1>2, <1>3, EnteredType, NoTxAssumption, OthersProgress DEF Inv, TypeOK
<1> QED
    BY <1>4, <1>5, <1>6 DEF OrderInv

\* The row apply_ledger_entry locks is that of one of its entries.
LEMMA LockRowOrder ==
    ASSUME Inv, OrderInv, NEW t \in Txs, LockRow(t)
    PROVE  OrderInv'
<1> DEFINE w == CurrentWallet(t)
<1>1. LockProgress(t) /\ InOrder(t) /\ pc[t] = "lock_wallet"
    BY DEF OrderInv, Inv, StatementsInOrder, LockRow
<1>2. w \in Wallets /\ w \in Entered(prog[t])
  <2>1. todo[t] # <<>> /\ todo[t] \in Seq(Entries)
      BY <1>1 DEF InOrder, Inv, TypeOK
  <2>2. 1 \in 1..Len(todo[t]) /\ todo[t][1] = Head(todo[t])
      BY <2>1
  <2>3. todo[t][1].wallet \in Entered(prog[t])
      BY <1>1, <2>2 DEF LockProgress
  <2> QED
      BY <2>1, <2>2, <2>3, CurrentType DEF Inv, CurrentWallet, Current
<1>3. /\ row[w] \in {NoTx, t} /\ share[w] \subseteq {t}
      /\ row' = [row EXCEPT ![w] = t]
      /\ pc' = [pc EXCEPT ![t] = "hold"]
      /\ UNCHANGED <<share, prog, todo, toLock>>
    BY DEF LockRow, FreeToLock
<1> HIDE DEF w
<1>4. LocksExclude'
    BY <1>2, <1>3 DEF OrderInv, LocksExclude, Inv, TypeOK
<1>5. LockProgress(t)'
  <2>1. /\ prog'[t] = prog[t] /\ todo'[t] = todo[t] /\ toLock'[t] = toLock[t] /\ pc'[t] = "hold"
        /\ \A v \in Wallets : row'[v] = IF v = w THEN t ELSE row[v]
        /\ prog[t].locks \in SUBSET Wallets
      BY <1>2, <1>3, EnteredType DEF Inv, TypeOK
  <2> QED
      BY <1>1, <1>2, <1>3, <2>1 DEF LockProgress
<1>6. ASSUME NEW u \in Txs \ {t} PROVE LockProgress(u)'
    BY <1>2, <1>3, EnteredType, NoTxAssumption, OthersProgress DEF Inv, TypeOK
<1> QED
    BY <1>4, <1>5, <1>6 DEF OrderInv

\* Past its locks, a transaction only moves on to another statement, with the
\* entries it has left.
LEMMA StatementOrder ==
    ASSUME Inv, OrderInv, NEW t \in Txs,
           pc[t] \in {"hold", "balance", "insert"},
           NEW next \in {"balance", "insert", "lock_wallet", "commit"},
           pc' = [pc EXCEPT ![t] = next],
           \/ todo' = todo
           \/ todo[t] # <<>> /\ todo' = [todo EXCEPT ![t] = Tail(@)],
           UNCHANGED <<row, share, prog, toLock>>
    PROVE  OrderInv'
<1>1. LocksExclude'
    BY DEF OrderInv, LocksExclude
<1>2. LockProgress(t)
    BY DEF OrderInv
<1>3. todo[t] \in Seq(Entries)
    BY DEF Inv, TypeOK
<1>4. \A i \in 1..Len(todo'[t]) : todo'[t][i].wallet \in Entered(prog[t])
  <2>1. CASE todo' = todo
      BY <1>2, <2>1 DEF LockProgress
  <2>2. CASE todo[t] # <<>> /\ todo' = [todo EXCEPT ![t] = Tail(@)]
    <3>1. todo'[t] = Tail(todo[t])
        BY <2>2 DEF Inv, TypeOK
    <3>2. \A i \in 1..Len(Tail(todo[t])) : /\ i + 1 \in 1..Len(todo[t])
                                           /\ Tail(todo[t])[i] = todo[t][i + 1]
        BY <1>3, <2>2
    <3>3. \A i \in 1..Len(todo[t]) : todo[t][i].wallet \in Entered(prog[t])
        BY <1>2 DEF LockProgress
    <3> QED
        BY <3>1, <3>2, <3>3
  <2> QED
      BY <2>1, <2>2
<1>5. pc'[t] = next
    BY DEF Inv, TypeOK
<1>6. LockProgress(t)'
    BY <1>2, <1>4, <1>5 DEF LockProgress
<1>7. ASSUME NEW u \in Txs \ {t} PROVE LockProgress(u)'
  <2>1. pc'[u] = pc[u] /\ todo'[u] = todo[u] /\ prog[u].locks \in SUBSET Wallets
      BY EnteredType DEF Inv, TypeOK
  <2> QED
      BY <2>1, OthersProgress
<1> QED
    BY <1>1, <1>6, <1>7 DEF OrderInv

\* The end of a transaction gives every row back.
LEMMA ReleaseOrder ==
    ASSUME Inv, OrderInv, NEW t \in Txs, Release(t)
    PROVE  OrderInv'
<1>1. /\ row' = [w \in Wallets |-> IF row[w] = t THEN NoTx ELSE row[w]]
      /\ share' = [w \in Wallets |-> share[w] \ {t}]
      /\ pc' = [pc EXCEPT ![t] = "idle"]
      /\ todo' = [todo EXCEPT ![t] = <<>>]
      /\ toLock' = [toLock EXCEPT ![t] = {}]
      /\ prog' = [prog EXCEPT ![t] = NoProgram]
    BY DEF Release
<1>2. LocksExclude'
    BY <1>1, NoTxAssumption DEF OrderInv, LocksExclude, Inv, TypeOK
<1>3. LockProgress(t)'
  <2>1. /\ pc'[t] = "idle" /\ todo'[t] = <<>> /\ toLock'[t] = {} /\ prog'[t] = NoProgram
        /\ \A w \in Wallets : row'[w] # t /\ t \notin share'[w]
      BY <1>1, NoTxAssumption DEF Inv, TypeOK
  <2> QED
      BY <2>1 DEF LockProgress, NoProgram
<1>4. ASSUME NEW u \in Txs \ {t} PROVE LockProgress(u)'
  <2>1. /\ pc'[u] = pc[u] /\ todo'[u] = todo[u] /\ toLock'[u] = toLock[u] /\ prog'[u] = prog[u]
        /\ prog[u].locks \in SUBSET Wallets
      BY <1>1, EnteredType DEF Inv, TypeOK
  <2>2. \A w \in Wallets : /\ row'[w] = u <=> row[w] = u
                           /\ u \in share'[w] <=> u \in share[w]
      BY <1>1, NoTxAssumption DEF Inv, TypeOK
  <2> QED
      BY <2>1, <2>2, OthersProgress
<1> QED
    BY <1>2, <1>3, <1>4 DEF OrderInv

\* Every statement of every connection preserves the order of the locks.
LEMMA NextOrder == Inv /\ OrderInv /\ [Next]_vars => OrderInv'
<1> SUFFICES ASSUME Inv, OrderInv, [Next]_vars PROVE OrderInv'
    OBVIOUS
<1>1. CASE UNCHANGED vars
  <2>1. UNCHANGED <<row, share, pc, prog, todo, toLock>>
      BY <1>1 DEF vars
  <2>2. LocksExclude'
      BY <2>1 DEF OrderInv, LocksExclude
  <2>3. \A u \in Txs : LockProgress(u)'
      BY <2>1, OthersProgress, EnteredType DEF Inv, TypeOK
  <2> QED
      BY <2>2, <2>3 DEF OrderInv
<1>2. ASSUME NEW t \in Txs, Begin(t) \/ Step(t) \/ Abort(t) PROVE OrderInv'
  <2>1. CASE Begin(t)
      BY <2>1, BeginOrder
  <2>2. CASE InsertReference(t)
      BY <2>2, InsertReferenceOrder
  <2>3. CASE LockNext(t)
      BY <2>3, LockNextOrder
  <2>4. CASE LockRow(t)
      BY <2>4, LockRowOrder
  <2>5. CASE CheckHold(t)
      BY <2>5, StatementOrder, ReleaseOrder DEF CheckHold, Proceed, Rollback
  <2>6. CASE CheckBalance(t)
      BY <2>6, StatementOrder, ReleaseOrder DEF CheckBalance, Proceed, Rollback
  <2>7. CASE Insert(t)
    <3>1. todo[t] # <<>>
        BY <2>7 DEF Insert, Inv, StatementsInOrder, InOrder
    <3> QED
        BY <2>7, <3>1, StatementOrder, ReleaseOrder DEF Insert, Rollback
  <2>8. CASE Commit(t) \/ Abort(t) \/ DeadlockAbort(t)
      BY <2>8, ReleaseOrder DEF Commit, Abort, DeadlockAbort, Rollback
  <2> QED
      BY <1>2, <2>1, <2>2, <2>3, <2>4, <2>5, <2>6, <2>7, <2>8 DEF Step
<1> QED
    BY <1>1, <1>2 DEF Next

\* A transaction that follows the protocol and asks for a row it has not got
\* holds only lower ones.
LEMMA OrderAscends == Inv /\ OrderInv => AscendingLocks
<1> SUFFICES ASSUME Inv, OrderInv,
                    NEW t \in Txs, Locking(t), Ordered(prog[t]), row[Wanted(t)] # t,
                    NEW w \in Wallets, Holds(t, w)
             PROVE  Rank[w] < Rank[Wanted(t)]
    BY DEF AscendingLocks
<1>1. LockProgress(t) /\ InOrder(t)
    BY DEF OrderInv, Inv, StatementsInOrder
<1>2. row[w] = t
    BY <1>1 DEF Holds, LockProgress, Ordered
<1>3. CASE pc[t] = "reference"
    BY <1>1, <1>3 DEF LockProgress, Ordered
<1>4. CASE pc[t] = "lock_wallets"
  <2>1. NextToLock(t) \in toLock[t]
      BY <1>1, <1>4, NextToLockIsLeast DEF InOrder, Inv
  <2> QED
      BY <1>1, <1>2, <1>4, <2>1 DEF LockProgress, Wanted
<1>5. CASE pc[t] = "lock_wallet"
  <2>1. todo[t] # <<>> /\ todo[t] \in Seq(Entries)
      BY <1>1, <1>5 DEF InOrder, Inv, TypeOK
  <2>2. CurrentWallet(t) = todo[t][1].wallet /\ 1 \in 1..Len(todo[t])
      BY <2>1 DEF CurrentWallet, Current
  <2>3. CurrentWallet(t) \in Entered(prog[t]) /\ Wanted(t) = CurrentWallet(t)
      BY <1>1, <1>5, <2>2 DEF LockProgress, Wanted
  <2>4. toLock[t] = {} /\ w \in prog[t].locks \cup Entered(prog[t])
      BY <1>1, <1>2, <1>5 DEF LockProgress
  <2>5. CASE Entered(prog[t]) \subseteq prog[t].locks
      BY <1>1, <2>3, <2>4, <2>5 DEF LockProgress
  <2>6. CASE \A u, v \in Entered(prog[t]) \cup prog[t].locks : u = v
      BY <1>2, <2>3, <2>4, <2>6
  <2> QED
      BY <2>5, <2>6 DEF Ordered
<1> QED
    BY <1>3, <1>4, <1>5 DEF Locking

\* Were every transaction of a knot to follow the protocol, the one that asks
\* for the highest row would wait for one that asks for a higher row still.
LEMMA AscendingExcludesKnots ==
    ASSUME Inv, OrderInv PROVE DeadlocksAreUnordered
<1> SUFFICES ASSUME NEW C \in SUBSET Txs, Knot(C), \A t \in C : Ordered(prog[t])
             PROVE  FALSE
    BY DEF DeadlocksAreUnordered
<1> DEFINE height(t) == MaxRank - Rank[Wanted(t)]
<1>1. ASSUME NEW t \in C PROVE Locking(t) /\ Wanted(t) \in Wallets
  <2>1. Locking(t)
      BY DEF Knot, WaitsFor
  <2>2. LockProgress(t) /\ InOrder(t) /\ Ordered(prog[t])
      BY DEF OrderInv, Inv, StatementsInOrder
  <2>3. pc[t] # "reference"
      BY <2>2 DEF LockProgress, Ordered
  <2>4. CASE pc[t] = "lock_wallets"
    <3>1. toLock[t] # {} /\ TypeOK
        BY <2>2, <2>4 DEF InOrder, Inv
    <3>2. NextToLock(t) \in Wallets
        BY <3>1, NextToLockIsLeast
    <3> QED
        BY <2>1, <2>4, <3>2 DEF Wanted
  <2>5. CASE pc[t] = "lock_wallet"
    <3>1. todo[t] # <<>> /\ TypeOK
        BY <2>2, <2>5 DEF InOrder, Inv
    <3>2. CurrentWallet(t) \in Wallets
        BY <3>1, CurrentType
    <3> QED
        BY <2>1, <2>5, <3>2 DEF Wanted
  <2> QED
      BY <2>1, <2>3, <2>4, <2>5 DEF Locking
<1>2. ASSUME NEW t \in C PROVE row[Wanted(t)] # t
  <2>1. PICK u \in C : WaitsFor(t, u)
      BY DEF Knot
  <2>2. CASE row[Wanted(t)] = u
      BY <2>1, <2>2 DEF WaitsFor
  <2>3. CASE u \in share[Wanted(t)]
      BY <1>1, <2>1, <2>3 DEF WaitsFor, OrderInv, LocksExclude
  <2> QED
      BY <2>1, <2>2, <2>3 DEF WaitsFor
<1>3. ASSUME NEW t \in C PROVE \E u \in C : Rank[Wanted(t)] < Rank[Wanted(u)]
  <2>1. PICK u \in C : WaitsFor(t, u)
      BY DEF Knot
  <2>2. Holds(u, Wanted(t))
      BY <2>1 DEF WaitsFor, Holds
  <2> QED
      BY <1>1, <1>2, <2>2, OrderAscends DEF AscendingLocks
<1>4. \A t \in C : height(t) \in Nat
    BY <1>1, RankAssumption
<1> DEFINE heights == {height(t) : t \in C}
<1>5. PICK n \in heights : \A m \in heights : n <= m
  <2>1. heights \in SUBSET Nat /\ heights # {}
      BY <1>4 DEF Knot
  <2> HIDE DEF heights
  <2> QED
      BY <2>1, LeastNatural
<1>6. PICK t \in C : n = height(t)
    OBVIOUS
<1>7. PICK u \in C : Rank[Wanted(t)] < Rank[Wanted(u)]
    BY <1>3
<1>8. height(t) <= height(u)
    BY <1>5, <1>6
<1>9. Rank[Wanted(t)] \in Int /\ Rank[Wanted(u)] \in Int /\ MaxRank \in Int
    BY <1>1, RankAssumption
<1> QED
    BY <1>7, <1>8, <1>9

\* Both invariants hold of every run.
LEMMA SpecOrder == Spec => [](Inv /\ OrderInv)
BY InitInv, InitOrder, NextInv, NextOrder, PTL DEF Spec

(***************************************************************************)
(* Because lock_wallets sorts, an operation that locks everything it       *)
(* touches through it, or touches one wallet only, never waits for a row   *)
(* below one it holds.                                                     *)
(***************************************************************************)
THEOREM LocksAscend == Spec => []AscendingLocks
BY SpecOrder, OrderAscends, PTL

(***************************************************************************)
(* In every deadlock there is an operation that does not: the comment of   *)
(* lock_wallets, for any number of wallets and connections.                *)
(***************************************************************************)
THEOREM DeadlocksNeedUnordered == Spec => []DeadlocksAreUnordered
<1>1. Inv /\ OrderInv => DeadlocksAreUnordered
    BY AscendingExcludesKnots
<1> QED
    BY <1>1, SpecOrder, PTL
-----------------------------------------------------------------------------
(* Wallets on hold.                                                        *)

\* An operation whose next entry is a reversal reverses.
LEMMA CurrentReverses ==
    ASSUME Inv, HoldInv, NEW t \in Txs, todo[t] # <<>>,
           Current(t).type = "DEPOSIT_REVERSAL"
    PROVE  Reverses(prog[t])
<1>1. todo[t] \in Seq(Entries)
    BY DEF Inv, TypeOK
<1>2. 1 \in 1..Len(todo[t]) /\ todo[t][1] = Head(todo[t])
    BY <1>1
<1>3. HoldProgress(t)
    BY DEF HoldInv
<1> QED
    BY <1>2, <1>3 DEF HoldProgress, Current

\* A step of another transaction that puts no wallet on hold u has locked.
LEMMA OthersHold ==
    ASSUME Inv, HoldInv, NEW u \in Txs, led' \in Ledgers,
           pc'[u] = pc[u], todo'[u] = todo[u], prog'[u] = prog[u], delta'[u] = delta[u],
           \A w \in led'.hold : row[w] = u => w \in led.hold
    PROVE  HoldProgress(u)'
<1>1. HoldProgress(u) /\ InOrder(u)
    BY DEF HoldInv, Inv, StatementsInOrder
<1>2. Reverses(prog[u])' <=> Reverses(prog[u])
    BY DEF Reverses
<1>3. CurrentWallet(u)' = CurrentWallet(u)
    BY DEF CurrentWallet, Current
<1>4. led'.hold \in SUBSET Wallets
    BY DEF Ledgers
<1>5. \A w \in led'.hold : delta[u][w] # 0 => w \in led.hold
    BY <1>4 DEF Inv, ChangesUnderLock
<1>6. pc[u] \in {"balance", "insert"} => row[CurrentWallet(u)] = u
    BY <1>1 DEF InOrder
<1>7. \A i \in 1..Len(todo'[u]) : todo'[u][i].type = "DEPOSIT_REVERSAL" => Reverses(prog[u])'
    BY <1>1, <1>2 DEF HoldProgress
<1>8. pc'[u] \in {"balance", "insert"} /\ CurrentWallet(u)' \in led'.hold => Reverses(prog[u])'
    BY <1>1, <1>2, <1>3, <1>6 DEF HoldProgress
<1>9. \A w \in led'.hold : delta'[u][w] # 0 => Reverses(prog[u])'
    BY <1>1, <1>2, <1>5 DEF HoldProgress
<1> QED
    BY <1>7, <1>8, <1>9 DEF HoldProgress

\* A connection that starts an operation has changed no wallet.
LEMMA BeginHold ==
    ASSUME Inv, OrderInv, HoldInv, NEW t \in Txs, Begin(t)
    PROVE  HoldInv'
<1>1. PICK p \in Programs :
          /\ prog' = [prog EXCEPT ![t] = p]
          /\ todo' = [todo EXCEPT ![t] = p.entries]
          /\ pc' = [pc EXCEPT ![t] = IF p.refers = {} THEN FirstLock(p) ELSE "reference"]
    BY DEF Begin
<1>2. UNCHANGED <<led, delta>> /\ pc[t] = "idle" /\ led \in Ledgers
    BY DEF Begin, Inv, TypeOK
<1>3. \A w \in Wallets : row[w] # t
    BY <1>2 DEF OrderInv, LockProgress, NoProgram, Entered
<1>4. \A w \in led.hold : delta[t][w] = 0
    BY <1>2, <1>3 DEF Inv, ChangesUnderLock, Ledgers
<1>5. prog'[t] = p /\ todo'[t] = p.entries /\ pc'[t] \notin {"balance", "insert"}
    BY <1>1 DEF Inv, TypeOK, FirstLock
<1>6. Reverses(prog[t])' <=> Reverses(p)
    BY <1>5 DEF Reverses
<1>7. HoldProgress(t)'
  <2>1. \A i \in 1..Len(p.entries) : p.entries[i].type = "DEPOSIT_REVERSAL" => Reverses(p)
      BY DEF Reverses
  <2> QED
      BY <1>2, <1>4, <1>5, <1>6, <2>1 DEF HoldProgress
<1>8. ASSUME NEW u \in Txs \ {t} PROVE HoldProgress(u)'
    BY <1>1, <1>2, OthersHold DEF Inv, TypeOK
<1> QED
    BY <1>7, <1>8 DEF HoldInv

\* A step that changes neither a balance nor an entry keeps what is known of
\* the holds; the hold check itself establishes it for the wallet it is about.
LEMMA QuietHold ==
    ASSUME Inv, HoldInv, NEW t \in Txs, UNCHANGED <<led, prog, todo, delta>>,
           \A u \in Txs \ {t} : pc'[u] = pc[u],
           pc'[t] \in {"balance", "insert"} /\ CurrentWallet(t) \in led.hold => Reverses(prog[t])
    PROVE  HoldInv'
<1>1. led \in Ledgers
    BY DEF Inv, TypeOK
<1>2. HoldProgress(t)'
    BY DEF HoldInv, HoldProgress, Reverses, CurrentWallet, Current
<1>3. ASSUME NEW u \in Txs \ {t} PROVE HoldProgress(u)'
    BY <1>1, OthersHold
<1> QED
    BY <1>2, <1>3 DEF HoldInv

\* A transaction that ends puts on hold only wallets it has locked itself.
LEMMA ReleaseHold ==
    ASSUME Inv, HoldInv, NEW t \in Txs, Release(t), led' \in {led, View(t)}
    PROVE  HoldInv'
<1>1. led' \in Ledgers
    BY ViewType DEF Inv, TypeOK
<1>2. /\ pc'[t] = "idle" /\ todo'[t] = <<>> /\ \A w \in Wallets : delta'[t][w] = 0
      /\ \A u \in Txs \ {t} : /\ pc'[u] = pc[u] /\ todo'[u] = todo[u]
                               /\ prog'[u] = prog[u] /\ delta'[u] = delta[u]
    BY DEF Release, Inv, TypeOK, NoChange
<1>3. HoldProgress(t)'
  <2>1. \A w \in led'.hold : delta'[t][w] = 0
      BY <1>1, <1>2 DEF Ledgers
  <2> QED
      BY <1>2, <2>1 DEF HoldProgress
<1>4. ASSUME NEW u \in Txs \ {t} PROVE HoldProgress(u)'
  <2>1. \A w \in held[t] : w \in Wallets /\ row[w] = t
      BY DEF Inv, TypeOK, ChangesUnderLock
  <2>2. \A w \in led'.hold : row[w] = u => w \in led.hold
      BY <2>1 DEF View
  <2> QED
      BY <1>1, <1>2, <2>2, OthersHold
<1> QED
    BY <1>3, <1>4 DEF HoldInv

\* The hold check passes on a wallet on hold only for a reversal.
LEMMA CheckHoldHold ==
    ASSUME Inv, HoldInv, NEW t \in Txs, CheckHold(t)
    PROVE  HoldInv'
<1>1. CASE HoldPermits(View(t), Current(t))
  <2>1. todo[t] # <<>>
      BY DEF CheckHold, Inv, StatementsInOrder, InOrder
  <2>2. CurrentWallet(t) \in led.hold => Reverses(prog[t])
      BY <1>1, <2>1, CurrentReverses DEF HoldPermits, View, CurrentWallet
  <2>3. /\ UNCHANGED <<led, prog, todo, delta>>
        /\ \A u \in Txs \ {t} : pc'[u] = pc[u]
      BY <1>1 DEF CheckHold, Proceed, Inv, TypeOK
  <2> QED
      BY <2>2, <2>3, QuietHold
<1>2. CASE ~ HoldPermits(View(t), Current(t))
    BY <1>2, ReleaseHold DEF CheckHold, Rollback
<1> QED
    BY <1>1, <1>2

\* What the hold check found still stands after the balance check.
LEMMA CheckBalanceHold ==
    ASSUME Inv, HoldInv, NEW t \in Txs, CheckBalance(t)
    PROVE  HoldInv'
<1>1. CASE UNCHANGED led /\ Release(t)
    BY <1>1, ReleaseHold
<1>2. CASE UNCHANGED <<led, prog, todo, delta>> /\ \A u \in Txs \ {t} : pc'[u] = pc[u]
  <2>1. CurrentWallet(t) \in led.hold => Reverses(prog[t])
      BY DEF HoldInv, HoldProgress, CheckBalance
  <2> QED
      BY <1>2, <2>1, QuietHold
<1>3. \/ UNCHANGED led /\ Release(t)
      \/ UNCHANGED <<led, prog, todo, delta>> /\ \A u \in Txs \ {t} : pc'[u] = pc[u]
    BY DEF CheckBalance, Proceed, Rollback, Inv, TypeOK
<1> QED
    BY <1>1, <1>2, <1>3

\* An entry inserted into a wallet on hold is a reversal.
LEMMA InsertHold ==
    ASSUME Inv, HoldInv, NEW t \in Txs, Insert(t)
    PROVE  HoldInv'
<1>1. CASE ~ Fresh(View(t), Current(t))
    BY <1>1, ReleaseHold DEF Insert, Rollback
<1>2. CASE Fresh(View(t), Current(t))
  <2> DEFINE w == CurrentWallet(t)
             a == Current(t).amount
  <2>1. /\ delta' = [delta EXCEPT ![t][w] = @ + a]
        /\ todo' = [todo EXCEPT ![t] = Tail(@)]
        /\ pc' = [pc EXCEPT ![t] = IF Tail(todo[t]) = <<>> THEN "commit" ELSE "lock_wallet"]
        /\ UNCHANGED <<led, prog>>
      BY <1>2 DEF Insert
  <2>2. todo[t] # <<>> /\ todo[t] \in Seq(Entries) /\ led \in Ledgers
      BY DEF Insert, Inv, TypeOK, StatementsInOrder, InOrder
  <2>3. /\ \A i \in 1..Len(todo[t]) : todo[t][i].type = "DEPOSIT_REVERSAL" => Reverses(prog[t])
        /\ w \in led.hold => Reverses(prog[t])
        /\ \A v \in led.hold : delta[t][v] # 0 => Reverses(prog[t])
      BY DEF HoldInv, HoldProgress, Insert
  <2> HIDE DEF w, a
  <2>4. /\ todo'[t] = Tail(todo[t]) /\ pc'[t] \notin {"balance", "insert"}
        /\ \A v \in Wallets \ {w} : delta'[t][v] = delta[t][v]
      BY <2>1 DEF Inv, TypeOK
  <2>5. Reverses(prog[t])' <=> Reverses(prog[t])
      BY <2>1 DEF Reverses
  <2>6. HoldProgress(t)'
    <3>1. \A i \in 1..Len(Tail(todo[t])) : /\ i + 1 \in 1..Len(todo[t])
                                           /\ Tail(todo[t])[i] = todo[t][i + 1]
        BY <2>2
    <3>2. \A i \in 1..Len(todo'[t]) : todo'[t][i].type = "DEPOSIT_REVERSAL" => Reverses(prog[t])
        BY <2>3, <2>4, <3>1
    <3>3. \A v \in led.hold : delta'[t][v] # 0 => Reverses(prog[t])
        BY <2>2, <2>3, <2>4 DEF Ledgers
    <3> QED
        BY <2>1, <2>4, <2>5, <3>2, <3>3 DEF HoldProgress
  <2>7. ASSUME NEW u \in Txs \ {t} PROVE HoldProgress(u)'
      BY <2>1, <2>2, OthersHold DEF Inv, TypeOK
  <2> QED
      BY <2>6, <2>7 DEF HoldInv
<1> QED
    BY <1>1, <1>2

\* Every statement of every connection keeps what is known of the holds.
LEMMA NextHold == Inv /\ OrderInv /\ HoldInv /\ [Next]_vars => HoldInv'
<1> SUFFICES ASSUME Inv, OrderInv, HoldInv, [Next]_vars PROVE HoldInv'
    OBVIOUS
<1>1. CASE UNCHANGED vars
  <2>1. UNCHANGED <<led, pc, prog, todo, delta>> /\ led \in Ledgers
      BY <1>1 DEF vars, Inv, TypeOK
  <2> QED
      BY <2>1, OthersHold DEF HoldInv
<1>2. ASSUME NEW t \in Txs, Begin(t) \/ Step(t) \/ Abort(t) PROVE HoldInv'
  <2>1. CASE Begin(t)
      BY <2>1, BeginHold
  <2>2. CASE InsertReference(t) \/ LockNext(t) \/ LockRow(t)
    <3>1. /\ UNCHANGED <<led, prog, todo, delta>>
          /\ \A u \in Txs \ {t} : pc'[u] = pc[u]
          /\ pc'[t] \notin {"balance", "insert"}
        BY <2>2 DEF InsertReference, LockNext, LockRow, FirstLock, Inv, TypeOK
    <3> QED
        BY <3>1, QuietHold
  <2>3. CASE CheckHold(t)
      BY <2>3, CheckHoldHold
  <2>4. CASE CheckBalance(t)
      BY <2>4, CheckBalanceHold
  <2>5. CASE Insert(t)
      BY <2>5, InsertHold
  <2>6. CASE Commit(t) \/ Abort(t) \/ DeadlockAbort(t)
      BY <2>6, ReleaseHold DEF Commit, Abort, DeadlockAbort, Rollback
  <2> QED
      BY <1>2, <2>1, <2>2, <2>3, <2>4, <2>5, <2>6 DEF Step
<1> QED
    BY <1>1, <1>2 DEF Next

\* At first nothing has been changed.
LEMMA InitHold == Init => HoldInv
BY DEF Init, HoldInv, HoldProgress, NoChange

\* Only a commit changes the committed ledger, by what the transaction kept
\* apart.
LEMMA FrozenStep ==
    ASSUME Inv, HoldInv, [Next]_vars, NEW w \in led.hold, led'.balance[w] # led.balance[w]
    PROVE  \E t \in Txs : pc[t] = "commit" /\ Reverses(prog[t])
<1>1. PICK t \in Txs : Commit(t)
    BY DEF Next, Step, vars, Begin, InsertReference, LockNext, LockRow, CheckHold, CheckBalance,
           Insert, Proceed, Rollback, Abort, DeadlockAbort
<1>2. w \in Wallets /\ led.balance[w] \in Int /\ delta[t][w] \in Int
    BY DEF Inv, TypeOK, Ledgers
<1>3. led'.balance[w] = led.balance[w] + delta[t][w]
    BY <1>1, <1>2 DEF Commit, View
<1>4. delta[t][w] # 0
    BY <1>2, <1>3
<1> QED
    BY <1>1, <1>4 DEF HoldInv, HoldProgress, Commit

(***************************************************************************)
(* No transaction changes a wallet on hold but to take a deposit back: the *)
(* read of reorg_hold_at in apply_ledger_entry stands until the commit,    *)
(* because whoever would put the wallet on hold needs its row.             *)
(***************************************************************************)
THEOREM HeldWalletsStayFrozen == Spec => HeldWalletsFrozen
<1>1. Inv /\ HoldInv /\ [Next]_vars =>
          [\A w \in led.hold : led'.balance[w] # led.balance[w] =>
               \E t \in Txs : pc[t] = "commit" /\ Reverses(prog[t])]_vars
    BY FrozenStep
<1> QED
    BY <1>1, InitHold, NextHold, SpecOrder, PTL DEF Spec, HeldWalletsFrozen

-----------------------------------------------------------------------------
(* The committed ledger as one transaction at a time.                      *)

\* Where t has rows it has not committed, it holds the wallet.
LEMMA RowsUnderLock ==
    ASSUME Inv, NEW t \in Txs, NEW w \in Wallets, row[w] # t
    PROVE  /\ delta[t][w] = 0 /\ w \notin held[t]
           /\ \A ty, r : <<w, ty, r>> \notin mine[t]
           /\ View(t).balance[w] = led.balance[w]
           /\ w \in View(t).hold <=> w \in led.hold
           /\ \A ty, r : <<w, ty, r>> \in View(t).keys <=> <<w, ty, r>> \in led.keys
<1>1. delta[t][w] = 0 /\ w \notin held[t] /\ \A k \in mine[t] : k[1] # w
    BY DEF Inv, ChangesUnderLock
<1>2. \A ty, r : <<w, ty, r>> \notin mine[t]
    BY <1>1
<1>3. led.balance[w] \in Int /\ View(t).balance[w] = led.balance[w] + delta[t][w]
    BY ViewType DEF Inv, TypeOK, Ledgers
<1> QED
    BY <1>1, <1>2, <1>3 DEF View

\* Ledgers are the same when they agree on every wallet.
LEMMA LedgersEqual ==
    ASSUME NEW l \in Ledgers, NEW m \in Ledgers, AgreeOn(l, m, Wallets)
    PROVE  l = m
<1>1. /\ l.balance \in [Wallets -> Int] /\ m.balance \in [Wallets -> Int]
      /\ l.hold \in SUBSET Wallets /\ m.hold \in SUBSET Wallets
      /\ l.keys \in SUBSET Keys /\ m.keys \in SUBSET Keys
      /\ l = [balance |-> l.balance, hold |-> l.hold, keys |-> l.keys]
      /\ m = [balance |-> m.balance, hold |-> m.hold, keys |-> m.keys]
    BY DEF Ledgers
<1>2. l.balance = m.balance
    BY <1>1 DEF AgreeOn
<1>3. l.hold = m.hold
    BY <1>1 DEF AgreeOn
<1>4. \A k \in Keys : k \in l.keys <=> k \in m.keys
    BY DEF AgreeOn, Keys
<1>5. l.keys = m.keys
    BY <1>1, <1>4
<1> QED
    BY <1>1, <1>2, <1>3, <1>5

\* What t posts, in the types the lemmas of the ledger ask for.
LEMMA AppliedType ==
    ASSUME Inv, NEW t \in Txs, Replays(t)
    PROVE  /\ Applied(t) \in Seq(Entries)
           /\ [View(t) EXCEPT !.hold = led.hold] \in Ledgers
           /\ led \in Ledgers
           /\ prog[t].entries \in Seq(Entries)
<1>1. /\ prog[t].entries \in Seq(Entries) /\ todo[t] \in Seq(Entries)
      /\ prog[t] \in Programs
    BY ProgramAssumption DEF Replays, ProgramSpace, Inv, TypeOK
<1>2. Len(prog[t].entries) - Len(todo[t]) <= Len(prog[t].entries)
  <2>1. Len(prog[t].entries) \in Nat /\ Len(todo[t]) \in Nat
      BY <1>1
  <2>2. \A m, n \in Nat : m - n <= m
      OBVIOUS
  <2> QED
      BY <2>1, <2>2, Zenon
<1>3. \A n \in Int : n <= Len(prog[t].entries) => SubSeq(prog[t].entries, 1, n) \in Seq(Entries)
    BY <1>1
<1>4. Applied(t) \in Seq(Entries)
    BY <1>1, <1>2, <1>3 DEF Applied
<1> QED
    BY <1>1, <1>4, ViewType DEF Inv, TypeOK, Ledgers

\* A step of another transaction: the committed ledger may change, but not the
\* rows of the wallets u has locked, and what u has posted comes out the same.
LEMMA OthersReplay ==
    ASSUME Inv, ReplayInv, NEW u \in Txs, pc[u] # "idle", led' \in Ledgers, Inv',
           pc'[u] = pc[u], todo'[u] = todo[u], prog'[u] = prog[u], delta'[u] = delta[u],
           mine'[u] = mine[u], held'[u] = held[u],
           \A w \in Wallets : row[w] = u => row'[w] = u,
           AgreeOn(led, led', {w \in Wallets : row[w] = u})
    PROVE  Replays(u)'
<1> DEFINE W == {w \in Wallets : row[w] = u}
           a == PostAll(led, Applied(u))
           b == PostAll(led', Applied(u))
           seen == [View(u) EXCEPT !.hold = led.hold]
           seen2 == [View(u)' EXCEPT !.hold = led'.hold]
<1>1. Replays(u) /\ InOrder(u)
    BY DEF ReplayInv, Inv, StatementsInOrder
<1>2. /\ Applied(u)' = Applied(u) /\ Current(u)' = Current(u)
      /\ CurrentWallet(u)' = CurrentWallet(u)
    BY DEF Applied, Current, CurrentWallet
<1>3. /\ Applied(u) \in Seq(Entries) /\ led \in Ledgers /\ seen \in Ledgers
      /\ \A i \in 1..Len(Applied(u)) : Applied(u)[i].wallet \in W
  <2>1. Applied(u) \in Seq(Entries) /\ led \in Ledgers /\ seen \in Ledgers
      BY <1>1, AppliedType
  <2>2. \A i \in 1..Len(Applied(u)) : Applied(u)[i] \in Entries
      BY <2>1
  <2> QED
      BY <1>1, <2>1, <2>2 DEF Replays, Entries
<1>4. a = [ok |-> TRUE, ledger |-> seen]
    BY <1>1 DEF Replays
<1>5. /\ b.ok
      /\ AgreeOn(seen, b.ledger, W)
      /\ AgreeOn(b.ledger, led', Wallets \ W)
      /\ b.ledger.hold = led'.hold
      /\ b \in Outcomes
  <2> HIDE DEF W, seen
  <2>1. AgreeOn(led, led', W) /\ W \in SUBSET Wallets
      BY DEF W
  <2>2. /\ a.ok <=> b.ok
        /\ a.ok => /\ AgreeOn(a.ledger, b.ledger, W)
                   /\ AgreeOn(b.ledger, led', Wallets \ W)
                   /\ b.ledger.hold = led'.hold
    <3>1. PICK m : m = led'
        OBVIOUS
    <3>2. PICK es : es = Applied(u)
        OBVIOUS
    <3>v. PICK V : V = W
        OBVIOUS
    <3>3. /\ led \in Ledgers /\ m \in Ledgers /\ AgreeOn(led, m, V)
          /\ es \in Seq(Entries) /\ V \in SUBSET Wallets
          /\ \A i \in 1..Len(es) : es[i].wallet \in V
        BY <1>3, <2>1, <3>1, <3>2, <3>v
    <3>4. PostsAlike(led, m, es, V)
        BY <3>3, PostAllAgrees, Zenon
    <3> QED
        BY <3>1, <3>2, <3>v, <3>4 DEF PostsAlike
  <2>3. b \in Outcomes
      BY <1>3, PostAllType
  <2> QED
      BY <1>4, <2>2, <2>3
<1>6. seen2 \in Ledgers
  <2>1. /\ led'.balance \in [Wallets -> Int] /\ led'.hold \in SUBSET Wallets
        /\ led'.keys \in SUBSET Keys
        /\ delta'[u] \in [Wallets -> Int] /\ mine'[u] \in SUBSET Keys
      BY DEF Inv, TypeOK, Ledgers
  <2>2. seen2 = [balance |-> [w \in Wallets |-> led'.balance[w] + delta'[u][w]],
                 hold    |-> led'.hold,
                 keys    |-> led'.keys \cup mine'[u]]
    <3>1. PICK bal : bal = [w \in Wallets |-> led'.balance[w] + delta'[u][w]]
        OBVIOUS
    <3>2. PICK ks : ks = led'.keys \cup mine'[u]
        OBVIOUS
    <3>3. PICK h : h = led'.hold
        OBVIOUS
    <3>4. PICK v : v = [balance |-> bal, hold |-> h \cup held'[u], keys |-> ks]
        OBVIOUS
    <3>5. View(u)' = v
        BY <3>1, <3>2, <3>3, <3>4 DEF View
    <3>6. [v EXCEPT !.hold = h] = [balance |-> bal, hold |-> h, keys |-> ks]
        BY <3>4
    <3> QED
        BY <3>1, <3>2, <3>3, <3>5, <3>6
  <2> HIDE DEF seen2
  <2> QED
      BY <2>1, <2>2 DEF Ledgers
<1>7. AgreeOn(seen2, seen, W)
  <2>1. ASSUME NEW w \in W
        PROVE  /\ seen2.balance[w] = seen.balance[w]
               /\ w \in seen2.hold <=> w \in seen.hold
               /\ \A ty, r : <<w, ty, r>> \in seen2.keys <=> <<w, ty, r>> \in seen.keys
    <3>1. /\ led.balance[w] = led'.balance[w]
          /\ w \in led.hold <=> w \in led'.hold
          /\ \A ty, r : <<w, ty, r>> \in led.keys <=> <<w, ty, r>> \in led'.keys
        BY <2>1 DEF AgreeOn
    <3> QED
        BY <2>1, <3>1 DEF View
  <2> QED
      BY <2>1 DEF AgreeOn
<1>8. AgreeOn(seen2, led', Wallets \ W)
  <2>1. ASSUME NEW w \in Wallets \ W
        PROVE  /\ seen2.balance[w] = led'.balance[w]
               /\ w \in seen2.hold <=> w \in led'.hold
               /\ \A ty, r : <<w, ty, r>> \in seen2.keys <=> <<w, ty, r>> \in led'.keys
    <3>1. delta[u][w] = 0 /\ \A ty, r : <<w, ty, r>> \notin mine[u]
        BY <2>1, RowsUnderLock
    <3>2. led'.balance[w] \in Int
        BY <2>1 DEF Ledgers
    <3> QED
        BY <2>1, <3>1, <3>2 DEF View
  <2> QED
      BY <2>1 DEF AgreeOn
<1>9. AgreeOn(b.ledger, seen2, Wallets)
  <2> HIDE DEF b, seen, seen2
  <2> QED
      BY <1>5, <1>7, <1>8 DEF AgreeOn
<1>10. b.ledger = seen2
  <2> HIDE DEF b, seen2
  <2>1. b.ledger \in Ledgers
      BY <1>5 DEF Outcomes
  <2> QED
      BY <2>1, <1>6, <1>9, LedgersEqual
<1>11. b = [ok |-> TRUE, ledger |-> seen2]
  <2> HIDE DEF b, seen2
  <2> QED
      BY <1>5, <1>10 DEF Outcomes
<1>12. pc[u] \in {"balance", "insert"} => (HoldPermits(led, Current(u)) <=> HoldPermits(led', Current(u)))
  <2>1. pc[u] \in {"balance", "insert"} => CurrentWallet(u) \in W
      BY <1>1, CurrentType DEF InOrder, Inv
  <2> QED
      BY <2>1 DEF AgreeOn, HoldPermits, CurrentWallet
<1>13. ASSUME pc[u] = "commit", todo[u] # <<>>
       PROVE  (Covers(led, Current(u)) <=> Covers(led', Current(u)))
  <2>1. CurrentWallet(u) \in W
      BY <1>1, <1>13, CurrentType DEF Replays, Inv
  <2> QED
      BY <2>1 DEF AgreeOn, Covers, CurrentWallet
<1>14. ASSUME pc[u] = "commit", todo[u] # <<>>
       PROVE  CurrentWallet(u) \in Wallets
    BY <1>14, CurrentType DEF Inv
<1>15. /\ prog'[u] \in Programs
       /\ Applied(u)' \o todo'[u] = prog'[u].entries
       /\ \A i \in 1..Len(Applied(u)') : row'[Applied(u)'[i].wallet] = u
       /\ pc'[u] \in {"balance", "insert"} => HoldPermits(led', Current(u)')
  <2>1. \A i \in 1..Len(Applied(u)) : row'[Applied(u)[i].wallet] = u
      BY <1>3
  <2> QED
      BY <1>1, <1>2, <1>12, <2>1 DEF Replays
<1>16. PostAll(led', Applied(u)') = [ok |-> TRUE, ledger |-> [View(u)' EXCEPT !.hold = led'.hold]]
    BY <1>2, <1>11
<1>17. IF pc'[u] = "commit" /\ todo'[u] # <<>>
       THEN /\ prog'[u].orphans
            /\ held'[u] = {CurrentWallet(u)'} /\ row'[CurrentWallet(u)'] = u
            /\ ~ Covers(led', Current(u)')
       ELSE held'[u] = {}
    BY <1>1, <1>2, <1>13, <1>14 DEF Replays
<1> HIDE DEF W, a, b, seen, seen2
<1> QED
    BY <1>15, <1>16, <1>17 DEF Replays

\* A connection that starts an operation has posted nothing.
LEMMA BeginReplay ==
    ASSUME Inv, OrderInv, ReplayInv, Inv', NEW t \in Txs, Begin(t)
    PROVE  ReplayInv'
<1>1. PICK p \in Programs :
          /\ prog' = [prog EXCEPT ![t] = p]
          /\ todo' = [todo EXCEPT ![t] = p.entries]
          /\ pc' = [pc EXCEPT ![t] = IF p.refers = {} THEN FirstLock(p) ELSE "reference"]
    BY DEF Begin
<1>2. UNCHANGED <<led, row, delta, mine, held>> /\ pc[t] = "idle" /\ led \in Ledgers
    BY DEF Begin, Inv, TypeOK
<1>3. \A w \in Wallets : row[w] # t
    BY <1>2 DEF OrderInv, LockProgress, NoProgram, Entered
<1>4. View(t) \in Ledgers /\ AgreeOn(View(t), led, Wallets) /\ held[t] = {}
    BY <1>3, RowsUnderLock, ViewType DEF AgreeOn, Inv, TypeOK
<1>5. View(t) = led /\ View(t)' = View(t)
    BY <1>2, <1>4, LedgersEqual DEF View
<1>6. p.entries \in Seq(Entries) /\ p.entries # <<>>
    BY ProgramAssumption DEF ProgramSpace
<1>7. /\ prog'[t] = p /\ todo'[t] = p.entries
      /\ pc'[t] \notin {"balance", "insert", "commit"}
    BY <1>1 DEF Inv, TypeOK, FirstLock
<1>8. Applied(t)' = <<>>
  <2>1. Len(p.entries) - Len(p.entries) = 0 /\ SubSeq(p.entries, 1, 0) = <<>>
      BY <1>6
  <2> QED
      BY <1>7, <2>1 DEF Applied
<1>9. PostAll(led, <<>>) = [ok |-> TRUE, ledger |-> led]
    BY <1>2, PostAllNone DEF Start
<1>10. [View(t)' EXCEPT !.hold = led'.hold] = led'
    BY <1>2, <1>5 DEF Ledgers
<1>11. <<>> \o p.entries = p.entries /\ Len(<<>>) = 0
    BY <1>6
<1>12. PostAll(led', Applied(t)') = [ok |-> TRUE, ledger |-> [View(t)' EXCEPT !.hold = led'.hold]]
    BY <1>2, <1>8, <1>9, <1>10
<1>13. Replays(t)'
    BY <1>2, <1>4, <1>7, <1>8, <1>11, <1>12 DEF Replays
<1>14. ASSUME NEW u \in Txs \ {t}, pc'[u] # "idle" PROVE Replays(u)'
  <2>1. /\ pc'[u] = pc[u] /\ todo'[u] = todo[u] /\ prog'[u] = prog[u]
        /\ AgreeOn(led, led', {w \in Wallets : row[w] = u})
      BY <1>1, <1>2 DEF Inv, TypeOK, AgreeOn
  <2> QED
      BY <1>2, <1>14, <2>1, OthersReplay
<1> QED
    BY <1>13, <1>14 DEF ReplayInv

\* A statement that inserts nothing and puts nothing on hold; it passes the
\* hold check where it goes on to the balance or the INSERT.
LEMMA QuietReplay ==
    ASSUME Inv, ReplayInv, Inv', NEW t \in Txs, pc[t] \notin {"idle", "commit"},
           UNCHANGED <<led, prog, todo, delta, mine, held>>,
           pc'[t] \notin {"idle", "commit"},
           \A u \in Txs \ {t} : pc'[u] = pc[u],
           \A u \in Txs, w \in Wallets : row[w] = u => row'[w] = u,
           pc'[t] \in {"balance", "insert"} => HoldPermits(led, Current(t))
    PROVE  ReplayInv'
<1>1. led \in Ledgers /\ \A W : AgreeOn(led, led', W)
    BY DEF Inv, TypeOK, AgreeOn
<1>2. Replays(t)
    BY DEF ReplayInv
<1>3. Applied(t) \in Seq(Entries) /\ prog[t].entries \in Seq(Entries)
    BY <1>2, AppliedType
<1>4. \A i \in 1..Len(Applied(t)) : row'[Applied(t)[i].wallet] = t
  <2>1. \A i \in 1..Len(Applied(t)) : Applied(t)[i] \in Entries
      BY <1>3
  <2> QED
      BY <1>2, <2>1 DEF Replays, Entries
<1>5. /\ Applied(t)' = Applied(t) /\ View(t)' = View(t) /\ Current(t)' = Current(t)
    BY DEF Applied, View, Current
<1>6. Replays(t)'
    BY <1>2, <1>4, <1>5 DEF Replays
<1>7. ASSUME NEW u \in Txs \ {t}, pc'[u] # "idle" PROVE Replays(u)'
    BY <1>1, <1>7, OthersReplay
<1> QED
    BY <1>6, <1>7 DEF ReplayInv

\* The end of a transaction changes no row another one has locked.
LEMMA ReleaseReplay ==
    ASSUME Inv, ReplayInv, Inv', NEW t \in Txs, Release(t), led' \in {led, View(t)}
    PROVE  ReplayInv'
<1>1. led' \in Ledgers /\ pc'[t] = "idle"
    BY ViewType DEF Inv, TypeOK, Release
<1>2. ASSUME NEW u \in Txs \ {t}, pc'[u] # "idle" PROVE Replays(u)'
  <2>1. /\ pc'[u] = pc[u] /\ todo'[u] = todo[u] /\ prog'[u] = prog[u]
        /\ delta'[u] = delta[u] /\ mine'[u] = mine[u] /\ held'[u] = held[u]
        /\ \A w \in Wallets : row[w] = u => row'[w] = u
      BY DEF Release, Inv, TypeOK
  <2>2. \A w \in Wallets : row[w] = u => row[w] # t
      OBVIOUS
  <2>3. AgreeOn(led, led', {w \in Wallets : row[w] = u})
      BY <2>2, RowsUnderLock DEF AgreeOn
  <2> QED
      BY <1>1, <1>2, <2>1, <2>3, OthersReplay
<1> QED
    BY <1>1, <1>2 DEF ReplayInv

\* The hold check is made under the lock, and nobody else puts the wallet on
\* hold behind it.
LEMMA CheckHoldReplay ==
    ASSUME Inv, ReplayInv, Inv', NEW t \in Txs, CheckHold(t)
    PROVE  ReplayInv'
<1>1. CASE HoldPermits(View(t), Current(t))
  <2>1. held[t] = {}
      BY DEF CheckHold, ReplayInv, Replays
  <2>2. HoldPermits(led, Current(t))
      BY <1>1, <2>1 DEF HoldPermits, View
  <2>3. /\ pc[t] = "hold" /\ pc'[t] \in {"balance", "insert"}
        /\ UNCHANGED <<led, row, prog, todo, delta, mine, held>>
        /\ \A u \in Txs \ {t} : pc'[u] = pc[u]
      BY <1>1 DEF CheckHold, Proceed, Inv, TypeOK
  <2> QED
      BY <2>2, <2>3, QuietReplay
<1>2. CASE ~ HoldPermits(View(t), Current(t))
    BY <1>2, ReleaseReplay DEF CheckHold, Rollback
<1> QED
    BY <1>1, <1>2

\* The hold reconcile_deposit sets: nothing was posted before it.
LEMMA SpentDepositReplay ==
    ASSUME Inv, ReplayInv, Inv', NEW t \in Txs, pc[t] = "balance", prog[t].orphans,
           ~ Covers(View(t), Current(t)),
           held' = [held EXCEPT ![t] = @ \cup {CurrentWallet(t)}],
           pc' = [pc EXCEPT ![t] = "commit"],
           UNCHANGED <<led, row, share, prog, todo, toLock, delta, mine>>
    PROVE  ReplayInv'
<1>1. Replays(t) /\ led \in Ledgers /\ held[t] = {} /\ todo[t] # <<>>
      /\ row[CurrentWallet(t)] = t
    BY DEF ReplayInv, Replays, Inv, TypeOK, StatementsInOrder, InOrder
<1>2. /\ prog[t] \in Programs /\ prog[t].entries \in Seq(Entries) /\ Len(prog[t].entries) = 1
      /\ todo[t] \in Seq(Entries)
    BY <1>1, ProgramAssumption DEF Replays, ProgramSpace, Inv, TypeOK
<1>3. Applied(t) = <<>>
  <2>1. \A k, n \in Nat : k > 0 => 1 - k \in Int /\ 1 - k <= 0
      OBVIOUS
  <2>2. Len(todo[t]) \in Nat /\ Len(todo[t]) > 0
      BY <1>1, <1>2
  <2>3. \A n \in Int : n <= 0 => SubSeq(prog[t].entries, 1, n) = <<>>
      BY <1>2
  <2> QED
      BY <1>2, <2>1, <2>2, <2>3 DEF Applied
<1>4. PostAll(led, <<>>) = [ok |-> TRUE, ledger |-> led]
    BY <1>1, PostAllNone DEF Start
<1>5. [View(t) EXCEPT !.hold = led.hold] = led
    BY <1>1, <1>3, <1>4 DEF Replays
<1>6. View(t).balance = led.balance
    BY <1>5, <1>1 DEF Ledgers, View
<1>7. ~ Covers(led, Current(t))
    BY <1>6 DEF Covers
<1>8. /\ Applied(t)' = Applied(t) /\ Current(t)' = Current(t)
      /\ CurrentWallet(t)' = CurrentWallet(t)
    BY DEF Applied, Current, CurrentWallet
<1>9. [View(t)' EXCEPT !.hold = led'.hold] = [View(t) EXCEPT !.hold = led.hold]
  <2>1. \A bal, g, h, k, ks : [[balance |-> bal, hold |-> g, keys |-> ks] EXCEPT !.hold = k] =
                              [[balance |-> bal, hold |-> h, keys |-> ks] EXCEPT !.hold = k]
      OBVIOUS
  <2>2. PICK bal : bal = [w \in Wallets |-> led.balance[w] + delta[t][w]]
      OBVIOUS
  <2>3. /\ View(t) = [balance |-> bal, hold |-> led.hold \cup held[t], keys |-> led.keys \cup mine[t]]
        /\ View(t)' = [balance |-> bal, hold |-> led.hold \cup held'[t], keys |-> led.keys \cup mine[t]]
      BY <2>2 DEF View
  <2>4. [View(t)' EXCEPT !.hold = led.hold] = [View(t) EXCEPT !.hold = led.hold]
    <3> HIDE DEF View
    <3>1. PICK v, v2 : v = View(t) /\ v2 = View(t)'
        OBVIOUS
    <3>2. PICK g, h, ks : /\ v = [balance |-> bal, hold |-> g, keys |-> ks]
                          /\ v2 = [balance |-> bal, hold |-> h, keys |-> ks]
        BY <2>3, <3>1
    <3>3. [v2 EXCEPT !.hold = led.hold] = [v EXCEPT !.hold = led.hold]
        BY <2>1, <3>2
    <3> QED
        BY <3>1, <3>3
  <2> QED
      BY <2>4
<1>10. /\ pc'[t] = "commit" /\ held'[t] = {CurrentWallet(t)}
    BY <1>1 DEF Inv, TypeOK
<1>11. Replays(t)'
    BY <1>1, <1>7, <1>8, <1>9, <1>10 DEF Replays
<1>12. ASSUME NEW u \in Txs \ {t}, pc'[u] # "idle" PROVE Replays(u)'
  <2>1. pc'[u] = pc[u] /\ held'[u] = held[u] /\ AgreeOn(led, led', {w \in Wallets : row[w] = u})
      BY DEF Inv, TypeOK, AgreeOn
  <2> QED
      BY <1>1, <1>12, <2>1, OthersReplay
<1> QED
    BY <1>11, <1>12 DEF ReplayInv

\* The balance check.
LEMMA CheckBalanceReplay ==
    ASSUME Inv, ReplayInv, Inv', NEW t \in Txs, CheckBalance(t)
    PROVE  ReplayInv'
<1>1. CASE Covers(View(t), Current(t))
  <2>1. HoldPermits(led, Current(t))
      BY DEF CheckBalance, ReplayInv, Replays
  <2>2. /\ pc[t] = "balance" /\ pc'[t] = "insert"
        /\ UNCHANGED <<led, row, prog, todo, delta, mine, held>>
        /\ \A u \in Txs \ {t} : pc'[u] = pc[u]
      BY <1>1 DEF CheckBalance, Proceed, Inv, TypeOK
  <2> QED
      BY <2>1, <2>2, QuietReplay
<1>2. CASE ~ Covers(View(t), Current(t)) /\ prog[t].orphans
    BY <1>2, SpentDepositReplay DEF CheckBalance
<1>3. CASE ~ Covers(View(t), Current(t)) /\ ~ prog[t].orphans
    BY <1>3, ReleaseReplay DEF CheckBalance, Rollback
<1> QED
    BY <1>1, <1>2, <1>3

\* The INSERT posts one entry more.
LEMMA InsertReplay ==
    ASSUME Inv, ReplayInv, Inv', NEW t \in Txs, Insert(t)
    PROVE  ReplayInv'
<1>1. CASE ~ Fresh(View(t), Current(t))
    BY <1>1, ReleaseReplay DEF Insert, Rollback
<1>2. CASE Fresh(View(t), Current(t))
  <2> DEFINE e == Current(t)
             es == prog[t].entries
             done == Applied(t)
             seen == [View(t) EXCEPT !.hold = led.hold]
             next == [View(t)' EXCEPT !.hold = led'.hold]
  <2>1. /\ delta' = [delta EXCEPT ![t][CurrentWallet(t)] = @ + Current(t).amount]
        /\ mine' = [mine EXCEPT ![t] = @ \cup KeysOf(Current(t))]
        /\ todo' = [todo EXCEPT ![t] = Tail(@)]
        /\ pc' = [pc EXCEPT ![t] = IF Tail(todo[t]) = <<>> THEN "commit" ELSE "lock_wallet"]
        /\ UNCHANGED <<led, row, share, prog, toLock, held>>
        /\ pc[t] = "insert"
      BY <1>2 DEF Insert
  <2>2. Replays(t) /\ InOrder(t) /\ TypeOK
      BY <2>1 DEF ReplayInv, Inv, StatementsInOrder
  <2>3. /\ todo[t] # <<>> /\ row[CurrentWallet(t)] = t /\ Covers(View(t), e)
        /\ HoldPermits(led, e) /\ held[t] = {}
      BY <2>1, <2>2 DEF InOrder, Replays
  <2>4. /\ e \in Entries /\ CurrentWallet(t) \in Wallets /\ e.amount \in Int
        /\ done \in Seq(Entries) /\ es \in Seq(Entries) /\ todo[t] \in Seq(Entries)
        /\ led \in Ledgers /\ seen \in Ledgers
      BY <2>2, <2>3, CurrentType, AppliedType DEF TypeOK
  <2>5. done \o todo[t] = es /\ done = SubSeq(es, 1, Len(es) - Len(todo[t]))
      BY <2>2 DEF Replays, Applied
  <2>6. /\ Applied(t)' = Append(done, e)
        /\ Append(done, e) \o Tail(todo[t]) = es
    <3>1. PICK q : q = todo[t]
        OBVIOUS
    <3>2. PICK d : d = done
        OBVIOUS
    <3>3. PICK f : f = es
        OBVIOUS
    <3>4. /\ q \in Seq(Entries) /\ d \in Seq(Entries) /\ f \in Seq(Entries) /\ q # <<>>
          /\ d \o q = f /\ e = Head(q)
        BY <2>3, <2>4, <2>5, <3>1, <3>2, <3>3 DEF Current
    <3> HIDE DEF e
    <3>5. e = q[1] /\ Len(q) \in Nat /\ Len(q) >= 1 /\ Len(d) \in Nat
        BY <3>4
    <3>6. Len(f) = Len(d) + Len(q) /\ Len(Tail(q)) = Len(q) - 1
        BY <3>4
    <3>7. Len(f) - Len(Tail(q)) = Len(d) + 1
      <4>1. \A a, b \in Nat : (a + b) - (b - 1) = a + 1
          OBVIOUS
      <4> QED
          BY <3>5, <3>6, <4>1
    <3>8. f[Len(d) + 1] = e
        BY <3>4, <3>5
    <3>9. \A i \in 1..Len(d) : f[i] = d[i]
        BY <3>4
    <3>10. SubSeq(f, 1, Len(d) + 1) = Append(d, e)
      <4> DEFINE a == SubSeq(f, 1, Len(d) + 1)
                 b == Append(d, e)
      <4>1. /\ a \in Seq(Entries) /\ b \in Seq(Entries)
            /\ Len(a) = Len(d) + 1 /\ Len(b) = Len(d) + 1
          BY <2>4, <3>4, <3>5, <3>6
      <4>2. \A i \in 1..(Len(d) + 1) : a[i] = f[i]
          BY <3>4, <3>5, <3>6
      <4>3. \A i \in 1..(Len(d) + 1) : b[i] = f[i]
          BY <2>4, <3>4, <3>5, <3>8, <3>9
      <4>4. \A s, r \in Seq(Entries) :
                Len(s) = Len(r) /\ (\A i \in 1..Len(s) : s[i] = r[i]) => s = r
          OBVIOUS
      <4> HIDE DEF a, b
      <4>5. a = b
          BY <4>1, <4>2, <4>3, <4>4
      <4> QED
          BY <4>5 DEF a, b
    <3>11. Append(d, e) \o Tail(q) = f
      <4> DEFINE a == Append(d, e) \o Tail(q)
      <4>1. Append(d, e) \in Seq(Entries) /\ Tail(q) \in Seq(Entries) /\ Len(Append(d, e)) = Len(d) + 1
          BY <2>4, <3>4
      <4>2. a \in Seq(Entries) /\ Len(a) = Len(f)
          BY <3>4, <3>5, <3>6, <4>1
      <4>3. \A i \in 1..Len(f) : a[i] = f[i]
        <5> SUFFICES ASSUME NEW i \in 1..Len(f) PROVE a[i] = f[i]
            OBVIOUS
        <5>1. CASE i <= Len(d)
          <6>1. Append(d, e)[i] = d[i]
              BY <2>4, <3>4, <5>1
          <6> QED
              BY <3>5, <3>9, <4>1, <5>1, <6>1
        <5>2. CASE i = Len(d) + 1
          <6>1. Append(d, e)[i] = e
              BY <2>4, <3>4, <5>2
          <6> QED
              BY <3>5, <3>8, <4>1, <5>2, <6>1
        <5>3. CASE i > Len(d) + 1
          <6>1. a[i] = Tail(q)[i - (Len(d) + 1)]
              BY <3>5, <3>6, <4>1, <5>3
          <6>2. Tail(q)[i - (Len(d) + 1)] = q[i - Len(d)]
              BY <3>4, <3>5, <3>6, <5>3
          <6>3. f[i] = q[i - Len(d)]
              BY <3>4, <3>5, <3>6, <5>3
          <6> QED
              BY <6>1, <6>2, <6>3
        <5> QED
            BY <3>4, <3>5, <5>1, <5>2, <5>3
      <4>4. \A s, r \in Seq(Entries) :
                Len(s) = Len(r) /\ (\A i \in 1..Len(s) : s[i] = r[i]) => s = r
          OBVIOUS
      <4> HIDE DEF a
      <4>5. a = f
          BY <3>4, <4>2, <4>3, <4>4
      <4> QED
          BY <4>5 DEF a
    <3>12. todo'[t] = Tail(q) /\ prog'[t].entries = f
        BY <2>1, <2>2, <3>1, <3>3 DEF TypeOK
    <3> QED
        BY <3>1, <3>2, <3>3, <3>7, <3>10, <3>11, <3>12 DEF Applied
  <2> HIDE DEF e, es, done, seen, next
  <2>7. PostAll(led, done) = Start(seen)
      BY <2>2 DEF Replays, done, seen, Start
  <2>8. seen.balance = View(t).balance /\ seen.keys = View(t).keys /\ seen.hold = led.hold
      BY <2>4 DEF seen, View
  <2>9. Admits(seen, e)
      BY <1>2, <2>3, <2>8 DEF Admits, HoldPermits, Covers, Fresh, e
  <2>10. PostAll(led, Append(done, e)) = PostStep(Start(seen), e)
      BY <2>4, <2>7, PostAllLast
  <2>11. PostStep(Start(seen), e) = [ok |-> TRUE, ledger |-> Posted(seen, e)]
      BY <2>9 DEF PostStep, Start
  <2>12. Posted(seen, e) = next
    <3>1. Posted(seen, e) \in Ledgers /\ next \in Ledgers
      <4>1. Posted(seen, e) \in Ledgers
          BY <2>4, PostedIsALedger
      <4>2. View(t)' \in Ledgers
          BY ViewType DEF Inv, View, TypeOK, Ledgers
      <4>3. led'.hold \in SUBSET Wallets
          BY <2>1, <2>4 DEF Ledgers
      <4> QED
          BY <4>1, <4>2, <4>3 DEF Ledgers, next
    <3>2. \A w \in Wallets : Posted(seen, e).balance[w] = next.balance[w]
      <4> SUFFICES ASSUME NEW w \in Wallets PROVE Posted(seen, e).balance[w] = next.balance[w]
          OBVIOUS
      <4>1. Posted(seen, e).balance[w] = View(t).balance[w] + Effect(e, w)
          BY <2>4, <2>8, PostedBalances
      <4>2. next.balance[w] = led.balance[w] + delta'[t][w]
          BY <2>1 DEF next, View
      <4>3. delta'[t][w] = delta[t][w] + Effect(e, w)
        <5>1. delta[t] \in [Wallets -> Int]
            BY <2>2 DEF TypeOK
        <5> QED
            BY <2>1, <2>2, <2>4, <5>1 DEF TypeOK, Effect, CurrentWallet, e
      <4>4. View(t).balance[w] = led.balance[w] + delta[t][w]
          BY DEF View
      <4>5. led.balance[w] \in Int /\ delta[t][w] \in Int /\ Effect(e, w) \in Int
          BY <2>2, <2>4 DEF TypeOK, Ledgers, Effect
      <4> QED
          BY <4>1, <4>2, <4>3, <4>4, <4>5
    <3>3. Posted(seen, e).hold = next.hold
        BY <2>1, <2>8 DEF Posted, next, View
    <3>4. Posted(seen, e).keys = next.keys
      <4>1. mine'[t] = mine[t] \cup KeysOf(e)
          BY <2>1, <2>2 DEF TypeOK, e
      <4>2. next.keys = led.keys \cup mine'[t]
          BY <2>1 DEF next, View
      <4>3. View(t).keys = led.keys \cup mine[t]
          BY DEF View
      <4> QED
          BY <2>8, <4>1, <4>2, <4>3 DEF Posted
    <3> QED
        BY <3>1, <3>2, <3>3, <3>4, LedgersEqual DEF AgreeOn
  <2>13. PostAll(led', Applied(t)') = [ok |-> TRUE, ledger |-> [View(t)' EXCEPT !.hold = led'.hold]]
      BY <2>1, <2>6, <2>10, <2>11, <2>12 DEF next
  <2>14. \A i \in 1..Len(Append(done, e)) : row[Append(done, e)[i].wallet] = t
    <3>1. \A i \in 1..Len(done) : row[done[i].wallet] = t
        BY <2>2 DEF Replays, done
    <3>2. Len(Append(done, e)) = Len(done) + 1 /\ Len(done) \in Nat
        BY <2>4
    <3>3. \A i \in 1..Len(done) : Append(done, e)[i] = done[i]
        BY <2>4
    <3>4. Append(done, e)[Len(done) + 1] = e
        BY <2>4
    <3>5. row[e.wallet] = t
        BY <2>3 DEF CurrentWallet, e
    <3> QED
        BY <3>1, <3>2, <3>3, <3>4, <3>5
  <2>15. /\ todo'[t] = Tail(todo[t]) /\ prog'[t] = prog[t] /\ held'[t] = {}
         /\ pc'[t] \in {"commit", "lock_wallet"}
         /\ pc'[t] = "commit" => todo'[t] = <<>>
      BY <2>1, <2>2, <2>3 DEF TypeOK
  <2>16. Replays(t)'
      BY <2>1, <2>2, <2>6, <2>13, <2>14, <2>15 DEF Replays, es
  <2>17. ASSUME NEW u \in Txs \ {t}, pc'[u] # "idle" PROVE Replays(u)'
    <3>1. /\ pc'[u] = pc[u] /\ todo'[u] = todo[u] /\ prog'[u] = prog[u] /\ held'[u] = held[u]
          /\ delta'[u] = delta[u] /\ mine'[u] = mine[u] /\ led' \in Ledgers
          /\ AgreeOn(led, led', {w \in Wallets : row[w] = u})
        BY <2>1, <2>2 DEF TypeOK, AgreeOn
    <3> QED
        BY <2>1, <2>17, <3>1, OthersReplay
  <2> QED
      BY <2>16, <2>17 DEF ReplayInv
<1> QED
    BY <1>1, <1>2

\* Whatever any connection does next, what every transaction has kept apart is
\* what posting its entries to the committed ledger gives.
LEMMA NextReplay == Inv /\ OrderInv /\ ReplayInv /\ [Next]_vars => ReplayInv'
<1> SUFFICES ASSUME Inv, OrderInv, ReplayInv, [Next]_vars PROVE ReplayInv'
    OBVIOUS
<1>1. Inv'
    BY NextInv
<1>2. CASE UNCHANGED vars
  <2>1. UNCHANGED <<led, row, pc, prog, todo, delta, mine, held>> /\ led \in Ledgers
      BY <1>2 DEF vars, Inv, TypeOK
  <2>2. \A W : AgreeOn(led, led', W)
      BY <2>1 DEF AgreeOn
  <2>3. ASSUME NEW u \in Txs, pc'[u] # "idle" PROVE Replays(u)'
      BY <1>1, <2>1, <2>2, <2>3, OthersReplay
  <2> QED
      BY <2>3 DEF ReplayInv
<1>3. ASSUME NEW t \in Txs, Begin(t) \/ Step(t) \/ Abort(t) PROVE ReplayInv'
  <2>1. CASE Begin(t)
      BY <1>1, <2>1, BeginReplay
  <2>2. CASE InsertReference(t)
    <3>1. /\ UNCHANGED <<led, row, prog, todo, delta, mine, held>>
          /\ \A u \in Txs \ {t} : pc'[u] = pc[u]
          /\ pc[t] = "reference" /\ pc'[t] \in {"lock_wallet", "lock_wallets"}
        BY <2>2 DEF InsertReference, FirstLock, Inv, TypeOK
    <3> QED
        BY <1>1, <3>1, QuietReplay
  <2>3. CASE LockNext(t)
    <3>1. toLock[t] # {}
        BY <2>3 DEF LockNext, Inv, StatementsInOrder, InOrder
    <3>2. NextToLock(t) \in Wallets /\ row[NextToLock(t)] \in {NoTx, t}
        BY <2>3, <3>1, NextToLockIsLeast DEF LockNext, FreeToLock, Inv
    <3>3. /\ UNCHANGED <<led, prog, todo, delta, mine, held>>
          /\ \A u \in Txs \ {t} : pc'[u] = pc[u]
          /\ pc[t] = "lock_wallets" /\ pc'[t] \in {"lock_wallet", "lock_wallets"}
        BY <2>3 DEF LockNext, Inv, TypeOK
    <3>4. \A u \in Txs, w \in Wallets : row[w] = u => row'[w] = u
        BY <2>3, <3>2, NoTxAssumption DEF LockNext, Inv, TypeOK
    <3> QED
        BY <1>1, <3>3, <3>4, QuietReplay
  <2>4. CASE LockRow(t)
    <3>1. CurrentWallet(t) \in Wallets /\ row[CurrentWallet(t)] \in {NoTx, t}
        BY <2>4, CurrentType DEF LockRow, FreeToLock, Inv, StatementsInOrder, InOrder
    <3>2. /\ UNCHANGED <<led, prog, todo, delta, mine, held>>
          /\ \A u \in Txs \ {t} : pc'[u] = pc[u]
          /\ pc[t] = "lock_wallet" /\ pc'[t] = "hold"
        BY <2>4 DEF LockRow, Inv, TypeOK
    <3>3. \A u \in Txs, w \in Wallets : row[w] = u => row'[w] = u
        BY <2>4, <3>1, NoTxAssumption DEF LockRow, Inv, TypeOK
    <3> QED
        BY <1>1, <3>2, <3>3, QuietReplay
  <2>5. CASE CheckHold(t)
      BY <1>1, <2>5, CheckHoldReplay
  <2>6. CASE CheckBalance(t)
      BY <1>1, <2>6, CheckBalanceReplay
  <2>7. CASE Insert(t)
      BY <1>1, <2>7, InsertReplay
  <2>8. CASE Commit(t) \/ Abort(t) \/ DeadlockAbort(t)
      BY <1>1, <2>8, ReleaseReplay DEF Commit, Abort, DeadlockAbort, Rollback
  <2> QED
      BY <1>3, <2>1, <2>2, <2>3, <2>4, <2>5, <2>6, <2>7, <2>8 DEF Step
<1> QED
    BY <1>2, <1>3 DEF Next

\* The operators of the ledger are the same ones in the promise.
LEMMA SamePosting == \A l, es : Promise!PostAll(l, es) = PostAll(l, es)
BY DEF PostAll, FoldLeft, MapThenFoldSet, Max, PostStep, Admits, HoldPermits, Covers, Fresh,
       Posted, KeysOf, Promise!PostAll, Promise!FoldLeft, Promise!MapThenFoldSet, Promise!Max,
       Promise!PostStep, Promise!Admits, Promise!HoldPermits, Promise!Covers, Promise!Fresh,
       Promise!Posted, Promise!KeysOf

\* A commit is a transaction of the promise; nothing else is seen of it.
LEMMA CommitPosts ==
    ASSUME Inv, ReplayInv, NEW t \in Txs, Commit(t)
    PROVE  \E p \in Programs : Promise!PostProgram(p) \/ Promise!HoldInstead(p)
<1>1. Replays(t) /\ TypeOK /\ led' = View(t) /\ pc[t] = "commit"
    BY DEF Commit, ReplayInv, Inv
<1>2. /\ Applied(t) \in Seq(Entries) /\ prog[t].entries \in Seq(Entries) /\ todo[t] \in Seq(Entries)
      /\ led \in Ledgers /\ prog[t] \in Programs
    BY <1>1, AppliedType DEF Replays, TypeOK
<1>3. CASE todo[t] = <<>>
  <2>1. Applied(t) = prog[t].entries
    <3>1. Applied(t) \o <<>> = Applied(t)
        BY <1>2
    <3> QED
        BY <1>1, <1>3, <3>1 DEF Replays
  <2>2. held[t] = {}
      BY <1>1, <1>3 DEF Replays
  <2>3. [View(t) EXCEPT !.hold = led.hold] = View(t)
    <3>1. View(t).hold = led.hold
        BY <2>2 DEF View
    <3>2. View(t) \in Ledgers
        BY <1>1, ViewType
    <3> QED
        BY <3>1, <3>2 DEF Ledgers
  <2>4. PostAll(led, prog[t].entries) = [ok |-> TRUE, ledger |-> View(t)]
      BY <1>1, <2>1, <2>3 DEF Replays
  <2>5. Promise!PostProgram(prog[t])
      BY <1>1, <2>4, SamePosting DEF Promise!PostProgram
  <2> QED
      BY <1>2, <2>5
<1>4. CASE todo[t] # <<>>
  <2>1. /\ prog[t].orphans /\ held[t] = {CurrentWallet(t)} /\ ~ Covers(led, Current(t))
        /\ Len(prog[t].entries) = 1
      BY <1>1, <1>2, <1>4, ProgramAssumption DEF Replays
  <2>2. Applied(t) = <<>> /\ Current(t) = prog[t].entries[1]
    <3>1. Len(todo[t]) \in Nat /\ Len(todo[t]) > 0 /\ Len(Applied(t)) \in Nat
        BY <1>2, <1>4
    <3>2. Applied(t) \o todo[t] = prog[t].entries
        BY <1>1 DEF Replays
    <3>3. Len(Applied(t)) + Len(todo[t]) = 1
        BY <1>2, <2>1, <3>2
    <3>4. Len(Applied(t)) = 0
        BY <3>1, <3>3
    <3>5. Applied(t) = <<>>
        BY <1>2, <3>4
    <3>6. <<>> \o todo[t] = todo[t]
        BY <1>2
    <3> QED
        BY <1>2, <1>4, <3>2, <3>5, <3>6 DEF Current
  <2>3. PostAll(led, <<>>) = [ok |-> TRUE, ledger |-> led]
      BY <1>2, PostAllNone DEF Start
  <2>4. [View(t) EXCEPT !.hold = led.hold] = led
      BY <1>1, <2>2, <2>3 DEF Replays
  <2>5. View(t) = [led EXCEPT !.hold = @ \cup {CurrentWallet(t)}]
    <3>1. View(t) \in Ledgers
        BY <1>1, ViewType
    <3>2. View(t).balance = led.balance /\ View(t).keys = led.keys
        BY <1>2, <2>4, <3>1 DEF Ledgers
    <3>3. View(t).hold = led.hold \cup {CurrentWallet(t)}
        BY <2>1 DEF View
    <3> QED
        BY <1>2, <3>1, <3>2, <3>3 DEF Ledgers
  <2>6. Promise!HoldInstead(prog[t])
      BY <1>1, <2>1, <2>2, <2>5 DEF Promise!HoldInstead, Promise!Covers, Covers, CurrentWallet
  <2> QED
      BY <1>2, <2>6
<1> QED
    BY <1>3, <1>4

(***************************************************************************)
(* The operations of crates/db see one another only as whole transactions: *)
(* whatever the statements of apply_ledger_entry on many connections       *)
(* interleave to, with rollbacks, deadlocks and lost connections, the      *)
(* committed ledger changes only by all the entries of one operation,      *)
(* posted to what the transactions before it left, or by the hold that     *)
(* stands for a reversal of spent value.                                   *)
(***************************************************************************)
THEOREM LedgerTxImplementsPromise == Spec => ImplementsPromise
<1>1. Init => Promise!Init
    BY DEF Init, Promise!Init
<1>2. Inv /\ OrderInv /\ ReplayInv /\ [Next]_vars => [Promise!Next]_led
  <2> SUFFICES ASSUME Inv, ReplayInv, [Next]_vars, led' # led
               PROVE  Promise!Next
      OBVIOUS
  <2>1. PICK t \in Txs : Commit(t)
      BY DEF Next, Step, vars, Begin, InsertReference, LockNext, LockRow, CheckHold, CheckBalance,
             Insert, Proceed, Rollback, Abort, DeadlockAbort
  <2> QED
      BY <2>1, CommitPosts DEF Promise!Next
<1>3. Init => ReplayInv
    BY DEF Init, ReplayInv
<1>4. Spec => [](Inv /\ OrderInv /\ ReplayInv)
    BY <1>3, NextReplay, SpecOrder, PTL DEF Spec
<1> QED
    BY <1>1, <1>2, <1>4, PTL DEF Spec, ImplementsPromise, Promise!Spec
=============================================================================
