---------------------------- MODULE DeliveryProofs ----------------------------
(***************************************************************************)
(* Proofs about what is told to others, Invoices and Outbox, for any       *)
(* invoices, coins, watchers and deliveries, events, relays and size of a  *)
(* batch.                                                                  *)
(*                                                                         *)
(* An invoice is credited once, in one coin, and by a watcher only for     *)
(* what arrived; its status and coin move as documented.  An event that is *)
(* marked was sent, no row is in two hands, and the events of an aggregate *)
(* reach their consumer in order unless one was skipped.                   *)
(***************************************************************************)
EXTENDS Invoices, Outbox, LedgerLemmas

-------------------------------------------------------------------------------
(***************************************************************************)
(* Invoices.                                                               *)
(***************************************************************************)
Scanning == [at : {"listed", "scan", "lock", "point", "detect", "confirm", "dispatch"},
             inv : Invoices, coin : Coins, left : Seq(Coins), full : BOOLEAN]
Posting == [stage : {"post", "record", "schedule"}, inv : Invoices, status : InvoiceStatuses,
            attempt : Int, ok : BOOLEAN]

Shapes ==
    /\ addrs \in [Invoices -> Seq(Coins)]
    /\ chain \in [Invoices -> [Coins -> [seen : Nat, deep : Nat]]]
    /\ tick \in [Watchers -> {NotScanning} \cup Scanning]
    /\ posts \in [1..MaxPosts -> {NoPost} \cup Posting]

\* Before an order there is nothing; after, a coin, and a payer at the end.
Rows ==
    \A i \in Invoices :
        /\ inv[i].status = "NONE" => ~ inv[i].locked /\ opening[i] = NoCoin /\ i \notin shown
        /\ inv[i].status # "NONE" => inv[i].coin \in Coins
        /\ inv[i].by # "nobody" <=> inv[i].status = "CONFIRMED"

\* The selected coin has its address, or is about to have it.
Watched ==
    invFaults = 0 =>
        \A i \in Invoices : inv[i].status # "NONE" =>
            inv[i].coin = opening[i] \/ Contains(addrs[i], inv[i].coin)

PaidInFull(i) == \E c \in Coins : chain[i][c].deep >= Price[c]

\* A watcher that has found something at an address of an invoice.
Found == {"lock", "point", "detect", "confirm"}

ScanFits(w) ==
    LET i == tick[w].inv IN
    tick[w] # NotScanning =>
        /\ inv[i].status # "NONE"
        /\ \A n \in 1..Len(tick[w].left) : Contains(addrs[i], tick[w].left[n])
        /\ tick[w].at \in Found => tick[w].left # <<>> /\ chain[i][Paid(w)].seen > 0
        /\ tick[w].at = "confirm" => tick[w].full
        /\ tick[w].full => PaidInFull(i)

Scans == \A w \in Watchers : ScanFits(w)

\* The inductive invariant.
InvoicesIInv ==
    InvoicesTypeOK /\ Shapes /\ CreditedOnce /\ ConfirmedWasPaid /\ Rows /\ Watched /\ Scans

-------------------------------------------------------------------------------
(* Facts about entries, addresses and records.                             *)

\* A merchant's share is an amount.
LEMMA NetIsInt ==
    ASSUME NEW a \in Nat, FeeBps \in Nat PROVE Net(a) \in Int
<1>1. a * FeeBps \in Nat
    OBVIOUS
<1> HIDE DEF Net
<1> DEFINE m == a * FeeBps
<1>2. m \div 10000 \in Int
    BY <1>1
<1> QED
    BY <1>2 DEF Net

\* The two entries of an invoice in a coin.
LEMMA EntryTypes ==
    ASSUME InvoicesAssumption, NEW i \in Invoices, NEW c \in Coins
    PROVE  /\ Income(i, c) \in Entries /\ Checkout(i, c) \in Entries
           /\ KeysOf(Income(i, c)) = {<<MerchantWallet[c], "MERCHANT_DEPOSIT", i>>}
           /\ KeysOf(Checkout(i, c)) = {<<PayerWallet[c], "MERCHANT_CHECKOUT", i>>}
<1>1. /\ i \in Refs /\ i # NoRef
      /\ MerchantWallet[c] \in Wallets /\ PayerWallet[c] \in Wallets
      /\ Price[c] \in Nat /\ FeeBps \in Nat
      /\ "MERCHANT_CHECKOUT" \in Types /\ "MERCHANT_DEPOSIT" \in Types
    BY RefAssumption DEF InvoicesAssumption
<1>2. Net(Price[c]) \in Int /\ -Price[c] \in Int
    BY <1>1, NetIsInt
<1> QED
    BY <1>1, <1>2 DEF Income, Checkout, Entry, Entries, KeysOf

\* What is appended is in the sequence, and what was stays.
LEMMA AddressAdded ==
    ASSUME NEW s \in Seq(Coins), NEW c \in Coins, IsInjective(s), ~ Contains(s, c)
    PROVE  /\ Append(s, c) \in Seq(Coins) /\ IsInjective(Append(s, c))
           /\ Contains(Append(s, c), c)
           /\ \A d : Contains(s, d) => Contains(Append(s, c), d)
<1> DEFINE q == Append(s, c)
<1>1. /\ q \in Seq(Coins) /\ Len(q) = Len(s) + 1 /\ Len(s) \in Nat
      /\ q[Len(s) + 1] = c /\ \A n \in 1..Len(s) : q[n] = s[n]
    OBVIOUS
<1>2. \A n \in 1..Len(s) : s[n] # c
    BY DEF Contains
<1>3. DOMAIN s = 1..Len(s) /\ DOMAIN q = 1..(Len(s) + 1)
    BY <1>1
<1> HIDE DEF q
<1>4. ASSUME NEW a \in DOMAIN q, NEW b \in DOMAIN q, q[a] = q[b] PROVE a = b
    <2>1. (a \in 1..Len(s) \/ a = Len(s) + 1) /\ (b \in 1..Len(s) \/ b = Len(s) + 1)
        BY <1>1, <1>3
    <2> QED
        BY <1>1, <1>2, <1>3, <1>4, <2>1 DEF IsInjective
<1>5. IsInjective(q)
    BY <1>4 DEF IsInjective
<1>6. Contains(q, c)
    BY <1>1 DEF Contains
<1>7. ASSUME NEW d, Contains(s, d) PROVE Contains(q, d)
    <2>1. PICK n \in 1..Len(s) : s[n] = d
        BY <1>7 DEF Contains
    <2>2. n \in 1..Len(q) /\ q[n] = d
        BY <1>1, <2>1
    <2> QED
        BY <2>2 DEF Contains
<1> QED
    BY <1>1, <1>5, <1>6, <1>7 DEF q

\* The sequences of addresses are as InvoicesTypeOK says.
LEMMA RangeOfCoins ==
    ASSUME NEW s \in Seq(Coins) PROVE Range(s) \subseteq Coins
BY DEF Range

\* A watcher that is not idle is in a scan.
LEMMA ScanShape ==
    ASSUME Shapes, NEW w \in Watchers, tick[w].at # "idle"
    PROVE  /\ tick[w] \in Scanning /\ tick[w] # NotScanning
           /\ tick[w].inv \in Invoices /\ tick[w].coin \in Coins
           /\ tick[w].left \in Seq(Coins) /\ tick[w].full \in BOOLEAN
<1>1. tick[w] # NotScanning
    BY DEF NotScanning
<1>2. tick[w] \in Scanning
    BY <1>1 DEF Shapes
<1> QED
    BY <1>1, <1>2 DEF Scanning

-------------------------------------------------------------------------------
(* What the invariant asks of a step.                                      *)

RowType == [status : InvoiceStatuses, coin : Coins \cup {NoCoin}, locked : BOOLEAN,
            due : BOOLEAN, by : {"nobody", "chain", "balance"}, told : BOOLEAN,
            tries : 0..MaxWebhooks, retry : BOOLEAN]

\* Orders, addresses and what was received stay.
WorldGrows ==
    /\ \A i \in Invoices : inv[i].status # "NONE" => inv'[i].status # "NONE"
    /\ \A i \in Invoices : \A d : Contains(addrs[i], d) => Contains(addrs'[i], d)
    /\ \A i \in Invoices, c \in Coins :
          chain[i][c].seen <= chain'[i][c].seen /\ chain[i][c].deep <= chain'[i][c].deep

\* What the rows tell of status, coin and payer stays.
SameRows == \A i \in Invoices : /\ inv'[i].status = inv[i].status
                                /\ inv'[i].coin = inv[i].coin
                                /\ inv'[i].by = inv[i].by

\* What a watcher knows goes on to hold.
LEMMA FitsKept ==
    ASSUME InvoicesAssumption, Shapes, Shapes', WorldGrows,
           NEW w \in Watchers, tick'[w] = tick[w], ScanFits(w)
    PROVE  ScanFits(w)'
<1> SUFFICES ASSUME tick[w] # NotScanning PROVE ScanFits(w)'
    BY DEF ScanFits
<1> DEFINE i == tick[w].inv
<1>1. i \in Invoices /\ tick[w].left \in Seq(Coins)
    BY DEF Shapes, Scanning
<1>2. inv'[i].status # "NONE" /\ \A n \in 1..Len(tick[w].left) : Contains(addrs'[i], tick[w].left[n])
    BY <1>1 DEF ScanFits, WorldGrows
<1>3. ASSUME tick[w].at \in Found PROVE tick[w].left # <<>> /\ chain'[i][Head(tick[w].left)].seen > 0
    <2>1. tick[w].left # <<>> /\ chain[i][Head(tick[w].left)].seen > 0
        BY <1>3 DEF ScanFits, Paid
    <2>2. Head(tick[w].left) \in Coins
        BY <1>1, <2>1
    <2>3. \A c \in Coins : /\ chain[i][c].seen <= chain'[i][c].seen
                           /\ chain[i][c].seen \in Nat /\ chain'[i][c].seen \in Nat
        BY <1>1 DEF WorldGrows, Shapes
    <2> PICK h : h = Head(tick[w].left)
        OBVIOUS
    <2>4. h \in Coins /\ chain[i][h].seen > 0
        BY <2>1, <2>2
    <2>5. chain'[i][h].seen > 0
        BY <2>3, <2>4
    <2> QED
        BY <2>1, <2>5
<1>4. ASSUME tick[w].full PROVE \E c \in Coins : chain'[i][c].deep >= Price[c]
    <2>1. PICK c \in Coins : chain[i][c].deep >= Price[c]
        BY <1>4 DEF ScanFits, PaidInFull
    <2>2. /\ chain[i][c].deep <= chain'[i][c].deep /\ Price[c] \in Nat
          /\ chain[i][c].deep \in Nat /\ chain'[i][c].deep \in Nat
        BY <1>1 DEF WorldGrows, Shapes, InvoicesAssumption
    <2> QED
        BY <2>1, <2>2
<1> QED
    BY <1>1, <1>2, <1>3, <1>4 DEF ScanFits, PaidInFull, Paid

\* What a row that was confirmed for a payment tells goes on to hold.
LEMMA PaidKept ==
    ASSUME InvoicesAssumption, Shapes, Shapes', WorldGrows, NEW i \in Invoices, PaidInFull(i)
    PROVE  PaidInFull(i)'
<1>1. PICK c \in Coins : chain[i][c].deep >= Price[c]
    BY DEF PaidInFull
<1>2. /\ chain[i][c].deep <= chain'[i][c].deep /\ Price[c] \in Nat
      /\ chain[i][c].deep \in Nat /\ chain'[i][c].deep \in Nat
    BY DEF WorldGrows, Shapes, InvoicesAssumption
<1> QED
    BY <1>1, <1>2 DEF PaidInFull

\* A step of one watcher, or of none.
LEMMA ScansKept ==
    ASSUME InvoicesAssumption, Shapes, Shapes', WorldGrows, Scans,
           tick' = tick \/ \E w \in Watchers : \E q : tick' = [tick EXCEPT ![w] = q] /\ ScanFits(w)'
    PROVE  Scans'
<1>1. CASE tick' = tick
    BY <1>1, FitsKept DEF Scans
<1>2. CASE \E w \in Watchers : \E q : tick' = [tick EXCEPT ![w] = q] /\ ScanFits(w)'
    <2>1. PICK w \in Watchers : \E q : tick' = [tick EXCEPT ![w] = q] /\ ScanFits(w)'
        BY <1>2
    <2>2. \A v \in Watchers \ {w} : tick'[v] = tick[v]
        BY <2>1 DEF Shapes
    <2> QED
        BY <2>1, <2>2, FitsKept DEF Scans
<1> QED
    BY <1>1, <1>2

\* What was paid stays as it is: no invoice is confirmed.
NoneIsPaid ==
    \A i \in Invoices : /\ inv'[i].by = inv[i].by
                        /\ inv'[i].status = "CONFIRMED" <=> inv[i].status = "CONFIRMED"
                        /\ inv[i].status = "CONFIRMED" => inv'[i].coin = inv[i].coin

\* What the invariant gives.
LEMMA InvoiceParts ==
    ASSUME InvoicesIInv
    PROVE  /\ led \in Ledgers /\ inv \in [Invoices -> RowType]
           /\ opening \in [Invoices -> Coins \cup {NoCoin}]
           /\ shown \subseteq Invoices /\ heard \subseteq Invoices
           /\ \A i \in Invoices : addrs[i] \in Seq(Coins) /\ IsInjective(addrs[i])
           /\ \A i \in Invoices, c \in Coins : 0 <= chain[i][c].deep /\ chain[i][c].deep <= chain[i][c].seen
           /\ invFaults \in 0..MaxInvoiceFaults
           /\ InvoicesTypeOK /\ Shapes /\ Rows /\ Watched /\ Scans /\ CreditedOnce /\ ConfirmedWasPaid
  BY DEF InvoicesIInv, InvoicesTypeOK, Shapes, RowType

\* The type invariant after a step, from its parts.
LEMMA TypesAfter ==
    ASSUME led' \in Ledgers, inv' \in [Invoices -> RowType],
           opening' \in [Invoices -> Coins \cup {NoCoin}],
           shown' \subseteq Invoices, heard' \subseteq Invoices,
           addrs' \in [Invoices -> Seq(Coins)], \A i \in Invoices : IsInjective(addrs'[i]),
           \A i \in Invoices, c \in Coins : 0 <= chain'[i][c].deep /\ chain'[i][c].deep <= chain'[i][c].seen,
           invFaults' \in 0..MaxInvoiceFaults
    PROVE  InvoicesTypeOK'
<1>1. \A i \in Invoices : Range(addrs'[i]) \subseteq Coins
  BY RangeOfCoins
<1> QED BY <1>1 DEF InvoicesTypeOK, RowType

\* A step that pays nothing.
LEMMA UnpaidStep ==
    ASSUME InvoicesAssumption, InvoicesIInv, InvoicesTypeOK', Shapes', WorldGrows, NoneIsPaid,
           UNCHANGED led, Rows', Watched',
           tick' = tick \/ \E w \in Watchers : \E q : tick' = [tick EXCEPT ![w] = q] /\ ScanFits(w)'
    PROVE  InvoicesIInv'
<1>1. Scans'
  BY InvoiceParts, ScansKept
<1>2. CreditedOnce'
  <2> SUFFICES ASSUME NEW i \in Invoices, NEW c \in Coins
               PROVE  /\ Recorded(MerchantWallet[c], "MERCHANT_DEPOSIT", i)
                            <=> inv'[i].status = "CONFIRMED" /\ inv'[i].coin = c
                      /\ Recorded(PayerWallet[c], "MERCHANT_CHECKOUT", i)
                            <=> inv'[i].by = "balance" /\ inv'[i].coin = c
    BY DEF CreditedOnce, Recorded
  <2>1. /\ inv[i].by # "nobody" <=> inv[i].status = "CONFIRMED"
        /\ inv'[i].by = inv[i].by
        /\ inv'[i].status = "CONFIRMED" <=> inv[i].status = "CONFIRMED"
        /\ inv[i].status = "CONFIRMED" => inv'[i].coin = inv[i].coin
    BY InvoiceParts DEF Rows, NoneIsPaid
  <2> QED BY <2>1, InvoiceParts DEF CreditedOnce
<1>3. ConfirmedWasPaid'
  BY PaidKept, InvoiceParts DEF ConfirmedWasPaid, NoneIsPaid, PaidInFull
<1> QED BY <1>1, <1>2, <1>3 DEF InvoicesIInv

\* A step that leaves status, coin and payer of every row.
LEMMA QuietStep ==
    ASSUME InvoicesAssumption, InvoicesIInv, InvoicesTypeOK', Shapes', WorldGrows, SameRows,
           UNCHANGED <<led, opening>>,
           \A i \in Invoices : inv[i].status = "NONE" => ~ inv'[i].locked,
           shown' \subseteq shown \cup {i \in Invoices : inv[i].status # "NONE"},
           invFaults' = 0 => invFaults = 0,
           tick' = tick \/ \E w \in Watchers : \E q : tick' = [tick EXCEPT ![w] = q] /\ ScanFits(w)'
    PROVE  InvoicesIInv'
<1>1. Rows'
  BY InvoiceParts DEF Rows, SameRows
<1>2. Watched'
  BY InvoiceParts DEF Watched, SameRows, WorldGrows
<1>3. NoneIsPaid
  BY DEF NoneIsPaid, SameRows
<1> QED BY <1>1, <1>2, <1>3, UnpaidStep

\* One row changes.
LEMMA RowChange ==
    ASSUME InvoicesIInv, NEW i \in Invoices, NEW row \in RowType, inv' = [inv EXCEPT ![i] = row]
    PROVE  /\ inv' \in [Invoices -> RowType] /\ inv'[i] = row
           /\ \A j \in Invoices \ {i} : inv'[j] = inv[j]
<1>1. inv \in [Invoices -> RowType]
  BY InvoiceParts
<1> QED BY <1>1

\* A step that leaves the chain, and no address or order out.
LEMMA WorldStays ==
    ASSUME InvoicesIInv, UNCHANGED chain,
           \A i \in Invoices : inv[i].status # "NONE" => inv'[i].status # "NONE",
           \A i \in Invoices : \A d : Contains(addrs[i], d) => Contains(addrs'[i], d)
    PROVE  WorldGrows
<1>1. \A i \in Invoices, c \in Coins : chain[i][c].seen \in Nat /\ chain[i][c].deep \in Nat
  BY InvoiceParts DEF Shapes
<1> QED BY <1>1 DEF WorldGrows

\* Any row of the table, and the values of its fields.
LEMMA RowFields ==
    ASSUME InvoicesIInv, NEW i \in Invoices
    PROVE  /\ inv[i] \in RowType
           /\ \A s \in InvoiceStatuses : [inv[i] EXCEPT !.status = s] \in RowType
           /\ \A c \in Coins : [inv[i] EXCEPT !.coin = c] \in RowType
           /\ \A s \in InvoiceStatuses, b \in {"nobody", "chain", "balance"} :
                 [inv[i] EXCEPT !.status = s, !.by = b] \in RowType
           /\ \A b \in BOOLEAN : /\ [inv[i] EXCEPT !.due = b] \in RowType
                                 /\ [inv[i] EXCEPT !.locked = b] \in RowType
                                 /\ [inv[i] EXCEPT !.retry = b] \in RowType
                                 /\ \A n \in 0..MaxWebhooks : [inv[i] EXCEPT !.told = b, !.tries = n] \in RowType
<1>1. inv[i] \in RowType
  BY InvoiceParts
<1> QED BY <1>1 DEF RowType

\* The rest of a row stays.
LEMMA RowKeeps ==
    ASSUME NEW r \in RowType, NEW b
    PROVE  /\ /\ [r EXCEPT !.due = b].status = r.status /\ [r EXCEPT !.due = b].coin = r.coin
              /\ [r EXCEPT !.due = b].by = r.by /\ [r EXCEPT !.due = b].locked = r.locked
           /\ /\ [r EXCEPT !.retry = b].status = r.status /\ [r EXCEPT !.retry = b].coin = r.coin
              /\ [r EXCEPT !.retry = b].by = r.by /\ [r EXCEPT !.retry = b].locked = r.locked
           /\ /\ [r EXCEPT !.locked = b].status = r.status /\ [r EXCEPT !.locked = b].coin = r.coin
              /\ [r EXCEPT !.locked = b].by = r.by /\ [r EXCEPT !.locked = b].locked = b
           /\ /\ [r EXCEPT !.status = b].status = b /\ [r EXCEPT !.status = b].coin = r.coin
              /\ [r EXCEPT !.status = b].by = r.by /\ [r EXCEPT !.status = b].locked = r.locked
           /\ /\ [r EXCEPT !.coin = b].status = r.status /\ [r EXCEPT !.coin = b].coin = b
              /\ [r EXCEPT !.coin = b].by = r.by /\ [r EXCEPT !.coin = b].locked = r.locked
  BY DEF RowType

\* A row that is confirmed, or told of once more.
LEMMA RowConfirmed ==
    ASSUME NEW r \in RowType, NEW s, NEW b
    PROVE  /\ [r EXCEPT !.status = s, !.by = b].status = s /\ [r EXCEPT !.status = s, !.by = b].coin = r.coin
           /\ [r EXCEPT !.status = s, !.by = b].by = b /\ [r EXCEPT !.status = s, !.by = b].locked = r.locked
           /\ [r EXCEPT !.told = s, !.tries = b].status = r.status /\ [r EXCEPT !.told = s, !.tries = b].coin = r.coin
           /\ [r EXCEPT !.told = s, !.tries = b].by = r.by /\ [r EXCEPT !.told = s, !.tries = b].locked = r.locked
  BY DEF RowType

-------------------------------------------------------------------------------
(* The initial state, the merchant and the customer.                       *)

\* Before the first order.
LEMMA InvoicesInitInv ==
    ASSUME InvoicesAssumption, InvoicesInit PROVE InvoicesIInv
<1> USE DEF InvoicesInit, NoOrders
<1>1. led \in Ledgers
  BY DEF Ledgers, InvoicesAssumption
<1>2. NoRow \in RowType
  BY DEF NoRow, RowType, InvoiceStatuses, InvoicesAssumption
<1>3. inv \in [Invoices -> RowType]
  BY <1>2
<1>4. \A i \in Invoices : addrs[i] = <<>> /\ <<>> \in Seq(Coins)
  OBVIOUS
<1>5. \A i \in Invoices : addrs[i] \in Seq(Coins) /\ Range(addrs[i]) \subseteq Coins
  <2>1. \A s \in Seq(Coins) : Range(s) \subseteq Coins
    BY RangeOfCoins
  <2> QED BY <1>4, <2>1, Zenon
<1>6. \A i \in Invoices : IsInjective(addrs[i])
  <2>1. IsInjective(<<>>)
    BY DEF IsInjective
  <2> QED BY <1>4, <2>1, Zenon
<1>7. InvoicesTypeOK
  <2>1. invFaults \in 0..MaxInvoiceFaults
    BY DEF InvoicesAssumption
  <2>2. \A i \in Invoices, c \in Coins : 0 <= chain[i][c].deep /\ chain[i][c].deep <= chain[i][c].seen
    OBVIOUS
  <2>3. opening \in [Invoices -> Coins \cup {NoCoin}] /\ shown \subseteq Invoices /\ heard \subseteq Invoices
    OBVIOUS
  <2> QED BY <1>1, <1>3, <1>5, <1>6, <2>1, <2>2, <2>3 DEF InvoicesTypeOK, RowType
<1>8. Shapes
  BY DEF Shapes
<1>9. CreditedOnce /\ ConfirmedWasPaid
  BY DEF CreditedOnce, ConfirmedWasPaid, Recorded, NoRow
<1>10. Rows /\ Watched /\ Scans
  BY DEF Rows, Watched, Scans, ScanFits, NoRow, NotScanning
<1> QED BY <1>7, <1>8, <1>9, <1>10 DEF InvoicesIInv

\* The same order again, and time.
LEMMA ReplayInv ==
    ASSUME InvoicesAssumption, InvoicesIInv, NEW i \in Invoices, ReplayInvoice(i) \/ FallDue(i)
    PROVE  InvoicesIInv'
<1>1. /\ UNCHANGED <<led, opening, addrs, chain, tick, posts, heard, invFaults>>
      /\ inv[i].status # "NONE" /\ shown' \subseteq shown \cup {i}
      /\ inv' = inv \/ inv' = [inv EXCEPT ![i] = [inv[i] EXCEPT !.due = TRUE]]
  BY InvoiceParts DEF ReplayInvoice, FallDue, Open
<1>2. inv' \in [Invoices -> RowType] /\ SameRows /\ \A j \in Invoices : inv'[j].locked = inv[j].locked
  <2>1. CASE inv' = inv
    BY <2>1, InvoiceParts DEF SameRows
  <2>2. CASE inv' = [inv EXCEPT ![i] = [inv[i] EXCEPT !.due = TRUE]]
    <3>1. /\ inv' \in [Invoices -> RowType] /\ inv'[i] = [inv[i] EXCEPT !.due = TRUE]
          /\ \A j \in Invoices \ {i} : inv'[j] = inv[j]
      BY <2>2, RowFields, RowChange
    <3>2. /\ inv'[i].status = inv[i].status /\ inv'[i].coin = inv[i].coin /\ inv'[i].by = inv[i].by
          /\ inv'[i].locked = inv[i].locked
      <4> DEFINE q == [inv[i] EXCEPT !.due = TRUE]
      <4>1. q.status = inv[i].status /\ q.coin = inv[i].coin /\ q.by = inv[i].by /\ q.locked = inv[i].locked
        <5>1. inv[i] \in RowType
          BY RowFields
        <5> HIDE DEF RowType
        <5> QED BY <5>1, RowKeeps
      <4>2. inv'[i] = q
        BY <3>1
      <4> HIDE DEF q
      <4> QED BY <4>1, <4>2
    <3> QED BY <3>1, <3>2 DEF SameRows
  <2> QED BY <1>1, <2>1, <2>2
<1>3. Shapes' /\ InvoicesTypeOK'
  <2>1. addrs \in [Invoices -> Seq(Coins)] /\ Shapes'
    BY <1>1, InvoiceParts DEF Shapes
  <2> QED BY <1>1, <1>2, <2>1, InvoiceParts, TypesAfter
<1>4. WorldGrows
  BY <1>1, <1>2, InvoiceParts DEF WorldGrows, SameRows, Shapes
<1> QED BY <1>1, <1>2, <1>3, <1>4, InvoiceParts, QuietStep DEF Rows

\* A payment arrives, or gets deep.
LEMMA ChainInv ==
    ASSUME InvoicesAssumption, InvoicesIInv, NEW i \in Invoices, NEW c \in Coins,
           Bury(i, c) \/ \E n \in Payments : Receive(i, c, n)
    PROVE  InvoicesIInv'
<1> DEFINE Got == [seen : Nat, deep : Nat]
<1>1. UNCHANGED <<led, inv, opening, shown, addrs, tick, posts, heard, invFaults>>
  BY DEF Bury, Receive
<1>2. /\ chain \in [Invoices -> [Coins -> Got]] /\ chain[i] \in [Coins -> Got]
      /\ chain[i][c] \in Got /\ chain[i][c].deep <= chain[i][c].seen
  BY InvoiceParts DEF Shapes
<1> DEFINE More(got) ==
              /\ chain' = [chain EXCEPT ![i] = [chain[i] EXCEPT ![c] = got]]
              /\ chain[i][c].seen <= got.seen /\ chain[i][c].deep <= got.deep /\ got.deep <= got.seen
<1>3. \E got \in Got : More(got)
  <2>1. CASE Bury(i, c)
    <3> DEFINE g == [chain[i][c] EXCEPT !.deep = chain[i][c].seen]
    <3>1. g \in Got /\ g.seen = chain[i][c].seen /\ g.deep = chain[i][c].seen
      BY <1>2
    <3>2. chain' = [chain EXCEPT ![i] = [chain[i] EXCEPT ![c] = g]]
      BY <1>2, <2>1 DEF Bury
    <3>3. chain[i][c].seen <= g.seen /\ chain[i][c].deep <= g.deep /\ g.deep <= g.seen
      BY <1>2, <3>1
    <3>4. More(g) /\ g \in Got
      BY <3>1, <3>2, <3>3, Zenon
    <3> HIDE DEF More, g, Got
    <3> QED BY <3>4
  <2>2. ASSUME NEW n \in Payments, Receive(i, c, n)
        PROVE  \E got \in Got : More(got)
    <3> DEFINE g == [chain[i][c] EXCEPT !.seen = @ + n]
    <3>1. n \in Nat
      BY DEF InvoicesAssumption
    <3>2. g \in Got /\ g.seen = chain[i][c].seen + n /\ g.deep = chain[i][c].deep
      BY <1>2, <3>1
    <3>3. chain' = [chain EXCEPT ![i] = [chain[i] EXCEPT ![c] = g]]
      BY <1>2, <2>2 DEF Receive
    <3>4. chain[i][c].seen <= g.seen /\ chain[i][c].deep <= g.deep /\ g.deep <= g.seen
      BY <1>2, <3>1, <3>2
    <3>5. More(g) /\ g \in Got
      BY <3>2, <3>3, <3>4, Zenon
    <3> HIDE DEF More, g, Got
    <3> QED BY <3>5
  <2> HIDE DEF More
  <2> QED BY <2>1, <2>2
<1> PICK got \in Got : More(got)
  BY <1>3
<1>4. /\ chain' \in [Invoices -> [Coins -> Got]] /\ chain'[i][c] = got
      /\ \A j \in Invoices, b \in Coins : j # i \/ b # c => chain'[j][b] = chain[j][b]
  <2>1. [chain[i] EXCEPT ![c] = got] \in [Coins -> Got]
    BY <1>2
  <2> HIDE DEF Got
  <2> QED BY <1>2, <2>1
<1>5. WorldGrows
  BY <1>1, <1>2, <1>4 DEF WorldGrows
<1>6. \A j \in Invoices, b \in Coins : 0 <= chain'[j][b].deep /\ chain'[j][b].deep <= chain'[j][b].seen
  BY <1>4, InvoiceParts
<1>7. Shapes' /\ addrs \in [Invoices -> Seq(Coins)]
  BY <1>1, <1>4, InvoiceParts DEF Shapes
<1>8. InvoicesTypeOK'
  BY <1>1, <1>6, <1>7, InvoiceParts, TypesAfter
<1>9. SameRows
  BY <1>1 DEF SameRows
<1> QED BY <1>1, <1>5, <1>7, <1>8, <1>9, InvoiceParts, QuietStep DEF Rows

\* An order: a row that waits for its address.
LEMMA InsertInv ==
    ASSUME InvoicesAssumption, InvoicesIInv, NEW i \in Invoices, InsertInvoice(i) PROVE InvoicesIInv'
<1>1. /\ inv[i].status = "NONE"
      /\ UNCHANGED <<led, shown, addrs, chain, tick, posts, heard, invFaults>>
  BY DEF InsertInvoice
<1>2. PICK c \in FirstCoins : inv' = [inv EXCEPT ![i] = Opened(c)] /\ opening' = [opening EXCEPT ![i] = c]
  BY DEF InsertInvoice
<1>3. c \in Coins
  BY DEF InvoicesAssumption
<1>4. /\ Opened(c) \in RowType /\ Opened(c).status = "PENDING"
      /\ Opened(c).coin = c /\ Opened(c).by = "nobody"
  <2>1. (Cardinality(Coins) = 1) \in BOOLEAN
    OBVIOUS
  <2>2. 0 \in 0..MaxWebhooks
    BY DEF InvoicesAssumption
  <2> QED BY <1>3, <2>1, <2>2 DEF Opened, NoRow, RowType, InvoiceStatuses, Open
<1>5. /\ inv' \in [Invoices -> RowType] /\ inv'[i] = Opened(c)
      /\ \A j \in Invoices \ {i} : inv'[j] = inv[j]
  BY <1>2, <1>4, RowChange
<1>6. /\ opening' \in [Invoices -> Coins \cup {NoCoin}] /\ opening'[i] = c
      /\ \A j \in Invoices \ {i} : opening'[j] = opening[j]
  BY <1>2, <1>3, InvoiceParts
<1>7. /\ inv[i].by = "nobody"
      /\ \A j \in Invoices : /\ inv[j].by \in {"nobody", "chain", "balance"}
                             /\ inv[j].status = "NONE" => ~ inv[j].locked /\ opening[j] = NoCoin /\ j \notin shown
                             /\ inv[j].status # "NONE" => inv[j].coin \in Coins
                             /\ inv[j].by # "nobody" <=> inv[j].status = "CONFIRMED"
  BY <1>1, InvoiceParts DEF Rows, RowType
<1>8. Rows'
  BY <1>1, <1>3, <1>4, <1>5, <1>6, <1>7 DEF Rows
<1>9. Watched'
  BY <1>1, <1>4, <1>5, <1>6, InvoiceParts DEF Watched
<1>10. NoneIsPaid
  BY <1>1, <1>4, <1>5, <1>7 DEF NoneIsPaid
<1>11. Shapes' /\ addrs \in [Invoices -> Seq(Coins)]
  BY <1>1, InvoiceParts DEF Shapes
<1>12. InvoicesTypeOK'
  BY <1>1, <1>5, <1>6, <1>11, InvoiceParts, TypesAfter
<1>13. WorldGrows
  <2>1. \A j \in Invoices : inv[j].status # "NONE" => inv'[j].status # "NONE"
    BY <1>1, <1>5
  <2> QED BY <1>1, <2>1, WorldStays
<1> QED BY <1>1, <1>8, <1>9, <1>10, <1>11, <1>12, <1>13, UnpaidStep

\* Its address is there, or never will be.
LEMMA RegisterInv ==
    ASSUME InvoicesAssumption, InvoicesIInv, NEW i \in Invoices, RegisterAddress(i) \/ RequestStops(i)
    PROVE  InvoicesIInv'
<1>1. /\ opening[i] # NoCoin /\ opening' = [opening EXCEPT ![i] = NoCoin]
      /\ UNCHANGED <<led, inv, chain, tick, posts, heard>>
      /\ \/ addrs' = [addrs EXCEPT ![i] = WithAddress(@, opening[i])] /\ invFaults' = invFaults
         \/ addrs' = addrs /\ invFaults < MaxInvoiceFaults /\ invFaults' = invFaults + 1
      /\ shown' \in {shown, shown \cup {i}}
  BY DEF RegisterAddress, RequestStops, InvoiceFault
<1>2. opening[i] \in Coins /\ inv[i].status # "NONE" /\ inv[i].coin \in Coins
  BY <1>1, InvoiceParts DEF Rows
<1>3. /\ opening' \in [Invoices -> Coins \cup {NoCoin}] /\ opening'[i] = NoCoin
      /\ \A j \in Invoices \ {i} : opening'[j] = opening[j]
  BY <1>1, InvoiceParts
<1>4. /\ addrs' \in [Invoices -> Seq(Coins)] /\ \A j \in Invoices : IsInjective(addrs'[j])
      /\ \A j \in Invoices : \A d : Contains(addrs[j], d) => Contains(addrs'[j], d)
      /\ invFaults' = invFaults => Contains(addrs'[i], opening[i])
  <2>1. CASE addrs' = addrs /\ invFaults' = invFaults + 1
    <3>1. invFaults' # invFaults
      BY <2>1, InvoiceParts
    <3> QED BY <2>1, <3>1, InvoiceParts DEF Shapes
  <2>2. CASE addrs' = [addrs EXCEPT ![i] = WithAddress(@, opening[i])]
    <3> DEFINE s == WithAddress(addrs[i], opening[i])
    <3>1. /\ s \in Seq(Coins) /\ IsInjective(s) /\ Contains(s, opening[i])
          /\ \A d : Contains(addrs[i], d) => Contains(s, d)
      BY <1>2, AddressAdded, InvoiceParts DEF WithAddress
    <3> HIDE DEF s
    <3>2. addrs' = [addrs EXCEPT ![i] = s]
      BY <2>2 DEF s
    <3>3. /\ addrs' \in [Invoices -> Seq(Coins)] /\ addrs'[i] = s
          /\ \A j \in Invoices \ {i} : addrs'[j] = addrs[j]
      BY <3>1, <3>2, InvoiceParts DEF Shapes
    <3> QED BY <3>1, <3>3, InvoiceParts
  <2> QED BY <1>1, <2>1, <2>2
<1>5. /\ shown' \subseteq Invoices /\ invFaults' \in 0..MaxInvoiceFaults
      /\ shown' \subseteq shown \cup {i}
      /\ invFaults' = 0 => invFaults = 0 /\ invFaults' = invFaults
  BY <1>1, InvoiceParts DEF InvoicesAssumption
<1>6. Rows'
  BY <1>1, <1>2, <1>3, <1>5, InvoiceParts DEF Rows
<1>7. Watched'
  <2> SUFFICES ASSUME invFaults' = 0, NEW j \in Invoices, inv[j].status # "NONE"
               PROVE  inv[j].coin = opening'[j] \/ Contains(addrs'[j], inv[j].coin)
    BY <1>1 DEF Watched
  <2>1. inv[j].coin = opening[j] \/ Contains(addrs[j], inv[j].coin)
    <3>1. Watched /\ invFaults = 0
      BY <1>5, InvoiceParts
    <3> QED BY <3>1 DEF Watched
  <2>2. Contains(addrs[j], inv[j].coin) => Contains(addrs'[j], inv[j].coin)
    BY <1>4
  <2>3. CASE j = i
    BY <1>4, <1>5, <2>1, <2>2, <2>3
  <2>4. CASE j # i
    BY <1>3, <2>1, <2>2, <2>4
  <2> QED BY <2>3, <2>4
<1>8. NoneIsPaid
  BY <1>1 DEF NoneIsPaid
<1>9. Shapes'
  BY <1>1, <1>4, InvoiceParts DEF Shapes
<1>10. InvoicesTypeOK'
  BY <1>1, <1>3, <1>4, <1>5, InvoiceParts, TypesAfter
<1>11. WorldGrows
  BY <1>1, <1>4, WorldStays
<1> QED BY <1>1, <1>6, <1>7, <1>8, <1>9, <1>10, <1>11, UnpaidStep

\* A coin is shown: its address is stored, if the watcher does not have it yet.
LEMMA ShowInv ==
    ASSUME InvoicesAssumption, InvoicesIInv, NEW i \in Invoices, NEW c \in Coins, ShowCoin(i, c)
    PROVE  InvoicesIInv'
<1>1. /\ ~ Contains(addrs[i], c) /\ addrs' = [addrs EXCEPT ![i] = Append(addrs[i], c)]
      /\ UNCHANGED <<led, inv, opening, shown, chain, tick, posts, heard, invFaults>>
  BY InvoiceParts DEF ShowCoin, Shapes
<1>2. PICK s : s = Append(addrs[i], c)
  OBVIOUS
<1>3. /\ s \in Seq(Coins) /\ IsInjective(s)
      /\ \A d : Contains(addrs[i], d) => Contains(s, d)
  BY <1>1, <1>2, AddressAdded, InvoiceParts
<1>4. /\ addrs' \in [Invoices -> Seq(Coins)] /\ addrs'[i] = s
      /\ \A j \in Invoices \ {i} : addrs'[j] = addrs[j]
  BY <1>1, <1>2, <1>3, InvoiceParts DEF Shapes
<1>5. /\ \A j \in Invoices : IsInjective(addrs'[j])
      /\ \A j \in Invoices : \A d : Contains(addrs[j], d) => Contains(addrs'[j], d)
  BY <1>3, <1>4, InvoiceParts
<1>6. WorldGrows
  BY <1>1, <1>5, WorldStays
<1>7. Shapes'
  BY <1>1, <1>4, InvoiceParts DEF Shapes
<1>8. InvoicesTypeOK'
  BY <1>1, <1>4, <1>5, InvoiceParts, TypesAfter
<1>9. SameRows
  BY <1>1 DEF SameRows
<1> QED BY <1>1, <1>6, <1>7, <1>8, <1>9, InvoiceParts, QuietStep DEF Rows

\* A step on rows that are not confirmed, and perhaps on scans.
LEMMA RowsStep ==
    ASSUME InvoicesAssumption, InvoicesIInv,
           UNCHANGED <<led, opening, shown, addrs, chain, posts, heard, invFaults>>,
           inv' \in [Invoices -> RowType], tick' \in [Watchers -> {NotScanning} \cup Scanning],
           NoneIsPaid,
           \A i \in Invoices : inv[i].status = "NONE" => inv'[i] = inv[i],
           \A i \in Invoices : inv[i].status # "NONE" =>
               /\ inv'[i].status # "NONE" /\ inv'[i].coin \in Coins
               /\ inv'[i].coin = inv[i].coin \/ Contains(addrs[i], inv'[i].coin),
           tick' = tick \/ \E w \in Watchers : \E q : tick' = [tick EXCEPT ![w] = q] /\ ScanFits(w)'
    PROVE  InvoicesIInv'
<1>1. Shapes'
  BY InvoiceParts DEF Shapes
<1>2. InvoicesTypeOK'
  <2>1. addrs \in [Invoices -> Seq(Coins)]
    BY InvoiceParts DEF Shapes
  <2> QED BY <2>1, InvoiceParts, TypesAfter
<1>3. Rows'
  <2> SUFFICES ASSUME NEW i \in Invoices
               PROVE  /\ inv'[i].status = "NONE" => ~ inv'[i].locked /\ opening[i] = NoCoin /\ i \notin shown
                      /\ inv'[i].status # "NONE" => inv'[i].coin \in Coins
                      /\ inv'[i].by # "nobody" <=> inv'[i].status = "CONFIRMED"
    BY DEF Rows
  <2>1. /\ inv[i].status = "NONE" => ~ inv[i].locked /\ opening[i] = NoCoin /\ i \notin shown
        /\ inv[i].by # "nobody" <=> inv[i].status = "CONFIRMED"
    BY InvoiceParts DEF Rows
  <2>2. /\ inv'[i].by = inv[i].by
        /\ inv'[i].status = "CONFIRMED" <=> inv[i].status = "CONFIRMED"
    BY DEF NoneIsPaid
  <2> QED BY <2>1, <2>2
<1>4. Watched'
  <2> SUFFICES ASSUME invFaults = 0, NEW i \in Invoices, inv'[i].status # "NONE"
               PROVE  inv'[i].coin = opening[i] \/ Contains(addrs[i], inv'[i].coin)
    BY DEF Watched
  <2>1. Watched /\ inv[i].status # "NONE"
    BY InvoiceParts
  <2>2. inv[i].coin = opening[i] \/ Contains(addrs[i], inv[i].coin)
    BY <2>1 DEF Watched
  <2> QED BY <2>1, <2>2
<1>5. WorldGrows
  BY WorldStays
<1> QED BY <1>1, <1>2, <1>3, <1>4, <1>5, UnpaidStep

\* The customer chooses a coin whose address is there.
LEMMA SelectInv ==
    ASSUME InvoicesAssumption, InvoicesIInv, NEW i \in Invoices, NEW c \in Coins, SelectCoin(i, c)
    PROVE  InvoicesIInv'
<1>1. /\ Contains(addrs[i], c) /\ inv[i].status = "PENDING"
      /\ inv' = [inv EXCEPT ![i] = [inv[i] EXCEPT !.coin = c]]
      /\ UNCHANGED <<led, opening, shown, addrs, chain, tick, posts, heard, invFaults>>
  BY InvoiceParts DEF SelectCoin, Selectable
<1>2. PICK row : row = [inv[i] EXCEPT !.coin = c]
  OBVIOUS
<1>3. row \in RowType /\ inv[i] \in RowType
  BY <1>2, RowFields
<1>4. row.status = inv[i].status /\ row.coin = c /\ row.by = inv[i].by
  <2> HIDE DEF RowType
  <2> QED BY <1>2, <1>3, RowKeeps
<1>5. /\ inv' \in [Invoices -> RowType] /\ inv'[i] = row
      /\ \A j \in Invoices \ {i} : inv'[j] = inv[j]
  BY <1>1, <1>2, <1>3, RowChange
<1>6. NoneIsPaid
  BY <1>1, <1>4, <1>5 DEF NoneIsPaid
<1>7. tick' \in [Watchers -> {NotScanning} \cup Scanning]
  BY <1>1, InvoiceParts DEF Shapes
<1>8. \A j \in Invoices : inv[j].status # "NONE" =>
          /\ inv'[j].status # "NONE" /\ inv'[j].coin \in Coins
          /\ inv'[j].coin = inv[j].coin \/ Contains(addrs[j], inv'[j].coin)
  BY <1>1, <1>4, <1>5, InvoiceParts DEF Rows
<1> QED BY <1>1, <1>5, <1>6, <1>7, <1>8, RowsStep

\* The sweep of what is overdue.
LEMMA ExpireInv ==
    ASSUME InvoicesAssumption, InvoicesIInv, ExpireDueInvoices PROVE InvoicesIInv'
<1>1. /\ inv' = [i \in Invoices |-> IF i \in Overdue THEN [inv[i] EXCEPT !.status = "EXPIRED"] ELSE inv[i]]
      /\ UNCHANGED <<led, opening, shown, addrs, chain, tick, posts, heard, invFaults>>
  BY DEF ExpireDueInvoices
<1>2. \A i \in Overdue : inv[i].status \in Open /\ i \in Invoices
  BY DEF Overdue
<1>3. ASSUME NEW i \in Invoices
      PROVE  /\ inv'[i] \in RowType /\ inv'[i].coin = inv[i].coin /\ inv'[i].by = inv[i].by
             /\ i \in Overdue => inv'[i].status = "EXPIRED"
             /\ i \notin Overdue => inv'[i] = inv[i]
  <2>1. PICK row : row = [inv[i] EXCEPT !.status = "EXPIRED"]
    OBVIOUS
  <2>2. row \in RowType /\ inv[i] \in RowType
    BY <2>1, RowFields DEF InvoiceStatuses
  <2>3. row.status = "EXPIRED" /\ row.coin = inv[i].coin /\ row.by = inv[i].by
    <3> HIDE DEF RowType
    <3> QED BY <2>1, <2>2, RowKeeps
  <2>4. inv'[i] = IF i \in Overdue THEN row ELSE inv[i]
    BY <1>1, <2>1
  <2> QED BY <2>2, <2>3, <2>4
<1>4. inv' \in [Invoices -> RowType]
  BY <1>1, <1>3
<1>5. NoneIsPaid
  BY <1>2, <1>3 DEF NoneIsPaid, Open
<1>6. tick' \in [Watchers -> {NotScanning} \cup Scanning]
  BY <1>1, InvoiceParts DEF Shapes
<1>7. \A i \in Invoices : inv[i].status = "NONE" => inv'[i] = inv[i]
  BY <1>2, <1>3 DEF Open
<1>8. \A i \in Invoices : inv[i].status # "NONE" =>
          /\ inv'[i].status # "NONE" /\ inv'[i].coin \in Coins
          /\ inv'[i].coin = inv[i].coin \/ Contains(addrs[i], inv'[i].coin)
  BY <1>3, InvoiceParts DEF Rows
<1> QED BY <1>1, <1>4, <1>5, <1>6, <1>7, <1>8, RowsStep

-------------------------------------------------------------------------------
(* The deliveries.                                                         *)

\* A delivery that starts takes a slot.
LEMMA Dispatched ==
    ASSUME InvoicesAssumption, Shapes, NEW i \in Invoices, NEW row \in RowType, Dispatching(i, row)
    PROVE  posts' \in [1..MaxPosts -> {NoPost} \cup Posting]
<1>1. PICK p \in DOMAIN posts :
          posts' = [posts EXCEPT ![p] = [stage |-> "post", inv |-> i, status |-> row.status,
                                         attempt |-> row.tries + 1, ok |-> FALSE]]
  BY DEF Dispatching
<1>2. row.status \in InvoiceStatuses /\ row.tries + 1 \in Int
  BY DEF RowType, InvoicesAssumption
<1> QED BY <1>1, <1>2 DEF Shapes, Posting

\* What is posted, and what the attempts leave on the row, is nothing to the money.
LEMMA DeliveryStepInv ==
    ASSUME InvoicesAssumption, InvoicesIInv,
           UNCHANGED <<led, opening, shown, addrs, chain>>,
           inv' \in [Invoices -> RowType], SameRows,
           \A i \in Invoices : inv'[i].locked = inv[i].locked,
           posts' \in [1..MaxPosts -> {NoPost} \cup Posting], heard' \subseteq Invoices,
           tick' \in [Watchers -> {NotScanning} \cup Scanning],
           invFaults' \in 0..MaxInvoiceFaults, invFaults' = 0 => invFaults = 0,
           tick' = tick \/ \E w \in Watchers : \E q : tick' = [tick EXCEPT ![w] = q] /\ ScanFits(w)'
    PROVE  InvoicesIInv'
<1>1. addrs \in [Invoices -> Seq(Coins)] /\ Shapes'
  BY InvoiceParts DEF Shapes
<1>2. InvoicesTypeOK'
  BY <1>1, InvoiceParts, TypesAfter
<1>3. WorldGrows
  BY WorldStays DEF SameRows
<1> QED BY <1>1, <1>2, <1>3, InvoiceParts, QuietStep DEF Rows

\* The webhook is posted.
LEMMA PostSignedInv ==
    ASSUME InvoicesAssumption, InvoicesIInv, NEW p \in DOMAIN posts, PostSigned(p) \/ DeliveryStops(p)
    PROVE  InvoicesIInv'
<1>1. posts[p] # NoPost
  <2>1. posts[p].stage = "post" \/ posts[p] # NoPost
    BY DEF PostSigned, DeliveryStops
  <2>2. NoPost.stage = "free"
    BY DEF NoPost
  <2> QED BY <2>1, <2>2
<1>2. /\ posts \in [1..MaxPosts -> {NoPost} \cup Posting] /\ p \in 1..MaxPosts /\ posts[p] \in Posting
      /\ posts[p].inv \in Invoices
  BY <1>1, InvoiceParts DEF Shapes, Posting
<1>3. UNCHANGED <<led, inv, opening, shown, addrs, chain, tick>>
  BY DEF PostSigned, DeliveryStops
<1>4. /\ posts' \in [1..MaxPosts -> {NoPost} \cup Posting] /\ heard' \subseteq Invoices
      /\ invFaults' \in 0..MaxInvoiceFaults
      /\ invFaults' = 0 => invFaults = 0
  <2>1. CASE DeliveryStops(p)
    BY <1>2, <2>1, InvoiceParts DEF DeliveryStops, InvoiceFault, InvoicesAssumption
  <2>2. CASE PostSigned(p)
    <3>1. PICK ok \in BOOLEAN :
              /\ posts' = [posts EXCEPT ![p].stage = "record", ![p].ok = ok]
              /\ heard' = IF ok /\ posts[p].status = "CONFIRMED" THEN heard \cup {posts[p].inv} ELSE heard
      BY <2>2 DEF PostSigned
    <3>2. PICK d : d = [posts[p] EXCEPT !.stage = "record", !.ok = ok]
      OBVIOUS
    <3>3. d \in Posting
      BY <1>2, <3>2 DEF Posting
    <3>4. posts' = [posts EXCEPT ![p] = d]
      BY <1>2, <3>1, <3>2
    <3>5. invFaults' = invFaults
      BY <2>2 DEF PostSigned
    <3> QED BY <1>2, <3>1, <3>3, <3>4, <3>5, InvoiceParts
  <2> QED BY <2>1, <2>2
<1>5. inv' \in [Invoices -> RowType] /\ SameRows /\ tick' \in [Watchers -> {NotScanning} \cup Scanning]
  BY <1>3, InvoiceParts DEF SameRows, Shapes
<1> QED BY <1>3, <1>4, <1>5, DeliveryStepInv

\* The outcome is recorded, and the next attempt scheduled.
LEMMA RecordInv ==
    ASSUME InvoicesAssumption, InvoicesIInv, NEW p \in DOMAIN posts,
           RecordWebhookDelivery(p) \/ ScheduleWebhookRetry(p)
    PROVE  InvoicesIInv'
<1> DEFINE i == posts[p].inv
<1>1. posts[p] # NoPost
  <2>1. posts[p].stage \in {"record", "schedule"}
    BY DEF RecordWebhookDelivery, ScheduleWebhookRetry
  <2>2. NoPost.stage = "free"
    BY DEF NoPost
  <2> QED BY <2>1, <2>2
<1>2. /\ posts \in [1..MaxPosts -> {NoPost} \cup Posting] /\ p \in 1..MaxPosts /\ posts[p] \in Posting
      /\ i \in Invoices /\ posts[p].ok \in BOOLEAN
  BY <1>1, InvoiceParts DEF Shapes, Posting
<1>3. UNCHANGED <<led, opening, shown, addrs, chain, tick, heard, invFaults>>
  BY DEF RecordWebhookDelivery, ScheduleWebhookRetry
<1>4. inv \in [Invoices -> RowType] /\ inv[i] \in RowType /\ inv[i].tries \in 0..MaxWebhooks
  BY <1>2, InvoiceParts DEF RowType
<1>5. /\ posts' \in [1..MaxPosts -> {NoPost} \cup Posting]
      /\ \E row \in RowType :
            /\ inv' = [inv EXCEPT ![i] = row]
            /\ row.status = inv[i].status /\ row.coin = inv[i].coin /\ row.by = inv[i].by
            /\ row.locked = inv[i].locked
  <2>1. CASE RecordWebhookDelivery(p)
    <3> DEFINE n == IF inv[i].tries < MaxWebhooks THEN inv[i].tries + 1 ELSE inv[i].tries
    <3>1. n \in 0..MaxWebhooks
      BY <1>4 DEF InvoicesAssumption
    <3>2. PICK row : row = [inv[i] EXCEPT !.told = posts[p].ok, !.tries = n]
      OBVIOUS
    <3>3. row \in RowType
      BY <1>2, <3>1, <3>2, RowFields
    <3>4. inv' = [inv EXCEPT ![i] = row]
      BY <1>2, <1>4, <2>1, <3>2 DEF RecordWebhookDelivery
    <3>5. /\ row.status = inv[i].status /\ row.coin = inv[i].coin /\ row.by = inv[i].by
          /\ row.locked = inv[i].locked
      <4> HIDE DEF n, i, RowType
      <4> QED BY <1>4, <3>2, RowConfirmed
    <3>6. PICK d : d = [posts[p] EXCEPT !.stage = "schedule"]
      OBVIOUS
    <3>7. d \in Posting
      BY <1>2, <3>6 DEF Posting
    <3>8. posts' = [posts EXCEPT ![p] = d]
      BY <1>2, <2>1, <3>6 DEF RecordWebhookDelivery
    <3>9. posts' \in [1..MaxPosts -> {NoPost} \cup Posting]
      BY <1>2, <3>7, <3>8
    <3> HIDE DEF RowType
    <3> QED BY <3>3, <3>4, <3>5, <3>9
  <2>2. CASE ScheduleWebhookRetry(p)
    <3>1. RetryAgain(posts[p]) \in BOOLEAN
      BY DEF RetryAgain
    <3>2. PICK row : row = [inv[i] EXCEPT !.retry = RetryAgain(posts[p])]
      OBVIOUS
    <3>3. row \in RowType
      BY <1>2, <3>1, <3>2, RowFields
    <3>4. inv' = [inv EXCEPT ![i] = row]
      BY <1>2, <1>4, <2>2, <3>2 DEF ScheduleWebhookRetry
    <3>5. /\ row.status = inv[i].status /\ row.coin = inv[i].coin /\ row.by = inv[i].by
          /\ row.locked = inv[i].locked
      <4> HIDE DEF i, RowType
      <4> QED BY <1>4, <3>2, RowKeeps
    <3>6. posts' \in [1..MaxPosts -> {NoPost} \cup Posting]
      BY <1>2, <2>2 DEF ScheduleWebhookRetry
    <3> HIDE DEF RowType
    <3> QED BY <3>3, <3>4, <3>5, <3>6
  <2> QED BY <2>1, <2>2
<1> PICK row \in RowType :
            /\ inv' = [inv EXCEPT ![i] = row]
            /\ row.status = inv[i].status /\ row.coin = inv[i].coin /\ row.by = inv[i].by
            /\ row.locked = inv[i].locked
  BY <1>5
<1>6. /\ inv' \in [Invoices -> RowType] /\ inv'[i] = row
      /\ \A j \in Invoices \ {i} : inv'[j] = inv[j]
  BY <1>2, RowChange
<1>7. SameRows /\ \A j \in Invoices : inv'[j].locked = inv[j].locked
  BY <1>6 DEF SameRows
<1>8. tick' \in [Watchers -> {NotScanning} \cup Scanning] /\ invFaults' \in 0..MaxInvoiceFaults /\ heard' \subseteq Invoices
  BY <1>3, InvoiceParts DEF Shapes
<1> QED BY <1>3, <1>5, <1>6, <1>7, <1>8, DeliveryStepInv

\* A retry, or a test, starts one more delivery.
LEMMA RedeliverInv ==
    ASSUME InvoicesAssumption, InvoicesIInv, NEW i \in Invoices, RedeliverWebhook(i) \/ TestWebhook(i)
    PROVE  InvoicesIInv'
<1>1. /\ Dispatching(i, inv[i]) /\ UNCHANGED <<led, inv, opening, shown, addrs, chain, tick, heard>>
      /\ \/ invFaults' = invFaults
         \/ invFaults < MaxInvoiceFaults /\ invFaults' = invFaults + 1
  BY DEF RedeliverWebhook, TestWebhook, InvoiceFault
<1>2. inv[i] \in RowType
  BY InvoiceParts
<1>3. posts' \in [1..MaxPosts -> {NoPost} \cup Posting]
  BY <1>1, <1>2, Dispatched, InvoiceParts
<1>4. invFaults' \in 0..MaxInvoiceFaults /\ (invFaults' = 0 => invFaults = 0)
  BY <1>1, InvoiceParts DEF InvoicesAssumption
<1>5. /\ inv' \in [Invoices -> RowType] /\ SameRows /\ tick' \in [Watchers -> {NotScanning} \cup Scanning]
      /\ heard' \subseteq Invoices
  BY <1>1, InvoiceParts DEF SameRows, Shapes
<1> QED BY <1>1, <1>3, <1>4, <1>5, DeliveryStepInv

-------------------------------------------------------------------------------
(* The watcher.                                                            *)

\* One scan changes.
LEMMA ScanChange ==
    ASSUME Shapes, NEW w \in Watchers, NEW q \in {NotScanning} \cup Scanning, tick' = [tick EXCEPT ![w] = q]
    PROVE  tick' \in [Watchers -> {NotScanning} \cup Scanning] /\ tick'[w] = q
  BY DEF Shapes

\* A scan that ends, or stops, leaves nothing to know.
LEMMA IdleFits ==
    ASSUME NEW w \in Watchers, tick'[w] = NotScanning PROVE ScanFits(w)'
  BY DEF ScanFits

\* A step of a scan that changes no row.
LEMMA ScanStep ==
    ASSUME InvoicesAssumption, InvoicesIInv,
           UNCHANGED <<led, inv, opening, shown, addrs, chain, posts, heard, invFaults>>,
           NEW w \in Watchers, NEW q \in {NotScanning} \cup Scanning,
           tick' = [tick EXCEPT ![w] = q], ScanFits(w)'
    PROVE  InvoicesIInv'
<1>1. tick' \in [Watchers -> {NotScanning} \cup Scanning]
  BY InvoiceParts, ScanChange
<1>2. inv' \in [Invoices -> RowType] /\ posts' \in [1..MaxPosts -> {NoPost} \cup Posting]
  BY InvoiceParts DEF Shapes
<1>3. invFaults' \in 0..MaxInvoiceFaults /\ heard' \subseteq Invoices
  BY InvoiceParts
<1>4. SameRows
  BY DEF SameRows
<1> QED BY <1>1, <1>2, <1>3, <1>4, DeliveryStepInv

\* What a watcher in a scan holds.
LEMMA ScanHolds ==
    ASSUME InvoicesIInv, NEW w \in Watchers, tick[w].at # "idle"
    PROVE  /\ tick[w] \in Scanning /\ tick[w].inv \in Invoices /\ tick[w].coin \in Coins
           /\ tick[w].left \in Seq(Coins) /\ tick[w].full \in BOOLEAN
           /\ tick[w].inv \in Invoices /\ inv[tick[w].inv].status # "NONE"
           /\ \A n \in 1..Len(tick[w].left) : Contains(addrs[tick[w].inv], tick[w].left[n])
           /\ tick[w].at \in Found =>
                 /\ tick[w].left # <<>> /\ Paid(w) \in Coins /\ Contains(addrs[tick[w].inv], Paid(w))
                 /\ chain[tick[w].inv][Paid(w)].seen > 0
           /\ tick[w].at = "confirm" => tick[w].full
           /\ tick[w].full => PaidInFull(tick[w].inv)
<1>1. /\ tick[w] \in Scanning /\ tick[w] # NotScanning /\ tick[w].inv \in Invoices
      /\ tick[w].coin \in Coins /\ tick[w].left \in Seq(Coins) /\ tick[w].full \in BOOLEAN
  BY InvoiceParts, ScanShape
<1>2. ScanFits(w)
  BY InvoiceParts DEF Scans
<1>3. ASSUME tick[w].left # <<>>
      PROVE  Paid(w) \in Coins /\ 1 \in 1..Len(tick[w].left) /\ Paid(w) = tick[w].left[1]
  BY <1>1, <1>3 DEF Paid
<1> QED BY <1>1, <1>2, <1>3 DEF ScanFits

\* A watcher lists an invoice, and its addresses.
LEMMA ListInv ==
    ASSUME InvoicesAssumption, InvoicesIInv, NEW w \in Watchers,
           ListInvoiceAddresses(w) \/ \E i \in Invoices : ListOpenInvoice(w, i)
    PROVE  InvoicesIInv'
<1>1. ASSUME NEW i \in Invoices, ListOpenInvoice(w, i) PROVE InvoicesIInv'
  <2>1. PICK q : q = [at |-> "listed", inv |-> i, coin |-> inv[i].coin, left |-> <<>>, full |-> FALSE]
    OBVIOUS
  <2>2. inv[i].status # "NONE" /\ inv[i].coin \in Coins
    BY <1>1, InvoiceParts DEF ListOpenInvoice, Open, Rows
  <2>3. <<>> \in Seq(Coins) /\ Len(<<>>) = 0
    OBVIOUS
  <2>4. /\ q \in Scanning /\ q.inv = i /\ q.at = "listed" /\ q.left = <<>> /\ ~ q.full
    BY <2>1, <2>2, <2>3 DEF Scanning
  <2>5. tick' = [tick EXCEPT ![w] = q]
    BY <1>1, <2>1 DEF ListOpenInvoice
  <2>6. tick'[w] = q
    BY <2>4, <2>5, InvoiceParts, ScanChange
  <2>7. inv' = inv
    BY <1>1 DEF ListOpenInvoice
  <2>8. \A n \in 1..Len(tick'[w].left) : FALSE
    BY <2>3, <2>4, <2>6
  <2>9. ScanFits(w)'
    BY <2>2, <2>4, <2>6, <2>7, <2>8 DEF ScanFits, Found
  <2> QED BY <1>1, <2>4, <2>5, <2>9, ScanStep DEF ListOpenInvoice
<1>2. CASE ListInvoiceAddresses(w)
  <2>1. /\ tick[w].at = "listed"
        /\ UNCHANGED <<led, inv, opening, shown, addrs, chain, posts, heard, invFaults>>
    BY <1>2 DEF ListInvoiceAddresses, At
  <2>2. PICK q : q = [tick[w] EXCEPT !.at = "scan", !.left = addrs[tick[w].inv]]
    OBVIOUS
  <2>3. tick[w] \in Scanning /\ tick[w].inv \in Invoices /\ addrs[tick[w].inv] \in Seq(Coins)
    BY <2>1, ScanHolds, InvoiceParts
  <2>4. /\ q \in Scanning /\ q.inv = tick[w].inv /\ q.at = "scan" /\ q.left = addrs[tick[w].inv]
        /\ q.full = tick[w].full
    BY <2>2, <2>3 DEF Scanning
  <2>5. tick' = [tick EXCEPT ![w] = q]
    BY <1>2, <2>2, InvoiceParts DEF ListInvoiceAddresses, Shapes
  <2>6. tick'[w] = q
    BY <2>4, <2>5, InvoiceParts, ScanChange
  <2>7. \A n \in 1..Len(addrs[tick[w].inv]) : Contains(addrs[tick[w].inv], addrs[tick[w].inv][n])
    BY <2>3 DEF Contains
  <2>8. inv[tick[w].inv].status # "NONE" /\ tick[w].full => PaidInFull(tick[w].inv)
    BY <2>1, ScanHolds
  <2>9. inv[tick[w].inv].status # "NONE"
    BY <2>1, ScanHolds
  <2>10. ScanFits(w)'
    BY <2>1, <2>4, <2>6, <2>7, <2>8, <2>9 DEF ScanFits, Found, PaidInFull
  <2> QED BY <2>1, <2>4, <2>5, <2>10, ScanStep
<1> QED BY <1>1, <1>2

\* Who goes on to the next address knows less.
LEMMA NextFits ==
    ASSUME InvoicesAssumption, InvoicesIInv, Shapes', WorldGrows, NEW w \in Watchers,
           tick[w].at # "idle", tick[w].left # <<>>, NextAddress(w)
    PROVE  \E q \in Scanning : tick' = [tick EXCEPT ![w] = q] /\ ScanFits(w)'
<1>1. PICK q : q = [tick[w] EXCEPT !.at = "scan", !.left = Tail(tick[w].left)]
  OBVIOUS
<1>2. /\ tick[w] \in Scanning /\ tick[w].inv \in Invoices /\ tick[w].left \in Seq(Coins)
      /\ inv[tick[w].inv].status # "NONE"
      /\ \A n \in 1..Len(tick[w].left) : Contains(addrs[tick[w].inv], tick[w].left[n])
      /\ tick[w].full => PaidInFull(tick[w].inv)
  BY ScanHolds
<1>3. /\ Tail(tick[w].left) \in Seq(Coins)
      /\ \A n \in 1..Len(Tail(tick[w].left)) :
            n + 1 \in 1..Len(tick[w].left) /\ Tail(tick[w].left)[n] = tick[w].left[n + 1]
  BY <1>2
<1>4. /\ q \in Scanning /\ q.inv = tick[w].inv /\ q.at = "scan" /\ q.left = Tail(tick[w].left)
      /\ q.full = tick[w].full
  BY <1>1, <1>2, <1>3 DEF Scanning
<1>5. tick' = [tick EXCEPT ![w] = q]
  BY <1>1, InvoiceParts DEF NextAddress, Shapes
<1>6. tick'[w] = q
  BY <1>4, <1>5, InvoiceParts, ScanChange
<1>7. \A n \in 1..Len(q.left) : Contains(addrs'[q.inv], q.left[n])
  <2>1. \A n \in 1..Len(q.left) : Contains(addrs[q.inv], q.left[n])
    BY <1>2, <1>3, <1>4
  <2> QED BY <1>2, <1>4, <2>1 DEF WorldGrows
<1>8. inv'[q.inv].status # "NONE" /\ (q.full => PaidInFull(q.inv)')
  BY <1>2, <1>4, PaidKept, InvoiceParts DEF WorldGrows
<1>9. ScanFits(w)'
  BY <1>4, <1>6, <1>7, <1>8 DEF ScanFits, Found, PaidInFull
<1> QED BY <1>4, <1>5, <1>9

\* Who goes on with what is found at an address knows what was found.
LEMMA GoOnFits ==
    ASSUME InvoicesAssumption, InvoicesIInv, Shapes', WorldGrows, NEW w \in Watchers,
           tick[w].at \in Found, NEW a \in {"point", "detect", "confirm", "dispatch"}, GoOn(w, a),
           a = "confirm" => tick[w].full
    PROVE  \E q \in Scanning : tick' = [tick EXCEPT ![w] = q] /\ ScanFits(w)'
<1>1. PICK q : q = [tick[w] EXCEPT !.at = a]
  OBVIOUS
<1>2. tick[w].at # "idle"
  BY DEF Found
<1>3. /\ tick[w] \in Scanning /\ tick[w] # NotScanning /\ tick[w].inv \in Invoices /\ tick[w].left \in Seq(Coins)
      /\ tick[w].left # <<>> /\ Paid(w) \in Coins
  BY <1>2, ScanHolds, InvoiceParts, ScanShape
<1>4. /\ q \in Scanning /\ q.inv = tick[w].inv /\ q.at = a /\ q.left = tick[w].left
      /\ q.full = tick[w].full
  BY <1>1, <1>3 DEF Scanning
<1>5. tick' = [tick EXCEPT ![w] = q]
  BY <1>1, InvoiceParts DEF GoOn, Shapes
<1>6. tick'[w] = q
  BY <1>4, <1>5, InvoiceParts, ScanChange
<1>7. /\ inv[tick[w].inv].status # "NONE"
      /\ \A n \in 1..Len(tick[w].left) : Contains(addrs[tick[w].inv], tick[w].left[n])
      /\ chain[tick[w].inv][Paid(w)].seen > 0
      /\ tick[w].full => PaidInFull(tick[w].inv)
  BY <1>2, ScanHolds
<1>8. /\ inv'[q.inv].status # "NONE"
      /\ \A n \in 1..Len(q.left) : Contains(addrs'[q.inv], q.left[n])
      /\ q.full => PaidInFull(q.inv)'
  BY <1>3, <1>4, <1>7, PaidKept, InvoiceParts DEF WorldGrows
<1>9. chain'[q.inv][Head(q.left)].seen > 0
  <2>1. PICK h : h = Paid(w)
    OBVIOUS
  <2>2. h = Head(q.left) /\ h \in Coins /\ chain[q.inv][h].seen > 0
    BY <1>3, <1>4, <1>7, <2>1 DEF Paid
  <2>3. chain[q.inv][h].seen <= chain'[q.inv][h].seen
    BY <1>3, <1>4, <2>2 DEF WorldGrows
  <2>4. chain[q.inv][h].seen \in Nat /\ chain'[q.inv][h].seen \in Nat
    <3>1. q.inv \in Invoices
      BY <1>3, <1>4
    <3>2. \A j \in Invoices, c \in Coins : chain[j][c].seen \in Nat /\ chain'[j][c].seen \in Nat
      BY InvoiceParts DEF Shapes
    <3> QED BY <2>2, <3>1, <3>2
  <2>5. chain'[q.inv][h].seen > 0
    BY <2>2, <2>3, <2>4
  <2> QED BY <2>2, <2>5
<1>10. ScanFits(w)'
  BY <1>3, <1>4, <1>6, <1>8, <1>9 DEF ScanFits, PaidInFull, Paid
<1> QED BY <1>4, <1>5, <1>10

\* A watcher looks at an address.
LEMMA FetchDepositsInv ==
    ASSUME InvoicesAssumption, InvoicesIInv, NEW w \in Watchers, FetchDeposits(w) PROVE InvoicesIInv'
<1>1. /\ tick[w].at = "scan" /\ tick[w].left # <<>>
      /\ UNCHANGED <<led, inv, opening, shown, addrs, chain, posts, heard, invFaults>>
  BY DEF FetchDeposits, At
<1>2. tick[w].at # "idle" /\ tick[w] \in Scanning /\ tick[w].inv \in Invoices
  BY <1>1, ScanHolds
<1>3. WorldGrows
  BY <1>1, WorldStays
<1>4. CASE NextAddress(w)
  <2>1. tick' \in [Watchers -> {NotScanning} \cup Scanning]
    <3>1. tick' = [tick EXCEPT ![w] = [tick[w] EXCEPT !.at = "scan", !.left = Tail(tick[w].left)]]
      BY <1>4, InvoiceParts DEF NextAddress, Shapes
    <3>2. [tick[w] EXCEPT !.at = "scan", !.left = Tail(tick[w].left)] \in Scanning
      <4>1. Tail(tick[w].left) \in Seq(Coins)
        BY <1>1, <1>2 DEF Scanning
      <4> QED BY <1>2, <4>1 DEF Scanning
    <3> QED BY <3>1, <3>2, InvoiceParts, ScanChange
  <2>2. Shapes'
    BY <1>1, <2>1, InvoiceParts DEF Shapes
  <2>3. PICK q \in Scanning : tick' = [tick EXCEPT ![w] = q] /\ ScanFits(w)'
    BY <1>1, <1>2, <1>3, <1>4, <2>2, NextFits
  <2> QED BY <1>1, <2>3, ScanStep
<1>5. CASE /\ chain[tick[w].inv][Paid(w)].seen # 0
           /\ tick' = [tick EXCEPT ![w].at = "lock", ![w].full = Complete(chain[tick[w].inv][Paid(w)], Paid(w))]
  <2>1. PICK c : c = Paid(w)
    OBVIOUS
  <2>2. PICK f : f = Complete(chain[tick[w].inv][c], c)
    OBVIOUS
  <2>3. PICK q : q = [tick[w] EXCEPT !.at = "lock", !.full = f]
    OBVIOUS
  <2>4. /\ tick[w].left \in Seq(Coins) /\ inv[tick[w].inv].status # "NONE"
        /\ \A n \in 1..Len(tick[w].left) : Contains(addrs[tick[w].inv], tick[w].left[n])
    BY <1>2, ScanHolds
  <2>5. c \in Coins /\ c = Head(tick[w].left)
    BY <1>1, <2>1, <2>4 DEF Paid
  <2>6. f \in BOOLEAN /\ (f => PaidInFull(tick[w].inv))
    <3>1. /\ Complete(chain[tick[w].inv][c], c) \in BOOLEAN
          /\ Complete(chain[tick[w].inv][c], c) => PaidInFull(tick[w].inv)
      BY <2>5 DEF Complete, PaidInFull
    <3> QED BY <2>2, <3>1, Zenon
  <2>7. /\ q \in Scanning /\ q.inv = tick[w].inv /\ q.at = "lock" /\ q.left = tick[w].left /\ q.full = f
    BY <1>2, <2>3, <2>6 DEF Scanning
  <2>8. tick' = [tick EXCEPT ![w] = q]
    BY <1>5, <2>1, <2>2, <2>3, InvoiceParts DEF Shapes
  <2>9. tick'[w] = q
    BY <2>7, <2>8, InvoiceParts, ScanChange
  <2>10. chain[tick[w].inv][c].seen > 0
    <3>1. chain[tick[w].inv][c].seen \in Nat
      BY <1>2, <2>5, InvoiceParts DEF Shapes
    <3> QED BY <1>5, <2>1, <3>1
  <2>11. ScanFits(w)'
    BY <1>1, <2>4, <2>5, <2>6, <2>7, <2>9, <2>10 DEF ScanFits, PaidInFull, Paid
  <2> QED BY <1>1, <2>7, <2>8, <2>11, ScanStep
<1> QED BY <1>4, <1>5 DEF FetchDeposits

\* A scan ends, stops, or hands over to the webhook.
LEMMA ScanEndsInv ==
    ASSUME InvoicesAssumption, InvoicesIInv, NEW w \in Watchers,
           ScanEnds(w) \/ WatcherStops(w) \/ DispatchWebhook(w)
    PROVE  InvoicesIInv'
<1>1. /\ tick' = [tick EXCEPT ![w] = NotScanning]
      /\ UNCHANGED <<led, inv, opening, shown, addrs, chain, heard>>
      /\ \/ invFaults' = invFaults
         \/ invFaults < MaxInvoiceFaults /\ invFaults' = invFaults + 1
  BY DEF ScanEnds, WatcherStops, DispatchWebhook, InvoiceFault
<1>2. posts' \in [1..MaxPosts -> {NoPost} \cup Posting]
  <2>1. CASE DispatchWebhook(w)
    <3>1. tick[w].at # "idle" /\ Dispatching(tick[w].inv, inv[tick[w].inv])
      BY <2>1 DEF DispatchWebhook, At
    <3>2. tick[w].inv \in Invoices /\ inv[tick[w].inv] \in RowType
      BY <3>1, ScanHolds, InvoiceParts
    <3> QED BY <3>1, <3>2, Dispatched, InvoiceParts
  <2>2. CASE UNCHANGED posts
    BY <2>2, InvoiceParts DEF Shapes
  <2> QED BY <2>1, <2>2 DEF ScanEnds, WatcherStops
<1>3. invFaults' \in 0..MaxInvoiceFaults /\ (invFaults' = 0 => invFaults = 0)
  BY <1>1, InvoiceParts DEF InvoicesAssumption
<1>4. /\ tick' \in [Watchers -> {NotScanning} \cup Scanning] /\ tick'[w] = NotScanning
  BY <1>1, InvoiceParts, ScanChange
<1>5. ScanFits(w)'
  BY <1>4, IdleFits
<1>6. inv' \in [Invoices -> RowType] /\ SameRows /\ heard' \subseteq Invoices
  BY <1>1, InvoiceParts DEF SameRows
<1> QED BY <1>1, <1>2, <1>3, <1>4, <1>5, <1>6, DeliveryStepInv

\* The coin of an invoice is frozen; a row, and a step of the scan.
LEMMA LockInv ==
    ASSUME InvoicesAssumption, InvoicesIInv, NEW w \in Watchers, LockCoin(w) PROVE InvoicesIInv'
<1> DEFINE i == tick[w].inv
<1>1. /\ tick[w].at = "lock" /\ GoOn(w, "point")
      /\ UNCHANGED <<led, opening, shown, addrs, chain, posts, heard, invFaults>>
  BY DEF LockCoin, At
<1>2. tick[w].at # "idle" /\ i \in Invoices /\ inv[i].status # "NONE" /\ inv[i] \in RowType /\ tick[w] \in Scanning
  BY <1>1, ScanHolds, InvoiceParts
<1>3. PICK row : row = [inv[i] EXCEPT !.locked = TRUE]
  OBVIOUS
<1>4. inv' = [inv EXCEPT ![i] = row] /\ row \in RowType
  BY <1>2, <1>3, RowFields, InvoiceParts DEF LockCoin
<1>5. row.status = inv[i].status /\ row.coin = inv[i].coin /\ row.by = inv[i].by
  <2> HIDE DEF RowType, i
  <2> QED BY <1>2, <1>3, RowKeeps
<1>6. /\ inv' \in [Invoices -> RowType] /\ inv'[i] = row
      /\ \A j \in Invoices \ {i} : inv'[j] = inv[j]
  BY <1>2, <1>4, RowChange
<1>7. SameRows /\ \A j \in Invoices : inv[j].status = "NONE" => inv'[j] = inv[j]
  BY <1>2, <1>5, <1>6 DEF SameRows
<1>8. tick' \in [Watchers -> {NotScanning} \cup Scanning] /\ Shapes'
  <2>1. tick' = [tick EXCEPT ![w] = [tick[w] EXCEPT !.at = "point"]]
    BY <1>1, InvoiceParts DEF GoOn, Shapes
  <2>2. [tick[w] EXCEPT !.at = "point"] \in Scanning
    BY <1>2 DEF Scanning
  <2>3. tick' \in [Watchers -> {NotScanning} \cup Scanning]
    BY <2>1, <2>2, InvoiceParts, ScanChange
  <2> QED BY <1>1, <2>3, InvoiceParts DEF Shapes
<1>9. WorldGrows
  BY <1>1, <1>7, WorldStays DEF SameRows
<1>10. \E q \in Scanning : tick' = [tick EXCEPT ![w] = q] /\ ScanFits(w)'
  BY <1>1, <1>8, <1>9, GoOnFits DEF Found
<1>11. NoneIsPaid
  BY <1>7 DEF NoneIsPaid, SameRows
<1>12. \A j \in Invoices : inv[j].status # "NONE" =>
          /\ inv'[j].status # "NONE" /\ inv'[j].coin \in Coins
          /\ inv'[j].coin = inv[j].coin \/ Contains(addrs[j], inv'[j].coin)
  BY <1>7, InvoiceParts DEF Rows, SameRows
<1> QED BY <1>1, <1>6, <1>7, <1>8, <1>10, <1>11, <1>12, RowsStep

\* The type of the scans after a step of one of them.
LEMMA GoOnTypes ==
    ASSUME InvoicesIInv, NEW w \in Watchers, tick[w].at # "idle",
           \/ \E a \in {"point", "detect", "confirm", "dispatch"} : GoOn(w, a)
           \/ tick[w].left # <<>> /\ NextAddress(w)
    PROVE  tick' \in [Watchers -> {NotScanning} \cup Scanning]
<1>1. tick \in [Watchers -> {NotScanning} \cup Scanning] /\ tick[w] \in Scanning /\ tick[w].left \in Seq(Coins)
  BY ScanHolds, InvoiceParts DEF Shapes
<1>2. ASSUME NEW a \in {"point", "detect", "confirm", "dispatch"}, GoOn(w, a)
      PROVE  tick' \in [Watchers -> {NotScanning} \cup Scanning]
  <2>1. [tick[w] EXCEPT !.at = a] \in Scanning
    BY <1>1 DEF Scanning
  <2>2. tick' = [tick EXCEPT ![w] = [tick[w] EXCEPT !.at = a]]
    BY <1>1, <1>2 DEF GoOn
  <2> QED BY <2>1, <2>2, InvoiceParts, ScanChange
<1>3. ASSUME tick[w].left # <<>>, NextAddress(w)
      PROVE  tick' \in [Watchers -> {NotScanning} \cup Scanning]
  <2>1. Tail(tick[w].left) \in Seq(Coins)
    BY <1>1, <1>3
  <2>2. [tick[w] EXCEPT !.at = "scan", !.left = Tail(tick[w].left)] \in Scanning
    BY <1>1, <2>1 DEF Scanning
  <2>3. tick' = [tick EXCEPT ![w] = [tick[w] EXCEPT !.at = "scan", !.left = Tail(tick[w].left)]]
    BY <1>1, <1>3 DEF NextAddress
  <2> QED BY <2>2, <2>3, InvoiceParts, ScanChange
<1> QED BY <1>2, <1>3

\* The selection follows the money, unless the invoice is confirmed.
LEMMA PointInv ==
    ASSUME InvoicesAssumption, InvoicesIInv, NEW w \in Watchers, PointSelectionAt(w) PROVE InvoicesIInv'
<1> DEFINE i == tick[w].inv
<1>1. /\ tick[w].at = "point" /\ GoOn(w, "detect")
      /\ UNCHANGED <<led, opening, shown, addrs, chain, posts, heard, invFaults>>
      /\ inv' = IF tick[w].coin # Paid(w) /\ Repointable(i) THEN [inv EXCEPT ![i].coin = Paid(w)] ELSE inv
  BY DEF PointSelectionAt, At
<1>2. /\ tick[w].at # "idle" /\ i \in Invoices /\ inv[i].status # "NONE" /\ inv[i] \in RowType
      /\ Paid(w) \in Coins /\ Contains(addrs[i], Paid(w))
  BY <1>1, ScanHolds, InvoiceParts DEF Found
<1>3. /\ inv' \in [Invoices -> RowType]
      /\ \A j \in Invoices : /\ inv'[j].status = inv[j].status /\ inv'[j].by = inv[j].by
                             /\ \/ inv'[j] = inv[j]
                                \/ j = i /\ inv[j].status # "CONFIRMED" /\ inv'[j].coin = Paid(w)
  <2>1. CASE inv' = inv
    BY <2>1, InvoiceParts
  <2>2. CASE inv[i].status # "CONFIRMED" /\ inv' = [inv EXCEPT ![i].coin = Paid(w)]
    <3>1. PICK row : row = [inv[i] EXCEPT !.coin = Paid(w)]
      OBVIOUS
    <3>2. row \in RowType /\ inv' = [inv EXCEPT ![i] = row]
      BY <1>2, <2>2, <3>1, RowFields, InvoiceParts
    <3>3. row.status = inv[i].status /\ row.coin = Paid(w) /\ row.by = inv[i].by
      <4> HIDE DEF RowType, i
      <4> QED BY <1>2, <3>1, RowKeeps
    <3>4. /\ inv' \in [Invoices -> RowType] /\ inv'[i] = row
          /\ \A j \in Invoices \ {i} : inv'[j] = inv[j]
      BY <1>2, <3>2, RowChange
    <3> QED BY <2>2, <3>3, <3>4
  <2> QED BY <1>1, <2>1, <2>2 DEF Repointable
<1>4. NoneIsPaid
  BY <1>3 DEF NoneIsPaid
<1>5. \A j \in Invoices : inv[j].status = "NONE" => inv'[j] = inv[j]
  BY <1>2, <1>3
<1>6. \A j \in Invoices : inv[j].status # "NONE" =>
          /\ inv'[j].status # "NONE" /\ inv'[j].coin \in Coins
          /\ inv'[j].coin = inv[j].coin \/ Contains(addrs[j], inv'[j].coin)
  BY <1>2, <1>3, InvoiceParts DEF Rows
<1>7. tick' \in [Watchers -> {NotScanning} \cup Scanning]
  BY <1>1, <1>2, GoOnTypes
<1>8. Shapes'
  BY <1>1, <1>7, InvoiceParts DEF Shapes
<1>9. WorldGrows
  BY <1>1, <1>3, WorldStays
<1>10. \E q \in Scanning : tick' = [tick EXCEPT ![w] = q] /\ ScanFits(w)'
  BY <1>1, <1>8, <1>9, GoOnFits DEF Found
<1> QED BY <1>1, <1>3, <1>4, <1>5, <1>6, <1>7, <1>10, RowsStep

\* An open invoice is detected; the scan goes on to confirm it, or to the next address.
LEMMA DetectInv ==
    ASSUME InvoicesAssumption, InvoicesIInv, NEW w \in Watchers, MarkInvoiceDetected(w) PROVE InvoicesIInv'
<1> DEFINE i == tick[w].inv
<1>1. /\ tick[w].at = "detect"
      /\ IF tick[w].full THEN GoOn(w, "confirm") ELSE NextAddress(w)
      /\ UNCHANGED <<led, opening, shown, addrs, chain, posts, heard, invFaults>>
  BY DEF MarkInvoiceDetected, At
<1>2. /\ tick[w].at # "idle" /\ i \in Invoices /\ inv[i].status # "NONE" /\ inv[i] \in RowType
      /\ tick[w].left # <<>> /\ inv[i].status \in InvoiceStatuses
  BY <1>1, ScanHolds, InvoiceParts DEF Found, RowType
<1>3. /\ inv' \in [Invoices -> RowType] /\ \A j \in Invoices \ {i} : inv'[j] = inv[j]
      /\ inv'[i].coin = inv[i].coin /\ inv'[i].by = inv[i].by
      /\ inv'[i].status = IF inv[i].status \in Open THEN "DETECTED" ELSE inv[i].status
  <2>1. PICK s : s = IF inv[i].status \in Open THEN "DETECTED" ELSE inv[i].status
    OBVIOUS
  <2>2. PICK row : row = [inv[i] EXCEPT !.status = s]
    OBVIOUS
  <2>3. s \in InvoiceStatuses
    BY <1>2, <2>1 DEF InvoiceStatuses, Open
  <2>4. row \in RowType /\ inv' = [inv EXCEPT ![i] = row]
    BY <1>2, <2>1, <2>2, <2>3, RowFields, InvoiceParts DEF MarkInvoiceDetected
  <2>5. row.status = s /\ row.coin = inv[i].coin /\ row.by = inv[i].by
    <3> HIDE DEF RowType, i
    <3> QED BY <1>2, <2>2, RowKeeps
  <2>6. /\ inv' \in [Invoices -> RowType] /\ inv'[i] = row
        /\ \A j \in Invoices \ {i} : inv'[j] = inv[j]
    BY <1>2, <2>4, RowChange
  <2> QED BY <2>1, <2>5, <2>6
<1>4. inv'[i].status # "NONE" /\ (inv'[i].status = "CONFIRMED" <=> inv[i].status = "CONFIRMED")
  BY <1>2, <1>3 DEF Open
<1>5. NoneIsPaid
  BY <1>3, <1>4 DEF NoneIsPaid
<1>6. \A j \in Invoices : inv[j].status = "NONE" => inv'[j] = inv[j]
  BY <1>2, <1>3
<1>7. \A j \in Invoices : inv[j].status # "NONE" =>
          /\ inv'[j].status # "NONE" /\ inv'[j].coin \in Coins
          /\ inv'[j].coin = inv[j].coin \/ Contains(addrs[j], inv'[j].coin)
  BY <1>2, <1>3, <1>4, InvoiceParts DEF Rows
<1>8. tick' \in [Watchers -> {NotScanning} \cup Scanning]
  BY <1>1, <1>2, GoOnTypes
<1>9. Shapes'
  BY <1>1, <1>8, InvoiceParts DEF Shapes
<1>10. WorldGrows
  BY <1>1, <1>7, WorldStays
<1>11. \E q \in Scanning : tick' = [tick EXCEPT ![w] = q] /\ ScanFits(w)'
  <2>1. CASE tick[w].full
    BY <1>1, <1>9, <1>10, <2>1, GoOnFits DEF Found
  <2>2. CASE ~ tick[w].full
    BY <1>1, <1>2, <1>9, <1>10, <2>2, NextFits
  <2> QED BY <2>1, <2>2
<1> QED BY <1>1, <1>3, <1>5, <1>6, <1>7, <1>8, <1>11, RowsStep

\* The invoice was settled by another, or has expired.
LEMMA ConfirmNothingInv ==
    ASSUME InvoicesAssumption, InvoicesIInv, NEW w \in Watchers, ConfirmNothing(w) PROVE InvoicesIInv'
<1>1. /\ tick[w].at = "confirm" /\ (GoOn(w, "dispatch") \/ NextAddress(w))
      /\ UNCHANGED <<led, inv, opening, shown, addrs, chain, posts, heard, invFaults>>
  BY DEF ConfirmNothing, At
<1>2. tick[w].at # "idle" /\ tick[w].left # <<>>
  BY <1>1, ScanHolds DEF Found
<1>3. tick' \in [Watchers -> {NotScanning} \cup Scanning]
  BY <1>1, <1>2, GoOnTypes
<1>4. Shapes'
  BY <1>1, <1>3, InvoiceParts DEF Shapes
<1>5. WorldGrows
  BY <1>1, WorldStays
<1>6. \E q \in Scanning : tick' = [tick EXCEPT ![w] = q] /\ ScanFits(w)'
  BY <1>1, <1>2, <1>4, <1>5, GoOnFits, NextFits DEF Found
<1> QED BY <1>1, <1>6, ScanStep

-------------------------------------------------------------------------------
(* The settlement.                                                         *)

\* The row of an open invoice after its settlement.
Settles(i, b) ==
    inv[i].status \in Open /\ inv' = [inv EXCEPT ![i] = [inv[i] EXCEPT !.status = "CONFIRMED", !.by = b]]

\* What a settlement makes of the rows.
LEMMA SettledRow ==
    ASSUME InvoicesAssumption, InvoicesIInv, NEW i \in Invoices, NEW b \in {"chain", "balance"}, Settles(i, b)
    PROVE  /\ inv' \in [Invoices -> RowType] /\ \A j \in Invoices \ {i} : inv'[j] = inv[j]
           /\ inv'[i].status = "CONFIRMED" /\ inv'[i].coin = inv[i].coin /\ inv'[i].by = b
           /\ inv[i].status # "NONE" /\ inv[i].status # "CONFIRMED" /\ inv[i].by = "nobody" /\ inv[i].coin \in Coins
<1>1. PICK row : row = [inv[i] EXCEPT !.status = "CONFIRMED", !.by = b]
  OBVIOUS
<1>2. inv[i] \in RowType /\ row \in RowType /\ inv' = [inv EXCEPT ![i] = row]
  BY <1>1, RowFields DEF Settles, InvoiceStatuses
<1>3. row.status = "CONFIRMED" /\ row.coin = inv[i].coin /\ row.by = b
  <2> HIDE DEF RowType
  <2> QED BY <1>1, <1>2, RowConfirmed
<1>4. /\ inv' \in [Invoices -> RowType] /\ inv'[i] = row
      /\ \A j \in Invoices \ {i} : inv'[j] = inv[j]
  BY <1>2, RowChange
<1>5. inv[i].status # "NONE" /\ inv[i].status # "CONFIRMED" /\ inv[i].by = "nobody" /\ inv[i].coin \in Coins
  BY InvoiceParts DEF Settles, Open, Rows
<1> QED BY <1>3, <1>4, <1>5

\* What it adds to the keys of the ledger.
RecordsOnly(i, b) ==
    \A w, ty, r : <<w, ty, r>> \in led'.keys <=>
        \/ <<w, ty, r>> \in led.keys
        \/ w = MerchantWallet[inv[i].coin] /\ ty = "MERCHANT_DEPOSIT" /\ r = i
        \/ b = "balance" /\ w = PayerWallet[inv[i].coin] /\ ty = "MERCHANT_CHECKOUT" /\ r = i

\* A settlement that posts the merchant's income, and the payer's debit if it was from
\* a balance, leaves what was recorded of all other invoices, and coins.
LEMMA CreditedStaysOnce ==
    ASSUME InvoicesAssumption, InvoicesIInv, NEW i \in Invoices, NEW b \in {"chain", "balance"}, Settles(i, b),
           RecordsOnly(i, b)
    PROVE  CreditedOnce'
<1>1. /\ \A j \in Invoices \ {i} : inv'[j] = inv[j]
      /\ inv'[i].status = "CONFIRMED" /\ inv'[i].coin = inv[i].coin /\ inv'[i].by = b
      /\ inv[i].status # "CONFIRMED" /\ inv[i].by = "nobody" /\ inv[i].coin \in Coins
  BY SettledRow
<1>2. \A c \in Coins : /\ MerchantWallet[c] = MerchantWallet[inv[i].coin] => c = inv[i].coin
                       /\ PayerWallet[c] = PayerWallet[inv[i].coin] => c = inv[i].coin
  BY <1>1 DEF InvoicesAssumption, IsInjective
<1>3. \A j \in Invoices, c \in Coins :
          /\ <<MerchantWallet[c], "MERCHANT_DEPOSIT", j>> \in led.keys
                <=> inv[j].status = "CONFIRMED" /\ inv[j].coin = c
          /\ <<PayerWallet[c], "MERCHANT_CHECKOUT", j>> \in led.keys
                <=> inv[j].by = "balance" /\ inv[j].coin = c
  BY InvoiceParts DEF CreditedOnce, Recorded
<1>4. ASSUME NEW j \in Invoices, NEW c \in Coins
      PROVE  <<MerchantWallet[c], "MERCHANT_DEPOSIT", j>> \in led'.keys
                <=> inv'[j].status = "CONFIRMED" /\ inv'[j].coin = c
  <2>1. <<MerchantWallet[c], "MERCHANT_DEPOSIT", j>> \in led'.keys <=>
            \/ <<MerchantWallet[c], "MERCHANT_DEPOSIT", j>> \in led.keys
            \/ MerchantWallet[c] = MerchantWallet[inv[i].coin] /\ j = i
    BY DEF RecordsOnly
  <2>2. <<MerchantWallet[c], "MERCHANT_DEPOSIT", j>> \in led'.keys <=>
            (inv[j].status = "CONFIRMED" /\ inv[j].coin = c) \/ (c = inv[i].coin /\ j = i)
    BY <1>1, <1>2, <1>3, <2>1
  <2> QED BY <1>1, <2>2
<1>5. ASSUME NEW j \in Invoices, NEW c \in Coins
      PROVE  <<PayerWallet[c], "MERCHANT_CHECKOUT", j>> \in led'.keys
                <=> inv'[j].by = "balance" /\ inv'[j].coin = c
  <2>1. <<PayerWallet[c], "MERCHANT_CHECKOUT", j>> \in led'.keys <=>
            \/ <<PayerWallet[c], "MERCHANT_CHECKOUT", j>> \in led.keys
            \/ b = "balance" /\ PayerWallet[c] = PayerWallet[inv[i].coin] /\ j = i
    BY DEF RecordsOnly
  <2>2. <<PayerWallet[c], "MERCHANT_CHECKOUT", j>> \in led'.keys <=>
            (inv[j].by = "balance" /\ inv[j].coin = c) \/ (b = "balance" /\ c = inv[i].coin /\ j = i)
    BY <1>1, <1>2, <1>3, <2>1
  <2> QED BY <1>1, <2>2
<1> QED BY <1>4, <1>5 DEF CreditedOnce, Recorded

\* A settlement, with the ledger and the proof of payment it needs.
LEMMA SettleStep ==
    ASSUME InvoicesAssumption, InvoicesIInv, NEW i \in Invoices, NEW b \in {"chain", "balance"}, Settles(i, b),
           led' \in Ledgers, CreditedOnce', b = "chain" => PaidInFull(i),
           UNCHANGED <<opening, shown, addrs, chain, heard, invFaults>>,
           posts' \in [1..MaxPosts -> {NoPost} \cup Posting],
           tick' \in [Watchers -> {NotScanning} \cup Scanning],
           WorldGrows => tick' = tick \/ \E w \in Watchers : \E q : tick' = [tick EXCEPT ![w] = q] /\ ScanFits(w)'
    PROVE  InvoicesIInv'
<1>1. /\ inv' \in [Invoices -> RowType] /\ \A j \in Invoices \ {i} : inv'[j] = inv[j]
      /\ inv'[i].status = "CONFIRMED" /\ inv'[i].coin = inv[i].coin /\ inv'[i].by = b
      /\ inv[i].status # "NONE" /\ inv[i].by = "nobody" /\ inv[i].coin \in Coins
  BY SettledRow
<1>2. addrs \in [Invoices -> Seq(Coins)] /\ Shapes'
  BY InvoiceParts DEF Shapes
<1>3. InvoicesTypeOK'
  BY <1>1, <1>2, InvoiceParts, TypesAfter
<1>4. WorldGrows
  BY <1>1, WorldStays
<1>5. Scans'
  BY <1>2, <1>4, InvoiceParts, ScansKept
<1>6. ConfirmedWasPaid'
  <2>1. ASSUME NEW j \in Invoices, inv'[j].by = "chain" PROVE PaidInFull(j)
    <3>1. CASE j = i
      BY <1>1, <2>1, <3>1
    <3>2. CASE j # i
      BY <1>1, <2>1, <3>2, InvoiceParts DEF ConfirmedWasPaid, PaidInFull
    <3> QED BY <3>1, <3>2
  <2> QED BY <2>1 DEF ConfirmedWasPaid, PaidInFull
<1>7. Rows'
  <2> SUFFICES ASSUME NEW j \in Invoices
               PROVE  /\ inv'[j].status = "NONE" => ~ inv'[j].locked /\ opening[j] = NoCoin /\ j \notin shown
                      /\ inv'[j].status # "NONE" => inv'[j].coin \in Coins
                      /\ inv'[j].by # "nobody" <=> inv'[j].status = "CONFIRMED"
    BY DEF Rows
  <2>1. CASE j = i
    BY <1>1, <2>1
  <2>2. CASE j # i
    BY <1>1, <2>2, InvoiceParts DEF Rows
  <2> QED BY <2>1, <2>2
<1>8. Watched'
  <2> SUFFICES ASSUME invFaults = 0, NEW j \in Invoices, inv'[j].status # "NONE"
               PROVE  inv'[j].coin = opening[j] \/ Contains(addrs[j], inv'[j].coin)
    BY DEF Watched
  <2>1. Watched /\ inv'[j].coin = inv[j].coin /\ inv[j].status # "NONE"
    BY <1>1, InvoiceParts
  <2> QED BY <2>1 DEF Watched
<1> QED BY <1>2, <1>3, <1>5, <1>6, <1>7, <1>8 DEF InvoicesIInv

\* A watcher confirms: the merchant's income in the coin that is selected, for what one
\* of the addresses received.
LEMMA ConfirmInv ==
    ASSUME InvoicesAssumption, InvoicesIInv, NEW w \in Watchers, ConfirmInvoice(w) PROVE InvoicesIInv'
<1> DEFINE i == tick[w].inv
           e == Income(i, inv[i].coin)
<1>1. /\ tick[w].at = "confirm" /\ GoOn(w, "dispatch") /\ inv[i].status \in Open
      /\ Admits(led, e) /\ led' = Posted(led, e)
      /\ inv' = [inv EXCEPT ![i].status = "CONFIRMED", ![i].by = "chain"]
      /\ UNCHANGED <<opening, shown, addrs, chain, posts, heard, invFaults>>
  BY DEF ConfirmInvoice, At, Confirmable, Post
<1>2. tick[w].at # "idle" /\ i \in Invoices /\ PaidInFull(i)
  BY <1>1, ScanHolds
<1>3. Settles(i, "chain")
  BY <1>1, <1>2, InvoiceParts DEF Settles
<1>4. inv[i].coin \in Coins
  BY <1>2, <1>3, SettledRow
<1>5. /\ e \in Entries /\ KeysOf(e) = {<<MerchantWallet[inv[i].coin], "MERCHANT_DEPOSIT", i>>}
  BY <1>2, <1>4, EntryTypes
<1>6. led' \in Ledgers /\ led'.keys = led.keys \cup KeysOf(e)
  <2>1. Posted(led, e) \in Ledgers
    BY <1>5, InvoiceParts, PostedIsALedger
  <2>2. Posted(led, e).keys = led.keys \cup KeysOf(e)
    BY DEF Posted
  <2> HIDE DEF e
  <2> QED BY <1>1, <2>1, <2>2
<1>7. CreditedOnce'
  <2>1. RecordsOnly(i, "chain")
    BY <1>5, <1>6 DEF RecordsOnly
  <2> HIDE DEF i
  <2> QED BY <1>2, <1>3, <2>1, CreditedStaysOnce
<1>8. posts' \in [1..MaxPosts -> {NoPost} \cup Posting] /\ tick' \in [Watchers -> {NotScanning} \cup Scanning]
  BY <1>1, <1>2, GoOnTypes, InvoiceParts DEF Shapes
<1>9. Shapes'
  BY <1>1, <1>8, InvoiceParts DEF Shapes
<1>10. WorldGrows => \E q \in Scanning : tick' = [tick EXCEPT ![w] = q] /\ ScanFits(w)'
  BY <1>1, <1>9, GoOnFits DEF Found
<1> HIDE DEF i, e
<1> QED BY <1>1, <1>2, <1>3, <1>6, <1>7, <1>8, <1>10, SettleStep

\* A customer pays from a balance: his debit and the merchant's income, or neither.
LEMMA PayInv ==
    ASSUME InvoicesAssumption, InvoicesIInv, NEW i \in Invoices, PayInvoiceWithBalance(i) PROVE InvoicesIInv'
<1> DEFINE d == Checkout(i, inv[i].coin)
           e == Income(i, inv[i].coin)
<1>1. /\ inv[i].status \in Open
      /\ PostAll(led, <<d, e>>).ok /\ led' = PostAll(led, <<d, e>>).ledger
      /\ inv' = [inv EXCEPT ![i].status = "CONFIRMED", ![i].by = "balance"]
      /\ Dispatching(i, inv'[i])
      /\ UNCHANGED <<opening, shown, addrs, chain, tick, heard, invFaults>>
  BY DEF PayInvoiceWithBalance, Payable, PostEach
<1>2. Settles(i, "balance")
  BY <1>1, InvoiceParts DEF Settles
<1>3. inv[i].coin \in Coins /\ inv'[i] \in RowType
  BY <1>2, SettledRow
<1>4. /\ d \in Entries /\ e \in Entries
      /\ KeysOf(e) = {<<MerchantWallet[inv[i].coin], "MERCHANT_DEPOSIT", i>>}
      /\ KeysOf(d) = {<<PayerWallet[inv[i].coin], "MERCHANT_CHECKOUT", i>>}
  BY <1>3, EntryTypes
<1>5. led' \in Ledgers /\ led'.keys = led.keys \cup KeysOf(d) \cup KeysOf(e)
  <2>1. PICK m : m = Posted(led, d)
    OBVIOUS
  <2>2. m \in Ledgers /\ m.keys = led.keys \cup KeysOf(d)
    <3>1. Posted(led, d) \in Ledgers
      BY <1>4, InvoiceParts, PostedIsALedger
    <3>2. Posted(led, d).keys = led.keys \cup KeysOf(d)
      BY DEF Posted
    <3> HIDE DEF d
    <3> QED BY <2>1, <3>1, <3>2
  <2>3. Posted(m, e) \in Ledgers /\ Posted(m, e).keys = m.keys \cup KeysOf(e)
    <3>1. Posted(m, e) \in Ledgers
      BY <1>4, <2>2, PostedIsALedger
    <3>2. Posted(m, e).keys = m.keys \cup KeysOf(e)
      BY DEF Posted
    <3> QED BY <3>1, <3>2
  <2>4. led' = Posted(Posted(led, d), e)
    <3>1. led \in Ledgers
      BY InvoiceParts
    <3> HIDE DEF d, e
    <3> QED BY <1>1, <1>4, <3>1, PostAllTwo
  <2> HIDE DEF d, e
  <2> QED BY <2>1, <2>2, <2>3, <2>4
<1>6. CreditedOnce'
  <2>1. RecordsOnly(i, "balance")
    <3> HIDE DEF d, e
    <3> QED BY <1>4, <1>5 DEF RecordsOnly
  <2> QED BY <1>2, <2>1, CreditedStaysOnce
<1>7. posts' \in [1..MaxPosts -> {NoPost} \cup Posting] /\ tick' \in [Watchers -> {NotScanning} \cup Scanning]
  BY <1>1, <1>3, Dispatched, InvoiceParts DEF Shapes
<1> QED BY <1>1, <1>2, <1>5, <1>6, <1>7, SettleStep

-------------------------------------------------------------------------------
(* Every step, and the theorems.                                           *)

\* A step that leaves all as it was.
LEMMA InvoicesStutter ==
    ASSUME InvoicesAssumption, InvoicesIInv, UNCHANGED invoiceVars PROVE InvoicesIInv'
<1>1. UNCHANGED <<led, inv, opening, shown, addrs, chain, tick, posts, heard, invFaults>>
  BY DEF invoiceVars
<1>2. /\ inv' \in [Invoices -> RowType] /\ posts' \in [1..MaxPosts -> {NoPost} \cup Posting]
      /\ tick' \in [Watchers -> {NotScanning} \cup Scanning] /\ heard' \subseteq Invoices
      /\ invFaults' \in 0..MaxInvoiceFaults
  BY <1>1, InvoiceParts DEF Shapes
<1>3. SameRows
  BY <1>1 DEF SameRows
<1> QED BY <1>1, <1>2, <1>3, DeliveryStepInv

\* The invariant is inductive.
LEMMA InvoicesStep ==
    ASSUME InvoicesAssumption, InvoicesIInv, [InvoicesNext]_invoiceVars PROVE InvoicesIInv'
<1>1. ASSUME NEW i \in Invoices,
             \/ InsertInvoice(i) \/ RegisterAddress(i) \/ ReplayInvoice(i)
             \/ FallDue(i) \/ PayInvoiceWithBalance(i) \/ RedeliverWebhook(i)
             \/ RequestStops(i) \/ TestWebhook(i)
      PROVE  InvoicesIInv'
  BY <1>1, InsertInv, RegisterInv, ReplayInv, PayInv, RedeliverInv
<1>2. ASSUME NEW i \in Invoices, NEW c \in Coins, ShowCoin(i, c) \/ SelectCoin(i, c) \/ Bury(i, c)
      PROVE  InvoicesIInv'
  BY <1>2, ShowInv, SelectInv, ChainInv
<1>3. ASSUME NEW i \in Invoices, NEW c \in Coins, NEW n \in Payments, Receive(i, c, n)
      PROVE  InvoicesIInv'
  BY <1>3, ChainInv
<1>4. ASSUME NEW w \in Watchers,
             \/ WatcherStep(w) \/ WatcherStops(w)
             \/ \E i \in Invoices : ListOpenInvoice(w, i)
      PROVE  InvoicesIInv'
  BY <1>4, ListInv, FetchDepositsInv, ScanEndsInv, LockInv, PointInv, DetectInv, ConfirmInv, ConfirmNothingInv
     DEF WatcherStep
<1>5. ASSUME NEW p \in DOMAIN posts, DeliveryStep(p) \/ DeliveryStops(p) PROVE InvoicesIInv'
  BY <1>5, PostSignedInv, RecordInv DEF DeliveryStep
<1>6. CASE UNCHANGED invoiceVars
  BY <1>6, InvoicesStutter
<1> QED BY <1>1, <1>2, <1>3, <1>4, <1>5, <1>6, ExpireInv DEF InvoicesNext

\* The address a merchant was given is watched.
LEMMA WatchedIsShown ==
    ASSUME InvoicesAssumption, InvoicesIInv PROVE ShownIsWatched
<1> SUFFICES ASSUME NEW i \in Invoices, i \in shown, invFaults = 0
             PROVE  opening[i] # NoCoin \/ Contains(addrs[i], inv[i].coin)
  BY DEF ShownIsWatched
<1>1. Rows /\ Watched
  BY InvoiceParts
<1>2. inv[i].status # "NONE" /\ inv[i].coin \in Coins /\ NoCoin \notin Coins
  BY <1>1 DEF Rows, InvoicesAssumption, NoCoin
<1>3. inv[i].coin = opening[i] \/ Contains(addrs[i], inv[i].coin)
  BY <1>1, <1>2 DEF Watched
<1> QED BY <1>2, <1>3

\* A merchant is credited once for an invoice, in one coin, when it is confirmed; by the
\* watcher for what an address received; and the addresses given out are watched.
THEOREM InvoicesInvariant == InvoicesSpec => []InvoicesInv
<1>1. InvoicesInit => InvoicesIInv
  BY InvoicesAssumption, InvoicesInitInv
<1>2. InvoicesIInv /\ [InvoicesNext]_invoiceVars => InvoicesIInv'
  BY InvoicesAssumption, InvoicesStep
<1>3. InvoicesIInv => InvoicesInv
  BY InvoicesAssumption, WatchedIsShown DEF InvoicesIInv, InvoicesInv
<1> QED BY <1>1, <1>2, <1>3, PTL DEF InvoicesSpec

\* A row whose status moves as documented, and whose coin, once it is locked, follows
\* what arrived.
Moved(i) ==
    /\ inv'[i].status # inv[i].status => <<inv[i].status, inv'[i].status>> \in Onward
    /\ inv[i].locked /\ inv'[i].coin # inv[i].coin => chain[i][inv'[i].coin].seen > 0

\* What leaves status and coin of all rows but one, moves if that one does.
LEMMA OneMoves ==
    ASSUME NEW i \in Invoices, Moved(i), \A j \in Invoices \ {i} : inv'[j] = inv[j] PROVE Moves
<1>1. \A j \in Invoices \ {i} : Moved(j)
  BY DEF Moved
<1> QED BY <1>1 DEF Moves, Moved

\* So does what leaves them of all.
LEMMA NoneMoves == ASSUME SameRows PROVE Moves
  BY DEF SameRows, Moves

\* The moves of the merchant, the customer and time.
LEMMA OrdersMove ==
    ASSUME InvoicesAssumption, InvoicesIInv, NEW i \in Invoices,
           \/ InsertInvoice(i) \/ FallDue(i) \/ PayInvoiceWithBalance(i)
           \/ \E c \in Coins : SelectCoin(i, c)
    PROVE  Moves
<1>1. inv \in [Invoices -> RowType] /\ inv[i] \in RowType /\ (inv[i].status = "NONE" => ~ inv[i].locked)
  BY InvoiceParts DEF Rows
<1>2. CASE InsertInvoice(i)
  <2>1. PICK c \in FirstCoins : inv' = [inv EXCEPT ![i] = Opened(c)]
    BY <1>2 DEF InsertInvoice
  <2>2. Opened(c).status = "PENDING"
    BY DEF Opened, NoRow
  <2>3. inv[i].status = "NONE" /\ inv'[i] = Opened(c) /\ \A j \in Invoices \ {i} : inv'[j] = inv[j]
    BY <1>1, <1>2, <2>1 DEF InsertInvoice
  <2>4. Moved(i)
    BY <1>1, <2>2, <2>3 DEF Moved, Onward
  <2> QED BY <2>3, <2>4, OneMoves
<1>3. CASE FallDue(i)
  <2>1. PICK row : row = [inv[i] EXCEPT !.due = TRUE]
    OBVIOUS
  <2>2. inv' = [inv EXCEPT ![i] = row]
    BY <1>1, <1>3, <2>1 DEF FallDue
  <2>3. row.status = inv[i].status /\ row.coin = inv[i].coin
    <3> HIDE DEF RowType
    <3> QED BY <1>1, <2>1, RowKeeps
  <2>4. inv'[i] = row /\ \A j \in Invoices \ {i} : inv'[j] = inv[j]
    BY <1>1, <2>2
  <2> QED BY <2>3, <2>4, OneMoves DEF Moved
<1>4. CASE PayInvoiceWithBalance(i)
  <2>1. Settles(i, "balance")
    BY <1>1, <1>4 DEF Settles, PayInvoiceWithBalance, Payable
  <2>2. /\ \A j \in Invoices \ {i} : inv'[j] = inv[j]
        /\ inv'[i].status = "CONFIRMED" /\ inv'[i].coin = inv[i].coin
    BY <2>1, SettledRow
  <2>3. Moved(i)
    BY <2>1, <2>2 DEF Moved, Onward, Settles
  <2> QED BY <2>2, <2>3, OneMoves
<1>5. ASSUME NEW c \in Coins, SelectCoin(i, c) PROVE Moves
  <2>1. PICK row : row = [inv[i] EXCEPT !.coin = c]
    OBVIOUS
  <2>2. inv' = [inv EXCEPT ![i] = row] /\ ~ inv[i].locked
    BY <1>1, <1>5, <2>1 DEF SelectCoin, Selectable
  <2>3. row.status = inv[i].status
    <3> HIDE DEF RowType
    <3> QED BY <1>1, <2>1, RowKeeps
  <2>4. inv'[i] = row /\ \A j \in Invoices \ {i} : inv'[j] = inv[j]
    BY <1>1, <2>2
  <2> QED BY <2>2, <2>3, <2>4, OneMoves DEF Moved
<1> QED BY <1>2, <1>3, <1>4, <1>5

\* The moves of a watcher.
LEMMA WatcherMoves ==
    ASSUME InvoicesAssumption, InvoicesIInv, NEW w \in Watchers,
           LockCoin(w) \/ PointSelectionAt(w) \/ MarkInvoiceDetected(w) \/ ConfirmInvoice(w)
    PROVE  Moves
<1> DEFINE i == tick[w].inv
<1>1. tick[w].at \in Found /\ tick[w].at # "idle"
  BY DEF LockCoin, PointSelectionAt, MarkInvoiceDetected, ConfirmInvoice, At, Found
<1>2. /\ i \in Invoices /\ Paid(w) \in Coins /\ chain[i][Paid(w)].seen > 0
      /\ inv \in [Invoices -> RowType] /\ inv[i] \in RowType
  BY <1>1, ScanHolds, InvoiceParts
<1>3. CASE LockCoin(w)
  <2>1. PICK row : row = [inv[i] EXCEPT !.locked = TRUE]
    OBVIOUS
  <2>2. inv' = [inv EXCEPT ![i] = row]
    BY <1>2, <1>3, <2>1 DEF LockCoin
  <2>3. row.status = inv[i].status /\ row.coin = inv[i].coin
    <3> HIDE DEF RowType, i
    <3> QED BY <1>2, <2>1, RowKeeps
  <2>4. inv'[i] = row /\ \A j \in Invoices \ {i} : inv'[j] = inv[j]
    BY <1>2, <2>2
  <2> QED BY <1>2, <2>3, <2>4, OneMoves DEF Moved
<1>4. CASE PointSelectionAt(w)
  <2>1. CASE inv' = inv
    BY <2>1, NoneMoves DEF SameRows
  <2>2. CASE inv' = [inv EXCEPT ![i].coin = Paid(w)]
    <3>1. PICK row : row = [inv[i] EXCEPT !.coin = Paid(w)]
      OBVIOUS
    <3>2. inv' = [inv EXCEPT ![i] = row]
      BY <1>2, <2>2, <3>1
    <3>3. row.status = inv[i].status /\ row.coin = Paid(w)
      <4> HIDE DEF RowType, i
      <4> QED BY <1>2, <3>1, RowKeeps
    <3>4. inv'[i] = row /\ \A j \in Invoices \ {i} : inv'[j] = inv[j]
      BY <1>2, <3>2
    <3> QED BY <1>2, <3>3, <3>4, OneMoves DEF Moved
  <2> QED BY <1>4, <2>1, <2>2 DEF PointSelectionAt
<1>5. CASE MarkInvoiceDetected(w)
  <2>1. PICK s : s = IF inv[i].status \in Open THEN "DETECTED" ELSE inv[i].status
    OBVIOUS
  <2>2. PICK row : row = [inv[i] EXCEPT !.status = s]
    OBVIOUS
  <2>3. inv' = [inv EXCEPT ![i] = row]
    BY <1>2, <1>5, <2>1, <2>2 DEF MarkInvoiceDetected
  <2>4. row.status = s /\ row.coin = inv[i].coin
    <3> HIDE DEF RowType, i
    <3> QED BY <1>2, <2>2, RowKeeps
  <2>5. inv'[i] = row /\ \A j \in Invoices \ {i} : inv'[j] = inv[j]
    BY <1>2, <2>3
  <2>6. s # inv[i].status => <<inv[i].status, s>> \in Onward
    BY <2>1 DEF Onward, Open
  <2>7. Moved(i)
    BY <2>4, <2>5, <2>6 DEF Moved
  <2> QED BY <1>2, <2>5, <2>7, OneMoves
<1>6. CASE ConfirmInvoice(w)
  <2>1. Settles(i, "chain")
    BY <1>2, <1>6 DEF Settles, ConfirmInvoice, Confirmable
  <2>2. /\ \A j \in Invoices \ {i} : inv'[j] = inv[j]
        /\ inv'[i].status = "CONFIRMED" /\ inv'[i].coin = inv[i].coin
    BY <1>2, <2>1, SettledRow
  <2>3. Moved(i)
    BY <2>1, <2>2 DEF Moved, Onward, Settles
  <2> QED BY <1>2, <2>2, <2>3, OneMoves
<1> QED BY <1>3, <1>4, <1>5, <1>6

\* What an attempt leaves on a row does not move it.
LEMMA DeliveriesDoNotMove ==
    ASSUME InvoicesAssumption, InvoicesIInv, NEW p \in DOMAIN posts,
           RecordWebhookDelivery(p) \/ ScheduleWebhookRetry(p)
    PROVE  Moves
<1> DEFINE i == posts[p].inv
<1>1. posts[p] # NoPost
  <2>1. posts[p].stage \in {"record", "schedule"}
    BY DEF RecordWebhookDelivery, ScheduleWebhookRetry
  <2>2. NoPost.stage = "free"
    BY DEF NoPost
  <2> QED BY <2>1, <2>2
<1>2. i \in Invoices /\ inv \in [Invoices -> RowType] /\ inv[i] \in RowType
  BY <1>1, InvoiceParts DEF Shapes, Posting
<1>3. PICK n : n = IF inv[i].tries < MaxWebhooks THEN inv[i].tries + 1 ELSE inv[i].tries
  OBVIOUS
<1>4. PICK row : /\ inv' = [inv EXCEPT ![i] = row]
                 /\ \/ row = [inv[i] EXCEPT !.told = posts[p].ok, !.tries = n]
                    \/ row = [inv[i] EXCEPT !.retry = RetryAgain(posts[p])]
  BY <1>2, <1>3 DEF RecordWebhookDelivery, ScheduleWebhookRetry
<1>5. row.status = inv[i].status /\ row.coin = inv[i].coin
  <2> HIDE DEF RowType, i
  <2>1. CASE row = [inv[i] EXCEPT !.told = posts[p].ok, !.tries = n]
    BY <1>2, <2>1, RowConfirmed
  <2>2. CASE row = [inv[i] EXCEPT !.retry = RetryAgain(posts[p])]
    BY <1>2, <2>2, RowKeeps
  <2> QED BY <1>4, <2>1, <2>2
<1>6. inv'[i] = row /\ \A j \in Invoices \ {i} : inv'[j] = inv[j]
  BY <1>2, <1>4
<1> QED BY <1>2, <1>5, <1>6, OneMoves DEF Moved

\* Every step of an invoice is one that the documentation draws, and once its coin is
\* locked, only money that arrived moves the selection.
THEOREM InvoicesMoveOnward == InvoicesSpec => InvoicesMove
<1>1. InvoicesInit => InvoicesIInv
  BY InvoicesAssumption, InvoicesInitInv
<1>2. InvoicesIInv /\ [InvoicesNext]_invoiceVars => InvoicesIInv'
  BY InvoicesAssumption, InvoicesStep
<1>3. InvoicesIInv /\ [InvoicesNext]_invoiceVars => [Moves]_invoiceVars
  <2> SUFFICES ASSUME InvoicesIInv, InvoicesNext PROVE Moves
    OBVIOUS
  <2>1. ASSUME inv' = inv PROVE Moves
    BY <2>1, NoneMoves DEF SameRows
  <2>2. CASE \E i \in Invoices : \/ InsertInvoice(i) \/ FallDue(i) \/ PayInvoiceWithBalance(i)
                                 \/ \E c \in Coins : SelectCoin(i, c)
    BY <2>2, InvoicesAssumption, OrdersMove
  <2>3. CASE ExpireDueInvoices
    <3>1. \A j \in Invoices : inv'[j] = IF j \in Overdue THEN [inv[j] EXCEPT !.status = "EXPIRED"] ELSE inv[j]
      BY <2>3 DEF ExpireDueInvoices
    <3>2. ASSUME NEW j \in Invoices PROVE Moved(j)
      <4>1. inv[j] \in RowType
        BY InvoiceParts
      <4>2. PICK row : row = [inv[j] EXCEPT !.status = "EXPIRED"]
        OBVIOUS
      <4>3. row.status = "EXPIRED" /\ row.coin = inv[j].coin
        <5> HIDE DEF RowType
        <5> QED BY <4>1, <4>2, RowKeeps
      <4>4. CASE j \in Overdue
        <5>1. inv'[j] = row
          BY <3>1, <4>2, <4>4
        <5> QED BY <4>3, <4>4, <5>1 DEF Moved, Overdue, Onward
      <4>5. CASE j \notin Overdue
        BY <3>1, <4>5 DEF Moved
      <4> QED BY <4>4, <4>5
    <3> QED BY <3>2 DEF Moves, Moved
  <2>4. CASE \E w \in Watchers :
                LockCoin(w) \/ PointSelectionAt(w) \/ MarkInvoiceDetected(w) \/ ConfirmInvoice(w)
    BY <2>4, InvoicesAssumption, WatcherMoves
  <2>5. CASE \E p \in DOMAIN posts : RecordWebhookDelivery(p) \/ ScheduleWebhookRetry(p)
    BY <2>5, InvoicesAssumption, DeliveriesDoNotMove
  <2>6. \/ inv' = inv \/ ExpireDueInvoices
        \/ \E i \in Invoices : \/ InsertInvoice(i) \/ FallDue(i) \/ PayInvoiceWithBalance(i)
                               \/ \E c \in Coins : SelectCoin(i, c)
        \/ \E w \in Watchers :
              LockCoin(w) \/ PointSelectionAt(w) \/ MarkInvoiceDetected(w) \/ ConfirmInvoice(w)
        \/ \E p \in DOMAIN posts : RecordWebhookDelivery(p) \/ ScheduleWebhookRetry(p)
    <3>1. ASSUME NEW i \in Invoices,
                 RegisterAddress(i) \/ ReplayInvoice(i) \/ RedeliverWebhook(i) \/ RequestStops(i) \/ TestWebhook(i)
          PROVE  inv' = inv
      BY <3>1 DEF RegisterAddress, ReplayInvoice, RedeliverWebhook, RequestStops, TestWebhook
    <3>2. ASSUME NEW i \in Invoices, NEW c \in Coins, ShowCoin(i, c) \/ Bury(i, c) \/ \E n \in Payments : Receive(i, c, n)
          PROVE  inv' = inv
      BY <3>2 DEF ShowCoin, Bury, Receive
    <3>3. ASSUME NEW w \in Watchers,
                 \/ ListInvoiceAddresses(w) \/ FetchDeposits(w) \/ ScanEnds(w) \/ ConfirmNothing(w)
                 \/ DispatchWebhook(w) \/ WatcherStops(w) \/ \E i \in Invoices : ListOpenInvoice(w, i)
          PROVE  inv' = inv
      BY <3>3 DEF ListInvoiceAddresses, FetchDeposits, ScanEnds, ConfirmNothing, DispatchWebhook, WatcherStops,
                  ListOpenInvoice
    <3>4. ASSUME NEW p \in DOMAIN posts, PostSigned(p) \/ DeliveryStops(p) PROVE inv' = inv
      BY <3>4 DEF PostSigned, DeliveryStops
    <3> QED BY <3>1, <3>2, <3>3, <3>4 DEF InvoicesNext, WatcherStep, DeliveryStep
  <2> QED BY <2>1, <2>2, <2>3, <2>4, <2>5, <2>6
<1> QED BY <1>1, <1>2, <1>3, PTL DEF InvoicesSpec, InvoicesMove

-------------------------------------------------------------------------------
(***************************************************************************)
(* The outbox.                                                             *)
(***************************************************************************)
\* Each transaction begins once.
BegunOnce == \A i, j \in DOMAIN begun : begun[i] = begun[j] => i = j

\* A batch is of rows to publish, by their age; those up to the next one were sent.
BatchHolds(r) ==
    LET b == hand[r] IN
    /\ \A i \in 1..Len(b.rows) : b.rows[i] \in Unpublished
    /\ \A i, j \in 1..Len(b.rows) : i < j => Older(b.rows[i], b.rows[j])
    /\ \A i \in 1..Len(b.rows) : i < b.next => b.rows[i] \in Handled

\* Of what is older than a row in hand, each was sent, is ahead of it, or was skipped.
NoneForgotten(r) ==
    LET b == hand[r] IN
    \A j \in 1..Len(b.rows) : \A f \in Events : Older(f, b.rows[j]) =>
        f \in Handled \/ <<f, b.rows[j]>> \in skipped \/ \E i \in 1..(j - 1) : b.rows[i] = f

\* A consumer has events of its aggregate, from transactions that began.
HandledOwn ==
    \A a \in Aggregates : \A n \in 1..Len(handled[a]) :
        handled[a][n] \in ToSet(begun) /\ AggregateOf[handled[a][n]] = a

\* What is older than an event handled was handled, or skipped, in its aggregate.
OlderIsHandled ==
    \A e \in Handled : \A f \in Events :
        Older(f, e) /\ AggregateOf[e] = AggregateOf[f] => f \in Handled \/ <<f, e>> \in skipped

OutboxIInv ==
    /\ OutboxTypeOK
    /\ hand \in [Relays -> [rows : Seq(Events), next : Int]] /\ handled \in [Aggregates -> Seq(Events)]
    /\ BegunOnce /\ HandledOwn /\ OlderIsHandled
    /\ \A r \in Relays : BatchHolds(r) /\ NoneForgotten(r)
    /\ MarkedWasSent /\ OrderedUnlessSkipped

-------------------------------------------------------------------------------
\* The elements of a sequence.
LEMMA Elements ==
    ASSUME NEW S, NEW s \in Seq(S)
    PROVE  /\ DOMAIN s = 1..Len(s) /\ Len(s) \in Nat
           /\ ToSet(s) = {s[i] : i \in 1..Len(s)} /\ ToSet(s) \subseteq S
  BY DEF ToSet

\* What is appended comes last.
LEMMA Appended ==
    ASSUME NEW S, NEW s \in Seq(S), NEW e \in S
    PROVE  /\ Append(s, e) \in Seq(S) /\ Len(Append(s, e)) = Len(s) + 1
           /\ ToSet(Append(s, e)) = ToSet(s) \cup {e}
           /\ \A i \in 1..Len(s) : Append(s, e)[i] = s[i]
           /\ Append(s, e)[Len(s) + 1] = e
<1> DEFINE t == Append(s, e)
<1>1. t \in Seq(S) /\ Len(t) = Len(s) + 1 /\ Len(s) \in Nat
  OBVIOUS
<1>2. (\A i \in 1..Len(s) : t[i] = s[i]) /\ t[Len(s) + 1] = e
  OBVIOUS
<1> HIDE DEF t
<1>3. ASSUME NEW x PROVE x \in ToSet(t) <=> x \in ToSet(s) \cup {e}
  <2>1. x \in ToSet(t) <=> \E i \in 1..(Len(s) + 1) : t[i] = x
    BY <1>1, Elements
  <2>2. x \in ToSet(s) <=> \E i \in 1..Len(s) : s[i] = x
    BY Elements
  <2>3. \A i \in Int : i \in 1..(Len(s) + 1) <=> i \in 1..Len(s) \/ i = Len(s) + 1
    BY <1>1
  <2> QED BY <1>1, <1>2, <2>1, <2>2, <2>3
<1> QED BY <1>1, <1>2, <1>3 DEF t

\* Who precedes whom does not change as transactions begin.
LEMMA OrderKept ==
    ASSUME NEW S, NEW s \in Seq(S), NEW e \in S, e \notin ToSet(s), NEW x, NEW y \in ToSet(s)
    PROVE  Precedes(x, y, Append(s, e)) <=> Precedes(x, y, s)
<1> DEFINE t == Append(s, e)
<1>1. /\ t \in Seq(S) /\ Len(t) = Len(s) + 1 /\ Len(s) \in Nat
      /\ \A i \in 1..Len(s) : t[i] = s[i]
      /\ t[Len(s) + 1] = e
  BY Appended
<1>2. DOMAIN t = 1..(Len(s) + 1) /\ DOMAIN s = 1..Len(s)
  BY <1>1, Elements
<1>3. y # e
  OBVIOUS
<1> HIDE DEF t
<1>4. ASSUME NEW i \in 1..(Len(s) + 1), NEW j \in 1..(Len(s) + 1), i < j, t[i] = x, t[j] = y
      PROVE  i \in 1..Len(s) /\ j \in 1..Len(s) /\ s[i] = x /\ s[j] = y
  <2>1. j # Len(s) + 1
    BY <1>1, <1>3, <1>4
  <2> QED BY <1>1, <1>4, <2>1
<1>5. Precedes(x, y, t) => Precedes(x, y, s)
  BY <1>2, <1>4 DEF Precedes
<1>6. Precedes(x, y, s) => Precedes(x, y, t)
  BY <1>1, <1>2 DEF Precedes
<1> QED BY <1>5, <1>6 DEF t

\* Of two, one precedes the other and not the other way round.
LEMMA OneOrder ==
    ASSUME begun \in Seq(Events), BegunOnce, NEW e, NEW f
    PROVE  ~ (Older(e, f) /\ Older(f, e)) /\ ~ Older(e, e)
<1>1. DOMAIN begun = 1..Len(begun) /\ Len(begun) \in Nat
  BY Elements
<1>2. ASSUME NEW i \in DOMAIN begun, NEW j \in DOMAIN begun, NEW k \in DOMAIN begun, NEW l \in DOMAIN begun,
             i < j, k < l, begun[i] = e, begun[j] = f, begun[k] = f, begun[l] = e
      PROVE  FALSE
  <2>1. i = l /\ j = k
    BY <1>2 DEF BegunOnce
  <2> QED BY <1>1, <1>2, <2>1
<1>3. ASSUME NEW i \in DOMAIN begun, NEW j \in DOMAIN begun, i < j, begun[i] = e, begun[j] = e
      PROVE  FALSE
  <2>1. i = j
    BY <1>3 DEF BegunOnce
  <2> QED BY <1>1, <1>3, <2>1
<1> QED BY <1>2, <1>3 DEF Older, Precedes

\* An event was handled if the consumer of its aggregate has it.
LEMMA HandledBy ==
    ASSUME OutboxIInv, NEW e \in Events
    PROVE  e \in Handled <=> e \in ToSet(handled[AggregateOf[e]])
<1>1. AggregateOf[e] \in Aggregates
  BY DEF Aggregates
<1>2. \A a \in Aggregates : e \in ToSet(handled[a]) => AggregateOf[e] = a
  <2>1. \A a \in Aggregates : handled[a] \in Seq(Events)
    BY DEF OutboxIInv
  <2> QED BY <2>1, Elements DEF OutboxIInv, HandledOwn
<1> QED BY <1>1, <1>2 DEF Handled

-------------------------------------------------------------------------------
\* Before anything was staged.
LEMMA OutboxInitInv == ASSUME OutboxAssumption, OutboxInit PROVE OutboxIInv
<1> USE DEF OutboxInit
<1>1. begun \in Seq(Events) /\ begun = <<>> /\ \A a \in Aggregates : handled[a] = <<>> /\ handled[a] \in Seq(Events)
  OBVIOUS
<1>2. \A a \in Aggregates : ToSet(handled[a]) = {}
  BY <1>1 DEF ToSet
<1>3. Handled = {} /\ ToSet(begun) = {}
  BY <1>1, <1>2 DEF Handled, ToSet
<1>4. \A r \in Relays : hand[r] = NoBatch /\ LockedBy(r) = {}
  BY DEF LockedBy, NoBatch, ToSet
<1>5. hand \in [Relays -> [rows : Seq(Events), next : Int]] /\ handled \in [Aggregates -> Seq(Events)]
  BY DEF NoBatch
<1>6. OutboxTypeOK
  <2>1. \A r \in Relays : hand[r].rows = <<>> /\ hand[r].next = 1
    BY <1>4 DEF NoBatch
  <2>2. <<>> \in Seq(Events) /\ Len(<<>>) = 0
    OBVIOUS
  <2>3. \A r \in Relays : hand[r].rows \in Seq(Events) /\ hand[r].next \in 1..(Len(hand[r].rows) + 1)
    <3> SUFFICES ASSUME NEW r \in Relays
                 PROVE  hand[r].rows \in Seq(Events) /\ hand[r].next \in 1..(Len(hand[r].rows) + 1)
      OBVIOUS
    <3>1. hand[r].rows \in Seq(Events) /\ Len(hand[r].rows) = 0
      BY <2>1, <2>2, Zenon
    <3>2. hand[r].next = 1
      BY <2>1
    <3> QED BY <3>1, <3>2
  <2>4. relayFaults \in 0..MaxRelayFaults
    BY DEF OutboxAssumption
  <2> QED BY <1>1, <1>3, <2>3, <2>4 DEF OutboxTypeOK
<1>7. BegunOnce /\ HandledOwn /\ OlderIsHandled
  BY <1>1, <1>3 DEF BegunOnce, HandledOwn, OlderIsHandled
<1>8. \A r \in Relays : BatchHolds(r) /\ NoneForgotten(r)
  BY <1>4 DEF BatchHolds, NoneForgotten, NoBatch
<1>9. MarkedWasSent /\ OrderedUnlessSkipped
  BY <1>2, <1>3, <1>4 DEF MarkedWasSent, OrderedUnlessSkipped
<1> QED BY <1>5, <1>6, <1>7, <1>8, <1>9 DEF OutboxIInv

\* What the invariant gives.
LEMMA OutboxParts ==
    ASSUME OutboxAssumption, OutboxIInv
    PROVE  /\ begun \in Seq(Events) /\ visible \subseteq ToSet(begun) /\ published \subseteq visible
           /\ ToSet(begun) \subseteq Events
           /\ hand \in [Relays -> [rows : Seq(Events), next : Int]]
           /\ \A r \in Relays : hand[r].next \in 1..(Len(hand[r].rows) + 1)
           /\ handled \in [Aggregates -> Seq(Events)]
           /\ skipped \subseteq Events \X Events /\ relayFaults \in 0..MaxRelayFaults
           /\ BegunOnce /\ HandledOwn /\ OlderIsHandled
           /\ \A r \in Relays : BatchHolds(r) /\ NoneForgotten(r)
           /\ MarkedWasSent /\ OrderedUnlessSkipped
           /\ Handled \subseteq ToSet(begun)
<1>1. begun \in Seq(Events) /\ ToSet(begun) \subseteq Events
  BY Elements DEF OutboxIInv, OutboxTypeOK
<1>2. Handled \subseteq ToSet(begun)
  <2>1. \A a \in Aggregates : handled[a] \in Seq(Events)
    BY DEF OutboxIInv
  <2> QED BY <2>1, Elements DEF OutboxIInv, HandledOwn, Handled
<1> QED BY <1>1, <1>2 DEF OutboxIInv, OutboxTypeOK

\* The rows of a relay, as a set.
LEMMA LockedRows ==
    ASSUME OutboxAssumption, OutboxIInv, NEW r \in Relays
    PROVE  /\ LockedBy(r) = {hand[r].rows[i] : i \in 1..Len(hand[r].rows)}
           /\ LockedBy(r) \subseteq Unpublished /\ LockedBy(r) \subseteq ToSet(begun)
<1>1. hand[r].rows \in Seq(Events)
  BY DEF OutboxIInv
<1>2. LockedBy(r) = {hand[r].rows[i] : i \in 1..Len(hand[r].rows)}
  BY <1>1, Elements DEF LockedBy
<1>3. Unpublished \subseteq ToSet(begun)
  BY OutboxParts DEF Unpublished
<1> QED BY <1>2, <1>3, OutboxParts DEF BatchHolds

\* A batch that stays as it was is as the invariant says, if what was sent or
\* skipped is still so and its rows still wait.
LEMMA BatchKept ==
    ASSUME OutboxAssumption, OutboxIInv, NEW r \in Relays, hand'[r] \in {hand[r], NoBatch},
           Handled \subseteq Handled', skipped \subseteq skipped',
           \A f, x \in Events : x \in ToSet(begun) => (Older(f, x)' <=> Older(f, x)),
           hand'[r] = hand[r] => LockedBy(r) \subseteq Unpublished'
    PROVE  BatchHolds(r)' /\ NoneForgotten(r)'
<1>1. BatchHolds(r) /\ NoneForgotten(r) /\ hand[r].rows \in Seq(Events) /\ hand[r].next \in Int
  BY OutboxParts
<1>2. CASE hand'[r] = NoBatch
  BY <1>2 DEF BatchHolds, NoneForgotten, NoBatch
<1>3. CASE hand'[r] = hand[r]
  <2>1. \A i \in 1..Len(hand[r].rows) :
            hand[r].rows[i] \in LockedBy(r) /\ hand[r].rows[i] \in ToSet(begun) /\ hand[r].rows[i] \in Events
    BY LockedRows, OutboxParts
  <2>2. \A i, j \in 1..Len(hand[r].rows) : i < j => Older(hand[r].rows[i], hand[r].rows[j])'
    BY <1>1, <1>3, <2>1 DEF BatchHolds
  <2>3. BatchHolds(r)'
    BY <1>1, <1>3, <2>1, <2>2 DEF BatchHolds
  <2>4. NoneForgotten(r)'
    BY <1>1, <1>3, <2>1 DEF NoneForgotten
  <2> QED BY <2>3, <2>4
<1> QED BY <1>2, <1>3

-------------------------------------------------------------------------------
\* A transaction begins: it is younger than all there are.
LEMMA BeginInv ==
    ASSUME OutboxAssumption, OutboxIInv, NEW e \in Events, Begin(e) PROVE OutboxIInv'
<1>1. /\ e \notin ToSet(begun) /\ begun' = Append(begun, e)
      /\ UNCHANGED <<visible, published, hand, handled, skipped, relayFaults>>
  BY DEF Begin
<1>2. /\ begun' \in Seq(Events) /\ Len(begun') = Len(begun) + 1 /\ Len(begun) \in Nat
      /\ ToSet(begun') = ToSet(begun) \cup {e}
      /\ \A i \in 1..Len(begun) : begun'[i] = begun[i]
      /\ begun'[Len(begun) + 1] = e
  BY <1>1, OutboxParts, Appended
<1>3. \A f, x \in Events : x \in ToSet(begun) => (Older(f, x)' <=> Older(f, x))
  BY <1>1, OutboxParts, OrderKept DEF Older
<1>4. BegunOnce'
  <2>1. DOMAIN begun' = 1..(Len(begun) + 1) /\ DOMAIN begun = 1..Len(begun)
    BY <1>2, OutboxParts, Elements
  <2>2. \A i \in 1..Len(begun) : begun[i] # e
    BY <1>1, <2>1 DEF ToSet
  <2>3. ASSUME NEW i \in 1..(Len(begun) + 1), NEW j \in 1..(Len(begun) + 1), begun'[i] = begun'[j]
        PROVE  i = j
    <3>1. (i \in 1..Len(begun) \/ i = Len(begun) + 1) /\ (j \in 1..Len(begun) \/ j = Len(begun) + 1)
      BY <1>2
    <3>2. ASSUME i \in 1..Len(begun), j \in 1..Len(begun) PROVE i = j
      BY <1>2, <2>1, <2>3, <3>2, OutboxParts DEF BegunOnce
    <3> QED BY <1>2, <2>2, <2>3, <3>1, <3>2
  <2> QED BY <2>1, <2>3 DEF BegunOnce
<1>5. Handled' = Handled /\ Unpublished' = Unpublished
  BY <1>1 DEF Handled, Unpublished
<1>6. \A r \in Relays : BatchHolds(r)' /\ NoneForgotten(r)'
  BY <1>1, <1>3, <1>5, BatchKept, LockedRows
<1>7. OutboxTypeOK' /\ HandledOwn'
  BY <1>1, <1>2, OutboxParts DEF OutboxIInv, OutboxTypeOK, HandledOwn
<1>8. OlderIsHandled'
  <2>1. Handled \subseteq Events
    BY OutboxParts
  <2> QED BY <1>1, <1>3, <1>5, <2>1, OutboxParts DEF OlderIsHandled
<1>9. OrderedUnlessSkipped'
  <2>1. \A a \in Aggregates : ToSet(handled[a]) \subseteq ToSet(begun) /\ ToSet(handled[a]) \subseteq Events
    BY OutboxParts DEF Handled
  <2>2. \A a \in Aggregates : \A x, f \in ToSet(handled[a]) :
            Older(f, x) /\ Precedes(x, f, handled[a]) => <<f, x>> \in skipped
    BY OutboxParts DEF OrderedUnlessSkipped, Older
  <2>3. \A a \in Aggregates : \A x, f \in ToSet(handled[a]) :
            Older(f, x)' /\ Precedes(x, f, handled[a]) => <<f, x>> \in skipped
    BY <1>3, <2>1, <2>2
  <2> QED BY <1>1, <2>3 DEF OrderedUnlessSkipped, Older
<1>10. MarkedWasSent'
  BY <1>1, <1>5, OutboxParts DEF MarkedWasSent, LockedBy
<1> QED BY <1>1, <1>4, <1>6, <1>7, <1>8, <1>9, <1>10, OutboxParts DEF OutboxIInv

\* A step on rows and hands alone: some hands are emptied, rows become visible or
\* are marked, and what no consumer got stays.
LEMMA QuietInv ==
    ASSUME OutboxAssumption, OutboxIInv, UNCHANGED <<begun, handled, skipped>>,
           visible \subseteq visible', visible' \subseteq ToSet(begun),
           published \subseteq published', published' \subseteq visible', published' \subseteq Handled,
           relayFaults' \in 0..MaxRelayFaults,
           hand' \in [Relays -> [rows : Seq(Events), next : Int]],
           \A r \in Relays : \/ hand'[r] = NoBatch
                             \/ hand'[r] = hand[r] /\ LockedBy(r) \cap published' = {}
    PROVE  OutboxIInv'
<1>1. Handled' = Handled /\ \A f, x : Older(f, x)' <=> Older(f, x)
  BY DEF Handled, Older
<1>2. \A r \in Relays : hand'[r] = hand[r] => LockedBy(r) \subseteq Unpublished'
  <2> SUFFICES ASSUME NEW r \in Relays, hand'[r] = hand[r] PROVE LockedBy(r) \subseteq Unpublished'
    OBVIOUS
  <2>1. LockedBy(r) \subseteq visible
    BY LockedRows DEF Unpublished
  <2>2. CASE hand'[r] = NoBatch
    BY <2>2 DEF LockedBy, NoBatch, ToSet
  <2>3. CASE LockedBy(r) \cap published' = {}
    BY <2>1, <2>3 DEF Unpublished
  <2> QED BY <2>2, <2>3
<1>3. \A r \in Relays : BatchHolds(r)' /\ NoneForgotten(r)'
  BY <1>1, <1>2, BatchKept
<1>4. OutboxTypeOK'
  BY OutboxParts DEF OutboxTypeOK, OutboxIInv, NoBatch
<1>5. BegunOnce' /\ HandledOwn' /\ OlderIsHandled' /\ OrderedUnlessSkipped'
  BY <1>1, OutboxParts DEF BegunOnce, HandledOwn, OlderIsHandled, OrderedUnlessSkipped
<1>6. MarkedWasSent'
  <2>1. \A r \in Relays : LockedBy(r)' \subseteq LockedBy(r)
    BY DEF LockedBy, NoBatch, ToSet
  <2> QED BY <1>1, <2>1, OutboxParts DEF MarkedWasSent
<1> QED BY <1>3, <1>4, <1>5, <1>6, OutboxParts DEF OutboxIInv

\* A row is committed, after younger ones maybe.
LEMMA CommitStagedInv ==
    ASSUME OutboxAssumption, OutboxIInv, NEW e \in Events, CommitStaged(e) PROVE OutboxIInv'
<1>1. \A r \in Relays : LockedBy(r) \cap published = {}
  BY LockedRows DEF Unpublished
<1> QED BY <1>1, OutboxParts, QuietInv DEF CommitStaged, MarkedWasSent

\* A relay lets go of its rows.
LEMMA DropInv ==
    ASSUME OutboxAssumption, OutboxIInv, NEW r \in Relays, GiveUp(r),
           UNCHANGED <<begun, visible, published, handled, skipped>>,
           relayFaults' \in 0..MaxRelayFaults
    PROVE  OutboxIInv'
<1>1. \A q \in Relays : LockedBy(q) \cap published = {}
  BY LockedRows DEF Unpublished
<1>2. NoBatch \in [rows : Seq(Events), next : Int]
  BY DEF NoBatch
<1>3. /\ hand' \in [Relays -> [rows : Seq(Events), next : Int]]
      /\ \A q \in Relays : hand'[q] \in {NoBatch, hand[q]}
  BY <1>2, OutboxParts DEF GiveUp
<1> QED BY <1>1, <1>3, OutboxParts, QuietInv DEF MarkedWasSent

\* The transaction that locked a batch marks all of it.
LEMMA CommitBatchInv ==
    ASSUME OutboxAssumption, OutboxIInv, NEW r \in Relays, CommitBatch(r) PROVE OutboxIInv'
<1>1. /\ hand[r].next > Len(hand[r].rows) /\ published' = published \cup LockedBy(r)
      /\ hand' = [hand EXCEPT ![r] = NoBatch]
      /\ UNCHANGED <<begun, visible, handled, skipped, relayFaults>>
  <2>1. hand[r].next \in Int /\ Len(hand[r].rows) \in Int
    BY OutboxParts
  <2> QED BY <2>1 DEF CommitBatch, Publishing
<1>2. LockedBy(r) \subseteq Handled
  <2>1. \A i \in 1..Len(hand[r].rows) : i < hand[r].next
    BY <1>1, OutboxParts
  <2> QED BY <2>1, LockedRows, OutboxParts DEF BatchHolds
<1>3. LockedBy(r) \subseteq visible
  BY LockedRows DEF Unpublished
<1>4. \A q \in Relays : q # r => LockedBy(q) \cap published' = {}
  BY <1>1, LockedRows, OutboxParts DEF MarkedWasSent, Unpublished
<1>5. NoBatch \in [rows : Seq(Events), next : Int]
  BY DEF NoBatch
<1>6. /\ hand' \in [Relays -> [rows : Seq(Events), next : Int]]
      /\ \A q \in Relays : hand'[q] = NoBatch \/ (q # r /\ hand'[q] = hand[q])
  BY <1>1, <1>5, OutboxParts
<1> QED BY <1>1, <1>2, <1>3, <1>4, <1>6, OutboxParts, QuietInv DEF MarkedWasSent

-------------------------------------------------------------------------------
\* A relay takes the oldest rows that are free: what is older and not among them was
\* sent, or is skipped.
LEMMA FetchInv ==
    ASSUME OutboxAssumption, OutboxIInv, NEW r \in Relays, FetchBatch(r) PROVE OutboxIInv'
<1>0. PICK n \in 1..BatchSize : \E rows \in [1..n -> Free] :
          /\ Oldest(rows)
          /\ hand' = [hand EXCEPT ![r] = [rows |-> rows, next |-> 1]]
          /\ skipped' = skipped \cup
                {p \in Events \X ToSet(rows) :
                    Precedes(p[1], p[2], begun) /\ p[1] \notin published \cup Free}
  BY DEF FetchBatch
<1>1. PICK rows \in [1..n -> Free] :
          /\ Oldest(rows)
          /\ hand' = [hand EXCEPT ![r] = [rows |-> rows, next |-> 1]]
          /\ skipped' = skipped \cup
                {p \in Events \X ToSet(rows) :
                    Precedes(p[1], p[2], begun) /\ p[1] \notin published \cup Free}
  BY <1>0
<1>2. UNCHANGED <<begun, visible, published, handled, relayFaults>>
  BY DEF FetchBatch
<1>3. Free \subseteq Unpublished /\ Unpublished \subseteq ToSet(begun) /\ ToSet(begun) \subseteq Events
  BY OutboxParts DEF Free, Unpublished
<1>4. /\ rows \in Seq(Events) /\ Len(rows) = n /\ n \in Nat \ {0}
      /\ \A i \in 1..n : rows[i] \in Free
  <2>1. n \in Nat \ {0}
    BY DEF OutboxAssumption
  <2>2. rows \in [1..n -> Events]
    BY <1>3
  <2> QED BY <2>1, <2>2
<1>5. ToSet(rows) = {rows[i] : i \in 1..n} /\ ToSet(rows) \subseteq Free /\ DOMAIN rows = 1..n
  BY <1>4 DEF ToSet
<1>6. Handled' = Handled /\ Unpublished' = Unpublished /\ \A f, x : Older(f, x)' <=> Older(f, x)
  BY <1>2 DEF Handled, Unpublished, Older
<1>7. skipped \subseteq skipped' /\ skipped' \subseteq Events \X Events
  BY <1>1, <1>3, <1>5, OutboxParts
<1>8. /\ hand' \in [Relays -> [rows : Seq(Events), next : Int]]
      /\ hand'[r] = [rows |-> rows, next |-> 1]
      /\ \A q \in Relays \ {r} : hand'[q] = hand[q]
  BY <1>1, <1>4, OutboxParts
<1>9. BatchHolds(r)'
  BY <1>1, <1>3, <1>4, <1>5, <1>6, <1>8 DEF BatchHolds, Oldest
<1>10. NoneForgotten(r)'
  <2>1. ASSUME NEW j \in 1..n, NEW f \in Events, Older(f, rows[j])
        PROVE  f \in Handled \/ <<f, rows[j]>> \in skipped' \/ \E i \in 1..(j - 1) : rows[i] = f
    <3>1. CASE f \in published
      BY <3>1, OutboxParts DEF MarkedWasSent
    <3>2. CASE f \notin published \cup Free
      <4>1. <<f, rows[j]>> \in Events \X ToSet(rows)
        BY <1>5, <2>1
      <4>2. Precedes(f, rows[j], begun)
        BY <2>1 DEF Older
      <4> QED BY <1>1, <3>2, <4>1, <4>2
    <3>3. CASE f \in Free
      <4>1. ~ Older(rows[j], f) /\ f # rows[j]
        BY <2>1, OneOrder, OutboxParts
      <4>2. f \in ToSet(rows)
        BY <1>1, <1>5, <2>1, <3>3, <4>1 DEF Oldest
      <4>3. PICK i \in 1..n : rows[i] = f
        BY <1>5, <4>2
      <4>4. ~ (j < i) /\ i # j
        BY <1>1, <1>5, <2>1, <4>1, <4>3 DEF Oldest
      <4>5. i \in 1..(j - 1)
        BY <1>4, <2>1, <4>3, <4>4
      <4> QED BY <4>3, <4>5
    <3> QED BY <3>1, <3>2, <3>3
  <2> QED BY <1>4, <1>6, <1>8, <2>1 DEF NoneForgotten
<1>11. \A q \in Relays : BatchHolds(q)' /\ NoneForgotten(q)'
  <2>1. ASSUME NEW q \in Relays \ {r} PROVE BatchHolds(q)' /\ NoneForgotten(q)'
    BY <1>6, <1>7, <1>8, <2>1, BatchKept, LockedRows
  <2> QED BY <1>9, <1>10, <2>1
<1>12. OutboxTypeOK'
  <2>1. hand'[r].rows \in Seq(Events) /\ hand'[r].next \in 1..(Len(hand'[r].rows) + 1)
    <3>1. hand'[r].rows = rows /\ hand'[r].next = 1
      BY <1>8
    <3> QED BY <1>4, <3>1
  <2>2. \A q \in Relays \ {r} : hand'[q].rows \in Seq(Events) /\ hand'[q].next \in 1..(Len(hand'[q].rows) + 1)
    BY <1>8, OutboxParts
  <2> QED BY <1>2, <2>1, <2>2, <1>7, <2>1, OutboxParts DEF OutboxTypeOK
<1>13. BegunOnce' /\ HandledOwn' /\ OlderIsHandled' /\ OrderedUnlessSkipped'
  BY <1>2, <1>6, <1>7, OutboxParts DEF BegunOnce, HandledOwn, OlderIsHandled, OrderedUnlessSkipped
<1>14. MarkedWasSent'
  <2>1. LockedBy(r)' \subseteq Free /\ \A q \in Relays \ {r} : LockedBy(q)' = LockedBy(q)
    BY <1>5, <1>8 DEF LockedBy
  <2>2. \A q \in Relays : Free \cap LockedBy(q) = {}
    BY DEF Free
  <2>3. published' \subseteq Handled'
    BY <1>2, <1>6, OutboxParts DEF MarkedWasSent
  <2>4. \A p, q \in Relays : p # q => LockedBy(p) \cap LockedBy(q) = {}
    BY OutboxParts DEF MarkedWasSent
  <2>5. ASSUME NEW p \in Relays, NEW q \in Relays, p # q PROVE LockedBy(p)' \cap LockedBy(q)' = {}
    <3>1. CASE p = r
      <4>1. LockedBy(p)' \subseteq Free /\ LockedBy(q)' = LockedBy(q) /\ Free \cap LockedBy(q) = {}
        BY <2>1, <2>2, <2>5, <3>1
      <4> QED BY <4>1
    <3>2. CASE q = r
      <4>1. LockedBy(q)' \subseteq Free /\ LockedBy(p)' = LockedBy(p) /\ Free \cap LockedBy(p) = {}
        BY <2>1, <2>2, <2>5, <3>2
      <4> QED BY <4>1
    <3>3. CASE p # r /\ q # r
      <4>1. LockedBy(q)' = LockedBy(q) /\ LockedBy(p)' = LockedBy(p)
        BY <2>1, <3>3
      <4> QED BY <2>4, <2>5, <4>1
    <3> QED BY <3>1, <3>2, <3>3
  <2> QED BY <2>3, <2>5 DEF MarkedWasSent
<1> QED BY <1>2, <1>8, <1>11, <1>12, <1>13, <1>14, OutboxParts DEF OutboxIInv

\* The row a relay has come to.
LEMMA CurrentRow ==
    ASSUME OutboxAssumption, OutboxIInv, NEW r \in Relays, Publishing(r)
    PROVE  /\ hand[r].next \in 1..Len(hand[r].rows) /\ Current(r) = hand[r].rows[hand[r].next]
           /\ Current(r) \in Events /\ Current(r) \in LockedBy(r) /\ Current(r) \in ToSet(begun)
           /\ AggregateOf[Current(r)] \in Aggregates
           /\ \A f \in Events : Older(f, Current(r)) => f \in Handled \/ <<f, Current(r)>> \in skipped
<1>1. hand[r].next \in 1..Len(hand[r].rows) /\ Len(hand[r].rows) \in Nat
  BY OutboxParts DEF Publishing
<1>2. Current(r) \in LockedBy(r) /\ Current(r) \in ToSet(begun) /\ Current(r) \in Events
  BY <1>1, LockedRows, OutboxParts DEF Current
<1>3. ASSUME NEW i \in 1..(hand[r].next - 1) PROVE hand[r].rows[i] \in Handled
  <2>1. i \in 1..Len(hand[r].rows) /\ i < hand[r].next
    BY <1>1
  <2>2. BatchHolds(r)
    BY OutboxParts
  <2> QED BY <2>1, <2>2 DEF BatchHolds
<1>4. \A f \in Events : Older(f, Current(r)) => f \in Handled \/ <<f, Current(r)>> \in skipped
  <2>1. NoneForgotten(r)
    BY OutboxParts
  <2> QED BY <1>1, <1>3, <2>1 DEF NoneForgotten, Current
<1> QED BY <1>1, <1>2, <1>4 DEF Current, Aggregates

\* A record reaches the consumer of its aggregate: it was handled before, or is now.
LEMMA DeliverHandled ==
    ASSUME OutboxAssumption, OutboxIInv, NEW r \in Relays, Publishing(r), Deliver(Current(r)),
           UNCHANGED <<begun, skipped>>
    PROVE  /\ handled' \in [Aggregates -> Seq(Events)] /\ Handled' = Handled \cup {Current(r)}
           /\ HandledOwn' /\ OlderIsHandled' /\ OrderedUnlessSkipped'
<1> DEFINE e == Current(r)
           a == AggregateOf[e]
<1>1. /\ e \in Events /\ e \in ToSet(begun) /\ a \in Aggregates
      /\ \A f \in Events : Older(f, e) => f \in Handled \/ <<f, e>> \in skipped
  BY CurrentRow
<1>2. handled[a] \in Seq(Events)
  BY <1>1, OutboxParts
<1>3. handled' = [handled EXCEPT ![a] = IF e \in ToSet(handled[a]) THEN handled[a] ELSE Append(handled[a], e)]
  BY DEF Deliver
<1> HIDE DEF e, a
<1>4. CASE e \in ToSet(handled[a])
  <2>1. handled' = handled
    BY <1>1, <1>3, <1>4, OutboxParts
  <2>2. e \in Handled
    BY <1>1, <1>4 DEF Handled
  <2>3. Handled' = Handled
    BY <2>1 DEF Handled
  <2> QED BY <2>1, <2>2, <2>3, OutboxParts DEF HandledOwn, OlderIsHandled, OrderedUnlessSkipped, Older, e
<1>5. CASE e \notin ToSet(handled[a])
  <2>1. handled' = [handled EXCEPT ![a] = Append(handled[a], e)]
    BY <1>3, <1>5
  <2>2. /\ handled' \in [Aggregates -> Seq(Events)] /\ handled'[a] = Append(handled[a], e)
        /\ \A b \in Aggregates \ {a} : handled'[b] = handled[b]
    BY <1>1, <1>2, <2>1, OutboxParts
  <2>3. /\ Len(handled'[a]) = Len(handled[a]) + 1 /\ Len(handled[a]) \in Nat
        /\ ToSet(handled'[a]) = ToSet(handled[a]) \cup {e}
        /\ \A i \in 1..Len(handled[a]) : handled'[a][i] = handled[a][i]
        /\ handled'[a][Len(handled[a]) + 1] = e
    BY <1>1, <1>2, <2>2, Appended
  <2>4. Handled' = Handled \cup {e}
    BY <1>1, <2>2, <2>3 DEF Handled
  <2>5. \A f, x : Older(f, x)' <=> Older(f, x)
    BY DEF Older
  <2>6. HandledOwn'
    <3>1. ASSUME NEW b \in Aggregates, NEW n \in 1..Len(handled'[b])
          PROVE  handled'[b][n] \in ToSet(begun) /\ AggregateOf[handled'[b][n]] = b
      <4>1. CASE b # a
        BY <2>2, <3>1, <4>1, OutboxParts DEF HandledOwn
      <4>2. CASE b = a
        <5>1. n \in 1..Len(handled[a]) \/ n = Len(handled[a]) + 1
          BY <2>3, <3>1, <4>2
        <5> QED BY <1>1, <2>3, <4>2, <5>1, OutboxParts DEF HandledOwn, a
      <4> QED BY <4>1, <4>2
    <3> QED BY <3>1 DEF HandledOwn
  <2>7. OlderIsHandled'
    <3>1. ASSUME NEW x \in Handled \cup {e}, NEW f \in Events, Older(f, x), AggregateOf[x] = AggregateOf[f]
          PROVE  f \in Handled \/ <<f, x>> \in skipped
      BY <1>1, <3>1, OutboxParts DEF OlderIsHandled
    <3> QED BY <2>4, <2>5, <3>1 DEF OlderIsHandled
  <2>8. OrderedUnlessSkipped'
    <3>1. ASSUME NEW b \in Aggregates, NEW x \in ToSet(handled'[b]), NEW f \in ToSet(handled'[b]),
                 Older(f, x), Precedes(x, f, handled'[b])
          PROVE  <<f, x>> \in skipped
      <4>1. CASE b # a
        BY <2>2, <3>1, <4>1, OutboxParts DEF OrderedUnlessSkipped, Older
      <4>2. CASE b = a /\ f \in ToSet(handled[a])
        <5>1. Precedes(x, f, handled[a])
          BY <1>1, <1>2, <1>5, <2>2, <3>1, <4>2, OrderKept
        <5>2. x \in ToSet(handled[a])
          BY <5>1 DEF Precedes, ToSet
        <5> QED BY <1>1, <3>1, <4>2, <5>1, <5>2, OutboxParts DEF OrderedUnlessSkipped, Older
      <4>3. CASE b = a /\ f = e
        <5>1. x # e
          BY <3>1, <4>3, OneOrder, OutboxParts
        <5>2. x \in ToSet(handled[a])
          BY <2>3, <3>1, <4>3, <5>1
        <5>3. x \in Events /\ x \in Handled /\ AggregateOf[x] = a
          <6>1. PICK n \in 1..Len(handled[a]) : handled[a][n] = x
            BY <1>2, <5>2, Elements
          <6> QED BY <1>1, <5>2, <6>1, OutboxParts DEF HandledOwn, Handled
        <5>4. e \notin Handled
          BY <1>1, <1>5, HandledBy DEF a
        <5> QED BY <1>1, <3>1, <4>3, <5>3, <5>4, OutboxParts DEF OlderIsHandled, a
      <4>4. f \in ToSet(handled[a]) \/ f = e \/ b # a
        BY <2>3, <3>1
      <4> QED BY <4>1, <4>2, <4>3, <4>4
    <3> QED BY <2>5, <3>1 DEF OrderedUnlessSkipped, Older
  <2> QED BY <2>2, <2>4, <2>6, <2>7, <2>8 DEF e
<1> QED BY <1>4, <1>5

\* A record is acknowledged: the relay goes on to its next row.
LEMMA PublishInv ==
    ASSUME OutboxAssumption, OutboxIInv, NEW r \in Relays, Publish(r) PROVE OutboxIInv'
<1>1. /\ Publishing(r) /\ Deliver(Current(r)) /\ hand' = [hand EXCEPT ![r].next = @ + 1]
      /\ UNCHANGED <<begun, visible, published, skipped, relayFaults>>
  BY DEF Publish
<1>2. /\ handled' \in [Aggregates -> Seq(Events)] /\ Handled' = Handled \cup {Current(r)}
      /\ HandledOwn' /\ OlderIsHandled' /\ OrderedUnlessSkipped'
  BY <1>1, DeliverHandled
<1>3. /\ hand' \in [Relays -> [rows : Seq(Events), next : Int]]
      /\ hand'[r].rows = hand[r].rows /\ hand'[r].next = hand[r].next + 1
      /\ \A q \in Relays \ {r} : hand'[q] = hand[q]
  <2> DEFINE Hand == [rows : Seq(Events), next : Int]
  <2>1. hand \in [Relays -> Hand] /\ hand[r] \in Hand
    BY OutboxParts
  <2>2. [hand[r] EXCEPT !.next = @ + 1] \in Hand
    BY <2>1
  <2>3. hand' = [hand EXCEPT ![r] = [hand[r] EXCEPT !.next = @ + 1]]
    BY <1>1, <2>1
  <2>4. hand'[r] = [hand[r] EXCEPT !.next = @ + 1]
    BY <2>1, <2>3
  <2>5. hand' \in [Relays -> Hand] /\ \A q \in Relays \ {r} : hand'[q] = hand[q]
    <3> HIDE DEF Hand
    <3> QED BY <2>1, <2>2, <2>3
  <2> QED BY <2>1, <2>4, <2>5
<1>4. /\ hand[r].next \in 1..Len(hand[r].rows) /\ Len(hand[r].rows) \in Nat
      /\ Current(r) = hand[r].rows[hand[r].next]
  BY <1>1, CurrentRow, OutboxParts
<1>5. /\ \A f, x : Older(f, x)' <=> Older(f, x)
      /\ Unpublished' = Unpublished /\ \A q \in Relays : LockedBy(q)' = LockedBy(q)
  BY <1>1, <1>3 DEF Older, Unpublished, LockedBy
<1>6. BatchHolds(r)'
  <2>1. \A i \in 1..Len(hand[r].rows) : i < hand[r].next + 1 => i < hand[r].next \/ i = hand[r].next
    BY <1>4
  <2>2. \A i \in 1..Len(hand[r].rows) : i < hand[r].next + 1 => hand[r].rows[i] \in Handled'
    BY <1>2, <1>4, <2>1, OutboxParts DEF BatchHolds
  <2>3. BatchHolds(r)
    BY OutboxParts
  <2> QED BY <1>3, <1>5, <2>2, <2>3 DEF BatchHolds
<1>7. NoneForgotten(r)'
  <2>1. NoneForgotten(r)
    BY OutboxParts
  <2> QED BY <1>1, <1>2, <1>3, <1>5, <2>1 DEF NoneForgotten
<1>8. \A q \in Relays : BatchHolds(q)' /\ NoneForgotten(q)'
  <2>1. ASSUME NEW q \in Relays \ {r} PROVE BatchHolds(q)' /\ NoneForgotten(q)'
    BY <1>1, <1>2, <1>3, <1>5, BatchKept, LockedRows
  <2> QED BY <1>6, <1>7, <2>1
<1>9. OutboxTypeOK'
  <2>1. \A q \in Relays : hand'[q].rows \in Seq(Events) /\ hand'[q].next \in 1..(Len(hand'[q].rows) + 1)
    BY <1>3, <1>4, OutboxParts
  <2> QED BY <1>1, <1>2, <2>1, OutboxParts DEF OutboxTypeOK
<1>10. BegunOnce' /\ MarkedWasSent'
  BY <1>1, <1>2, <1>5, OutboxParts DEF BegunOnce, MarkedWasSent
<1> QED BY <1>2, <1>3, <1>8, <1>9, <1>10 DEF OutboxIInv

\* No acknowledgement: the batch is dropped, and the record may have been sent.
LEMMA PublishFailsInv ==
    ASSUME OutboxAssumption, OutboxIInv, NEW r \in Relays, PublishFails(r) PROVE OutboxIInv'
<1>1. /\ Publishing(r) /\ (Deliver(Current(r)) \/ UNCHANGED handled)
      /\ GiveUp(r) /\ UNCHANGED <<begun, visible, published, skipped>>
  BY DEF PublishFails
<1>2. relayFaults' \in 0..MaxRelayFaults
  BY OutboxParts DEF PublishFails, Fault, OutboxAssumption
<1>3. CASE UNCHANGED handled
  BY <1>1, <1>2, <1>3, DropInv
<1>4. CASE Deliver(Current(r))
  <2>1. Publishing(r)
    BY DEF PublishFails
  <2>2. /\ handled' \in [Aggregates -> Seq(Events)] /\ Handled' = Handled \cup {Current(r)}
        /\ HandledOwn' /\ OlderIsHandled' /\ OrderedUnlessSkipped'
    BY <1>1, <1>4, <2>1, DeliverHandled
  <2>3. /\ hand' \in [Relays -> [rows : Seq(Events), next : Int]]
        /\ hand'[r] = NoBatch /\ \A q \in Relays \ {r} : hand'[q] = hand[q]
    <3>1. NoBatch \in [rows : Seq(Events), next : Int]
      BY DEF NoBatch
    <3> QED BY <1>1, <3>1, OutboxParts DEF GiveUp
  <2>4. /\ \A f, x : Older(f, x)' <=> Older(f, x)
        /\ Unpublished' = Unpublished /\ \A q \in Relays : LockedBy(q)' \subseteq LockedBy(q)
    <3>1. (\A f, x : Older(f, x)' <=> Older(f, x)) /\ Unpublished' = Unpublished
      BY <1>1 DEF Older, Unpublished
    <3>2. LockedBy(r)' = {}
      BY <2>3 DEF LockedBy, NoBatch, ToSet
    <3>3. \A q \in Relays \ {r} : LockedBy(q)' = LockedBy(q)
      BY <2>3 DEF LockedBy
    <3> QED BY <3>1, <3>2, <3>3
  <2>5. \A q \in Relays : BatchHolds(q)' /\ NoneForgotten(q)'
    BY <1>1, <2>2, <2>3, <2>4, BatchKept, LockedRows
  <2>6. OutboxTypeOK'
    <3>1. hand'[r].rows \in Seq(Events) /\ hand'[r].next \in 1..(Len(hand'[r].rows) + 1)
      <4>1. hand'[r].rows = <<>> /\ hand'[r].next = 1
        BY <2>3 DEF NoBatch
      <4> QED BY <4>1
    <3>2. \A q \in Relays \ {r} : hand'[q].rows \in Seq(Events) /\ hand'[q].next \in 1..(Len(hand'[q].rows) + 1)
      BY <2>3, OutboxParts
    <3> QED BY <1>1, <1>2, <2>2, <3>1, <3>2, OutboxParts DEF OutboxTypeOK
  <2>7. BegunOnce' /\ MarkedWasSent'
    BY <1>1, <2>2, <2>4, OutboxParts DEF BegunOnce, MarkedWasSent
  <2> QED BY <2>2, <2>3, <2>5, <2>6, <2>7 DEF OutboxIInv
<1> QED BY <1>1, <1>3, <1>4

\* A step that leaves all as it was.
LEMMA OutboxStutter ==
    ASSUME OutboxIInv, UNCHANGED outboxVars PROVE OutboxIInv'
<1>1. /\ Handled' = Handled /\ Unpublished' = Unpublished
      /\ \A f, x : Older(f, x)' <=> Older(f, x)
      /\ \A q \in Relays : LockedBy(q)' = LockedBy(q)
  BY DEF outboxVars, Handled, Unpublished, Older, LockedBy
<1>2. OutboxTypeOK' /\ BegunOnce' /\ HandledOwn'
  BY DEF outboxVars, OutboxIInv, OutboxTypeOK, BegunOnce, HandledOwn
<1>3. OlderIsHandled' /\ OrderedUnlessSkipped' /\ MarkedWasSent'
  BY <1>1 DEF outboxVars, OutboxIInv, OlderIsHandled, OrderedUnlessSkipped, MarkedWasSent
<1>4. \A r \in Relays : BatchHolds(r)' /\ NoneForgotten(r)'
  BY <1>1 DEF outboxVars, OutboxIInv, BatchHolds, NoneForgotten
<1> QED BY <1>2, <1>3, <1>4 DEF outboxVars, OutboxIInv

\* What is marked was sent, no row is in two hands, and the events of one
\* aggregate are handled in the order of their transactions unless the younger
\* was taken when the older was not there to take.
THEOREM OutboxInvariant == OutboxSpec => []OutboxInv
<1>1. OutboxInit => OutboxIInv
  BY OutboxAssumption, OutboxInitInv
<1>2. OutboxIInv /\ [OutboxNext]_outboxVars => OutboxIInv'
  <2> SUFFICES ASSUME OutboxIInv, [OutboxNext]_outboxVars PROVE OutboxIInv'
    OBVIOUS
  <2> USE OutboxAssumption
  <2>1. CASE \E e \in Events : Begin(e) \/ CommitStaged(e)
    BY <2>1, BeginInv, CommitStagedInv
  <2>2. ASSUME NEW r \in Relays, RelayOnce(r) PROVE OutboxIInv'
    <3>1. CASE FetchBatch(r)
      BY <3>1, FetchInv
    <3>2. CASE Publish(r)
      BY <3>2, PublishInv
    <3>3. CASE DecodeFails(r)
      BY <3>3, OutboxParts, DropInv DEF DecodeFails
    <3>4. CASE CommitBatch(r)
      BY <3>4, CommitBatchInv
    <3> QED BY <2>2, <3>1, <3>2, <3>3, <3>4 DEF RelayOnce
  <2>3. ASSUME NEW r \in Relays, RelayStops(r) PROVE OutboxIInv'
    <3>1. relayFaults' \in 0..MaxRelayFaults
      BY <2>3, OutboxParts DEF RelayStops, Fault, OutboxAssumption
    <3>2. GiveUp(r) /\ UNCHANGED <<begun, visible, published, handled, skipped>>
      BY <2>3 DEF RelayStops, GiveUp
    <3> QED BY <3>1, <3>2, DropInv
  <2>4. CASE UNCHANGED outboxVars
    BY <2>4, OutboxStutter
  <2> QED BY <2>1, <2>2, <2>3, <2>4, PublishFailsInv DEF OutboxNext
<1>3. OutboxIInv => OutboxInv
  BY DEF OutboxIInv, OutboxInv
<1> QED BY <1>1, <1>2, <1>3, PTL DEF OutboxSpec
===============================================================================
