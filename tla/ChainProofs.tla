------------------------------ MODULE ChainProofs ------------------------------
(***************************************************************************)
(* Proofs about the clients of the chains, for any sends, amounts, fees    *)
(* and endpoints.  Of those that keep unspent outputs (UtxoChain): what is *)
(* credited was received, once; what is called safe to reverse left        *)
(* nothing; a sweep asks for what its inputs hold.  Of those that keep     *)
(* balances (EvmChain): no send is paid twice nor reversed while it is on  *)
(* its way, and the gas given for tokens stays for them.                   *)
(***************************************************************************)
EXTENDS UtxoChain, EvmChain, LedgerLemmas

-------------------------------------------------------------------------------
(***************************************************************************)
(* Chains of outputs: the invariant.                                       *)
(***************************************************************************)
\* What a transaction is made of.
UtxoRows ==
    /\ coin \in Coins \cap {"BTC", "BCH", "DGB", "ZER"}
    /\ tx \in [Txs -> [ins : SUBSET (Txs \X Nat), outs : Seq(AnOutput), fee : Nat]]
    /\ \A t \in Txs : \A o \in tx[t].ins : o[1] \in Txs /\ o[2] \in 1 .. Len(tx[o[1]].outs)
    /\ depth \in [Txs -> Depths]
    /\ send \in [Sends -> {"new", "signed", "sent", "safe", "unsure", "outbid"}]
    /\ doubt \in [sends : SUBSET Sends, credits : SUBSET credits]
    /\ \A c \in credits : c[1] \in Txs

\* A send that was not handed over is not on the network, nor built before it
\* is signed.
NotYetSent ==
    \A s \in Sends : /\ send[s] = "new" => tx[s] = NoTx
                     /\ send[s] \in {"new", "signed"} => depth[s] = "none"

\* A credit is of an output that pays an address of a depositor, all of it, and
\* its transaction is deep, unless its source miscounts.
OutputsOfDepositors(t) ==
    {o \in Outs(t) : Out(o).to \in {"deposit", "legacy"}}

CreditOfAnOutput(c) ==
    \E o \in OutputsOfDepositors(c[1]) : depth[o[1]] = "deep" /\ c = <<o[1], o[2], Out(o).val>>

HonestCredits == \A c \in credits \ doubt.credits : CreditOfAnOutput(c)

\* The inductive invariant.
UtxoIInv == UtxoRows /\ NotYetSent /\ HonestCredits /\ SafeIsUnsent /\ SweepsFit

-------------------------------------------------------------------------------
(***************************************************************************)
(* Chains of outputs: what the readers return.                             *)
(***************************************************************************)
\* The outputs of a transaction are finitely many, and are what it lists.
LEMMA OutsListed ==
    ASSUME UtxoRows, NEW t \in Txs
    PROVE  /\ IsFiniteSet(Outs(t))
           /\ \A o \in Outs(t) : /\ o = <<o[1], o[2]>> /\ o[1] = t /\ o[2] \in 1 .. Len(tx[t].outs)
                                 /\ Out(o) \in AnOutput
<1> DEFINE n == Len(tx[t].outs)
           f == [v \in 1 .. n |-> <<t, v>>]
<1>1. tx[t].outs \in Seq(AnOutput)
  BY DEF UtxoRows
<1>2. n \in Nat
  BY <1>1
<1>3. f \in Surjection(1 .. n, Outs(t))
  BY DEF Surjection, Outs
<1>4. IsFiniteSet(1 .. n)
  BY <1>2, FS_Interval
<1>5. IsFiniteSet(Outs(t))
  BY <1>3, <1>4, FS_Surjection
<1>6. ASSUME NEW o \in Outs(t)
      PROVE  /\ o = <<o[1], o[2]>> /\ o[1] = t /\ o[2] \in 1 .. Len(tx[t].outs)
             /\ Out(o) \in AnOutput
  <2>1. PICK v \in 1 .. n : o = <<t, v>>
    BY DEF Outs
  <2>2. tx[t].outs[v] \in AnOutput
    BY <1>1
  <2> QED BY <2>1, <2>2 DEF Out
<1> QED BY <1>5, <1>6

\* There are finitely many transactions.
LEMMA TxsFinite == UtxoAssumption => IsFiniteSet(Txs)
<1> SUFFICES ASSUME UtxoAssumption PROVE IsFiniteSet(Txs)
  OBVIOUS
<1>1. IsFiniteSet(Sends)
  BY FS_Union DEF UtxoAssumption, Sends
<1>2. IsFiniteSet(Deposits \cup Sends)
  BY <1>1, FS_Union DEF UtxoAssumption
<1> QED BY <1>2, FS_AddElement DEF Txs

\* What an address was paid are finitely many outputs the network has.
LEMMA PaidListed ==
    ASSUME UtxoAssumption, UtxoRows, NEW a
    PROVE  /\ IsFiniteSet(PaidTo(a))
           /\ \A o \in PaidTo(a) : /\ o = <<o[1], o[2]>> /\ o[1] \in Txs /\ o \in Outs(o[1])
                                 /\ o[2] \in 1 .. Len(tx[o[1]].outs) /\ o[2] \in Nat
                                 /\ Out(o) \in AnOutput /\ Out(o).to = a /\ Out(o).val \in Nat
                                 /\ depth[o[1]] # "none"
<1> DEFINE Lists1 == {Outs(t) : t \in Txs}
           f == [t \in Txs |-> Outs(t)]
<1>1. f \in Surjection(Txs, Lists1)
  BY DEF Surjection
<1>2. IsFiniteSet(Lists1)
  BY <1>1, TxsFinite, FS_Surjection
<1>3. \A L \in Lists1 : IsFiniteSet(L)
  BY OutsListed
<1>4. IsFiniteSet(UNION Lists1)
  BY <1>2, <1>3, FS_UNION
<1>5. PaidTo(a) \in SUBSET UNION Lists1
  BY DEF PaidTo
<1>6. IsFiniteSet(PaidTo(a))
  BY <1>4, <1>5, FS_Subset
<1>7. ASSUME NEW o \in PaidTo(a)
      PROVE  /\ o = <<o[1], o[2]>> /\ o[1] \in Txs /\ o \in Outs(o[1])
             /\ o[2] \in 1 .. Len(tx[o[1]].outs) /\ o[2] \in Nat
             /\ Out(o) \in AnOutput /\ Out(o).to = a /\ Out(o).val \in Nat
             /\ depth[o[1]] # "none"
  <2>1. PICK t \in Txs : o \in Outs(t)
    BY DEF PaidTo
  <2>2. o = <<o[1], o[2]>> /\ o[1] = t /\ o[2] \in 1 .. Len(tx[t].outs) /\ Out(o) \in AnOutput
    BY <2>1, OutsListed
  <2>3. Out(o).val \in Nat
    BY <2>2 DEF AnOutput
  <2>4. Out(o).to = a /\ depth[o[1]] # "none"
    BY DEF PaidTo
  <2>5. o[2] \in Nat
    BY <2>2
  <2> QED BY <2>1, <2>2, <2>3, <2>4, <2>5
<1> QED BY <1>6, <1>7

\* Outputs paid to an address have a value, and a number.
LEMMA ValueOfPaid ==
    ASSUME UtxoAssumption, UtxoRows, NEW a, NEW ins, ins \subseteq PaidTo(a)
    PROVE  /\ Value(ins) \in Nat
           /\ Cardinality(ins) \in Nat
           /\ ins \in SUBSET (Txs \X Nat)
           /\ \A o \in ins : o[1] \in Txs /\ o[2] \in 1 .. Len(tx[o[1]].outs) /\ depth[o[1]] # "none"
<1> DEFINE val == [o \in ins |-> Out(o).val]
<1>1. IsFiniteSet(ins)
  BY PaidListed, FS_Subset
<1>2. \A o \in ins : val[o] \in Nat
  BY PaidListed
<1>3. \A o \in ins : o = <<o[1], o[2]>> /\ o[1] \in Txs /\ o[2] \in Nat
                     /\ o[2] \in 1 .. Len(tx[o[1]].outs) /\ depth[o[1]] # "none"
  BY PaidListed
<1> HIDE DEF val
<1>4. SumFunctionOnSet(val, ins) \in Nat
  BY <1>1, <1>2, SumNat
<1>5. Value(ins) = SumFunctionOnSet(val, ins)
  BY DEF Value, val
<1>6. ASSUME NEW o \in ins PROVE o \in Txs \X Nat
  <2>1. o = <<o[1], o[2]>> /\ o[1] \in Txs /\ o[2] \in Nat
    BY <1>3
  <2> QED BY <2>1
<1> QED BY <1>1, <1>3, <1>4, <1>5, <1>6, FS_CardinalityType

\* Whatever is listed as unspent was paid to the address.
LEMMA ListedWasPaid ==
    ASSUME UtxoRows, NEW a, NEW ins \in Listings(a)
    PROVE  ins \subseteq PaidTo(a)
  BY DEF Listings, Stale, DgbUnspent, ZerUnspent, BitcoreUnspent, Unspent

\* A fee is a natural.
LEMMA FeeIsNat ==
    ASSUME UtxoRows, NEW n \in Nat, NEW m \in Nat, NEW rate \in Nat
    PROVE  SendFee(n, m, rate) \in Nat
<1>1. SegwitSize(n, m) \in Nat /\ LegacySize(n, m) \in Nat
  BY DEF SegwitSize, LegacySize
<1>2. SegwitSize(n, m) * rate \in Nat /\ LegacySize(n, m) * rate \in Nat
  BY <1>1, MulNat
<1> QED BY <1>2 DEF SendFee, ZerFee

\* What a source lists names outputs paid to the address; one that does not
\* miscount gives each with its value and its depth.
LEMMA AnswersNamePayments ==
    ASSUME UtxoAssumption, UtxoRows, NEW a, NEW rows \in Sources(coin, a)
    PROVE  /\ \A r \in rows : r.key[1] \in Txs
           /\ ~ Miscounts(rows, a) => \A r \in rows : \E o \in PaidTo(a) : r = RowOf(o)
<1>1. \A o \in PaidTo(a) : o[1] \in Txs
  BY PaidListed
<1>2. \A o \in PaidTo(a) : RowOf(o).key[1] \in Txs
  BY <1>1 DEF RowOf
<1>3. Unspent(a) \subseteq PaidTo(a)
  BY DEF Unspent
<1>4. /\ \A r \in UtxoList(a) : \E o \in PaidTo(a) : r = RowOf(o)
      /\ \A r \in ScanTxOutSet(a) : \E o \in PaidTo(a) : r = RowOf(o)
      /\ \A r \in Blockcypher(a) : \E o \in PaidTo(a) : r = RowOf(o)
  BY <1>3 DEF UtxoList, ScanTxOutSet, Blockcypher
<1>5. \A r \in BitcoreList(a) : r.key[1] \in Txs
  BY <1>1 DEF BitcoreList, RowOf
<1>6. ASSUME NEW r \in ZerExplorer(a) PROVE r.key[1] \in Txs
  <2>1. PICK o \in PaidTo(a) : r = [key |-> <<o[1], 1>>, val |-> Value({p \in PaidTo(a) : p[1] = o[1]}),
                                 deep |-> depth[o[1]] = "deep"]
    BY DEF ZerExplorer
  <2>2. r.key = <<o[1], 1>>
    BY <2>1
  <2> QED BY <1>1, <2>2
<1>7. rows \in {UtxoList(a), ScanTxOutSet(a), Blockcypher(a), BitcoreList(a), NoList(a), ZerExplorer(a)}
  BY DEF UtxoRows, Sources
<1>8. \A r \in rows : r.key[1] \in Txs
  BY <1>2, <1>4, <1>5, <1>6, <1>7 DEF NoList
<1>9. ASSUME ~ Miscounts(rows, a) PROVE \A r \in rows : \E o \in PaidTo(a) : r = RowOf(o)
  BY <1>4, <1>9 DEF Miscounts
<1> QED BY <1>8, <1>9

-------------------------------------------------------------------------------
(***************************************************************************)
(* Chains of outputs: every step keeps the invariant.                      *)
(***************************************************************************)
\* Before anything happened.
LEMMA UtxoStarts == UtxoAssumption /\ UtxoInit => UtxoIInv
<1> SUFFICES ASSUME UtxoAssumption, UtxoInit PROVE UtxoIInv
  OBVIOUS
<1>1. /\ Genesis \in Txs /\ Genesis \notin Sends /\ Genesis \notin Deposits /\ Sends \subseteq Txs
      /\ Deposits \subseteq Txs /\ Deposits \cap Sends = {}
  BY DEF UtxoAssumption, Txs, Sends, Genesis
<1>2. ASSUME NEW t \in Txs
      PROVE  /\ tx[t] \in [ins : SUBSET (Txs \X Nat), outs : Seq(AnOutput), fee : Nat]
             /\ tx[t].ins = {}
             /\ t \in Sends => tx[t] = NoTx /\ depth[t] = "none"
  <2>1. CASE t = Genesis
    <3>1. tx[t] = [NoTx EXCEPT !.outs = HotOuts]
      BY <1>1, <2>1 DEF UtxoInit, NoTx
    <3> QED BY <1>1, <2>1, <3>1 DEF NoTx, UtxoAssumption
  <2>2. CASE t \in Deposits
    <3>1. tx[t] = [NoTx EXCEPT !.outs = DepositOuts[t]]
      BY <1>1, <2>2 DEF UtxoInit
    <3> QED BY <1>1, <2>2, <3>1 DEF NoTx, UtxoAssumption
  <2>3. CASE t \in Sends
    <3>1. tx[t] = NoTx /\ depth[t] = "none"
      BY <1>1, <2>3 DEF UtxoInit
    <3>2. <<>> \in Seq(AnOutput)
      OBVIOUS
    <3> QED BY <3>1, <3>2 DEF NoTx
  <2> QED BY <2>1, <2>2, <2>3 DEF Txs
<1>3. UtxoRows
  <2>1. tx \in [Txs -> [ins : SUBSET (Txs \X Nat), outs : Seq(AnOutput), fee : Nat]]
    <3>1. tx = [t \in Txs |-> tx[t]]
      BY DEF UtxoInit
    <3> QED BY <1>2, <3>1
  <2>2. depth \in [Txs -> Depths]
    BY DEF UtxoInit, Depths
  <2>3. send \in [Sends -> {"new", "signed", "sent", "safe", "unsure", "outbid"}]
    BY DEF UtxoInit
  <2>4. coin \in Coins \cap {"BTC", "BCH", "DGB", "ZER"}
    BY DEF UtxoInit, UtxoAssumption
  <2>5. doubt \in [sends : SUBSET Sends, credits : SUBSET credits] /\ credits = {}
    BY DEF UtxoInit
  <2> QED BY <1>2, <2>1, <2>2, <2>3, <2>4, <2>5 DEF UtxoRows
<1>4. NotYetSent
  BY <1>1, <1>2 DEF NotYetSent
<1>5. HonestCredits
  BY DEF UtxoInit, HonestCredits
<1>6. SafeIsUnsent /\ SweepsFit
  BY DEF UtxoInit, SafeIsUnsent, SweepsFit, Sends
<1> QED BY <1>3, <1>4, <1>5, <1>6 DEF UtxoIInv

\* Transactions and rows stand while only depths move, and a credited one is deep.
LEMMA DepthsMove ==
    ASSUME UtxoIInv, UNCHANGED <<coin, tx, send, credits, doubt>>,
           depth' \in [Txs -> Depths],
           \A t \in Txs : depth[t] = "deep" => depth'[t] = "deep",
           \A t \in Sends : depth[t] = "none" => depth'[t] = "none",
           Sends \subseteq Txs
    PROVE  UtxoIInv'
<1>1. UtxoRows'
  BY DEF UtxoIInv, UtxoRows
<1>2. NotYetSent'
  BY DEF UtxoIInv, NotYetSent
<1>3. HonestCredits'
  <2>1. SUFFICES ASSUME NEW c \in credits \ doubt.credits PROVE CreditOfAnOutput(c)'
    BY DEF HonestCredits
  <2>2. PICK o \in OutputsOfDepositors(c[1]) : depth[o[1]] = "deep" /\ c = <<o[1], o[2], Out(o).val>>
    BY DEF UtxoIInv, HonestCredits, CreditOfAnOutput
  <2>3. o[1] \in Txs
    BY <2>2 DEF UtxoIInv, UtxoRows
  <2>4. o \in OutputsOfDepositors(c[1])' /\ Out(o)' = Out(o)
    BY DEF OutputsOfDepositors, Outs, Out
  <2>5. depth'[o[1]] = "deep"
    BY <2>2, <2>3
  <2> QED BY <2>2, <2>4, <2>5 DEF CreditOfAnOutput
<1>4. SafeIsUnsent' /\ SweepsFit'
  BY DEF UtxoIInv, SafeIsUnsent, SweepsFit
<1> QED BY <1>1, <1>2, <1>3, <1>4 DEF UtxoIInv

\* The network hears of a deposit, or mines a transaction.
LEMMA NetworkKeepsInv ==
    ASSUME UtxoAssumption, UtxoIInv, NEW t \in Txs, Mine(t) \/ (t \in Deposits /\ Arrive(t))
    PROVE  UtxoIInv'
<1>1. depth \in [Txs -> Depths]
  BY DEF UtxoIInv, UtxoRows
<1>2. Sends \subseteq Txs /\ Deposits \cap Sends = {}
  BY DEF UtxoAssumption, Txs, Sends
<1>3. UNCHANGED <<coin, tx, send, credits, doubt>>
  BY DEF Mine, Arrive
<1>4. /\ depth' \in [Txs -> Depths]
      /\ \A u \in Txs : depth[u] = "deep" => depth'[u] = "deep"
      /\ \A u \in Sends : depth[u] = "none" => depth'[u] = "none"
  BY <1>1, <1>2 DEF Mine, Arrive, Depths
<1> QED BY <1>2, <1>3, <1>4, DepthsMove

\* A watcher credits rows that are deep, by what they name.
LEMMA WatchKeepsInv ==
    ASSUME UtxoAssumption, UtxoIInv, NEW a \in {"deposit", "legacy"}, Watch(a)
    PROVE  UtxoIInv'
<1>1. PICK rows \in Sources(coin, a) :
        LET new == {r \in rows : r.deep /\ ~ \E c \in credits : <<c[1], c[2]>> = r.key}
            made == {<<r.key[1], r.key[2], r.val>> : r \in new}
        IN /\ credits' = credits \cup made
           /\ doubt' = [doubt EXCEPT !.credits = IF Miscounts(rows, a) THEN @ \cup made ELSE @]
           /\ UNCHANGED <<coin, tx, depth, send>>
  BY DEF Watch
<1> DEFINE new == {r \in rows : r.deep /\ ~ \E c \in credits : <<c[1], c[2]>> = r.key}
           made == {<<r.key[1], r.key[2], r.val>> : r \in new}
<1>2. /\ credits' = credits \cup made
      /\ doubt' = [doubt EXCEPT !.credits = IF Miscounts(rows, a) THEN @ \cup made ELSE @]
      /\ UNCHANGED <<coin, tx, depth, send>>
  BY <1>1
<1>3. UtxoRows
  BY DEF UtxoIInv
<1>4. \A r \in rows : r.key[1] \in Txs
  BY <1>3, AnswersNamePayments
<1>5. \A c \in made : c[1] \in Txs
  BY <1>4
<1>6. ASSUME NEW c \in made, ~ Miscounts(rows, a) PROVE CreditOfAnOutput(c)
  <2>1. PICK r \in rows : r.deep /\ c = <<r.key[1], r.key[2], r.val>>
    OBVIOUS
  <2>2. PICK o \in PaidTo(a) : r = RowOf(o)
    BY <1>3, <1>6, <2>1, AnswersNamePayments
  <2>3. r.key = o /\ r.val = Out(o).val /\ r.deep = (depth[o[1]] = "deep")
    BY <2>2 DEF RowOf
  <2>4. c = <<o[1], o[2], Out(o).val>> /\ depth[o[1]] = "deep"
    BY <2>1, <2>3
  <2>5. o \in Outs(o[1]) /\ Out(o).to = a
    BY <1>3, PaidListed
  <2>6. c[1] = o[1]
    BY <2>4
  <2>7. o \in OutputsOfDepositors(c[1])
    BY <2>5, <2>6 DEF OutputsOfDepositors
  <2> QED BY <2>4, <2>7 DEF CreditOfAnOutput
<1> HIDE DEF made
<1>7. UtxoRows'
  <2>1. /\ doubt'.sends = doubt.sends /\ doubt'.credits \subseteq credits'
        /\ doubt' \in [sends : SUBSET Sends, credits : SUBSET credits']
    BY <1>2, <1>3 DEF UtxoRows
  <2>2. \A c \in credits' : c[1] \in Txs
    BY <1>2, <1>3, <1>5 DEF UtxoRows
  <2> QED BY <1>2, <1>3, <2>1, <2>2 DEF UtxoRows
<1>8. NotYetSent'
  BY <1>2 DEF UtxoIInv, NotYetSent
<1>9. HonestCredits'
  <2>1. SUFFICES ASSUME NEW c \in credits' \ doubt'.credits PROVE CreditOfAnOutput(c)'
    BY DEF HonestCredits
  <2>2. doubt'.credits = IF Miscounts(rows, a) THEN doubt.credits \cup made ELSE doubt.credits
    BY <1>2, <1>3 DEF UtxoRows
  <2>3. CreditOfAnOutput(c)
    <3>1. CASE c \in credits /\ c \notin doubt.credits
      BY <3>1 DEF UtxoIInv, HonestCredits
    <3>2. CASE c \in made /\ ~ Miscounts(rows, a)
      BY <1>6, <3>2
    <3> QED BY <1>2, <2>1, <2>2, <3>1, <3>2
  <2>4. CreditOfAnOutput(c)' = CreditOfAnOutput(c)
    BY <1>2 DEF CreditOfAnOutput, OutputsOfDepositors, Outs, Out
  <2> QED BY <2>3, <2>4
<1>10. SafeIsUnsent' /\ SweepsFit'
  <2>1. doubt'.sends = doubt.sends
    BY <1>2, <1>3 DEF UtxoRows
  <2> QED BY <1>2, <2>1 DEF UtxoIInv, SafeIsUnsent, SweepsFit
<1> QED BY <1>7, <1>8, <1>9, <1>10 DEF UtxoIInv

\* A send that is refused before its signature left nothing; a sweep of BTC or
\* BCH is not.
LEMMA RefuseKeepsInv ==
    ASSUME UtxoAssumption, UtxoIInv, NEW s \in Sends, send[s] = "new", Refuse(s),
           s \in Sweeps => coin \in {"DGB", "ZER"}
    PROVE  UtxoIInv'
<1>1. UtxoRows'
  BY DEF UtxoIInv, UtxoRows, Refuse
<1>2. \A u \in Sends : u # s => send'[u] = send[u]
  BY DEF UtxoIInv, UtxoRows, Refuse
<1>3. send'[s] = "safe" /\ depth[s] = "none"
  BY DEF UtxoIInv, UtxoRows, NotYetSent, Refuse
<1>4. NotYetSent'
  BY <1>2, <1>3 DEF UtxoIInv, NotYetSent, Refuse
<1>5. HonestCredits'
  <2>1. \A c \in credits \ doubt.credits : CreditOfAnOutput(c)' = CreditOfAnOutput(c)
    BY DEF Refuse, CreditOfAnOutput, OutputsOfDepositors, Outs, Out
  <2> QED BY <2>1 DEF UtxoIInv, HonestCredits, Refuse
<1>6. SafeIsUnsent'
  BY <1>2, <1>3 DEF UtxoIInv, SafeIsUnsent, Refuse
<1>7. SweepsFit'
  BY <1>2, <1>3 DEF UtxoIInv, SweepsFit, Refuse, Sends
<1> QED BY <1>1, <1>4, <1>5, <1>6, <1>7 DEF UtxoIInv

\* A sweep of BTC or BCH asks for no more than its inputs hold.
FitsIfSweep(s, ins, amount, fee) ==
    s \in Sweeps => coin \in {"DGB", "ZER"} \/ Value(ins) >= amount + fee

\* A signature spends outputs of the address, for no more than they hold; one
\* that a sweep of BTC or BCH asks for is not refused.
LEMMA SignKeepsInv ==
    ASSUME UtxoAssumption, UtxoIInv, NEW s \in Sends, send[s] = "new",
           NEW a, NEW ins, ins \subseteq PaidTo(a), NEW to \in {"hot", "payee"}, NEW amount \in Nat, NEW fee \in Nat,
           NEW own \in {"hot", "deposit", "legacy"}, SignSpend(s, ins, to, amount, fee, own),
           FitsIfSweep(s, ins, amount, fee)
    PROVE  UtxoIInv'
<1> DEFINE change == Value(ins) - amount - fee
<1>1. /\ Value(ins) \in Nat /\ ins \in SUBSET (Txs \X Nat)
      /\ \A o \in ins : o[1] \in Txs /\ o[2] \in 1 .. Len(tx[o[1]].outs) /\ depth[o[1]] # "none"
  BY ValueOfPaid DEF UtxoIInv
<1>2. CASE Value(ins) < amount + fee
  <2>1. Refuse(s)
    BY <1>2 DEF SignSpend
  <2>2. s \in Sweeps => coin \in {"DGB", "ZER"}
    BY <1>1, <1>2 DEF FitsIfSweep
  <2> QED BY <2>1, <2>2, RefuseKeepsInv
<1>3. CASE ~ Value(ins) < amount + fee
  <2>1. /\ tx' = [tx EXCEPT ![s] = Built(ins, to, amount, fee, own)]
        /\ send' = [send EXCEPT ![s] = "signed"]
        /\ UNCHANGED <<coin, depth, credits, doubt>>
    BY <1>3 DEF SignSpend
  <2>2. change \in Nat
    BY <1>1, <1>3
  <2>3. Outputs(to, amount, change, own) \in Seq(AnOutput)
    <3>1. [to |-> to, val |-> amount] \in AnOutput /\ [to |-> own, val |-> change] \in AnOutput
      BY <2>2 DEF AnOutput
    <3> HIDE DEF change
    <3>2. <<[to |-> to, val |-> amount]>> \in Seq(AnOutput) /\ <<[to |-> own, val |-> change]>> \in Seq(AnOutput)
      BY <3>1
    <3>3. <<>> \in Seq(AnOutput)
      OBVIOUS
    <3> QED BY <3>2, <3>3 DEF Outputs
  <2>4. Built(ins, to, amount, fee, own) \in [ins : SUBSET (Txs \X Nat), outs : Seq(AnOutput), fee : Nat]
    BY <1>1, <2>3 DEF Built
  <2>5. s \in Txs /\ tx[s] = NoTx /\ depth[s] = "none"
    BY DEF UtxoIInv, NotYetSent, Txs
  <2>6. tx \in [Txs -> [ins : SUBSET (Txs \X Nat), outs : Seq(AnOutput), fee : Nat]]
    BY DEF UtxoIInv, UtxoRows
  <2>7. \A t \in Txs : t # s => tx'[t] = tx[t]
    BY <2>1, <2>6
  <2>8. tx'[s].ins = ins
    BY <2>1, <2>5, <2>6 DEF Built
  <2>9. tx' \in [Txs -> [ins : SUBSET (Txs \X Nat), outs : Seq(AnOutput), fee : Nat]]
    BY <2>1, <2>4, <2>6
  <2>10. \A t \in Txs : \A v \in Nat : v \in 1 .. Len(tx[t].outs) => t # s
    BY <2>5 DEF NoTx
  <2>11. ASSUME NEW t \in Txs, NEW o \in tx'[t].ins PROVE o[1] \in Txs /\ o[2] \in 1 .. Len(tx'[o[1]].outs)
    <3>1. o[1] \in Txs /\ o[2] \in 1 .. Len(tx[o[1]].outs)
      <4>1. CASE t = s
        BY <1>1, <2>8, <2>11, <4>1
      <4>2. CASE t # s
        BY <2>7, <2>11, <4>2 DEF UtxoIInv, UtxoRows
      <4> QED BY <4>1, <4>2
    <3>2. o[1] # s
      BY <2>10, <3>1
    <3> QED BY <2>7, <3>1, <3>2
  <2>12. UtxoRows'
    BY <2>1, <2>9, <2>11 DEF UtxoIInv, UtxoRows
  <2>13. \A u \in Sends : u # s => send'[u] = send[u] /\ tx'[u] = tx[u]
    BY <2>1, <2>7 DEF UtxoIInv, UtxoRows, Txs
  <2>14. send'[s] = "signed"
    BY <2>1 DEF UtxoIInv, UtxoRows
  <2>15. NotYetSent'
    BY <2>1, <2>5, <2>13, <2>14 DEF UtxoIInv, NotYetSent
  <2>16. ASSUME NEW c \in credits' \ doubt'.credits PROVE CreditOfAnOutput(c)'
    <3>1. PICK o \in OutputsOfDepositors(c[1]) : depth[o[1]] = "deep" /\ c = <<o[1], o[2], Out(o).val>>
      BY <2>1, <2>16 DEF UtxoIInv, HonestCredits, CreditOfAnOutput
    <3>2. o[1] \in Txs /\ c[1] = o[1] /\ o[1] # s
      BY <2>1, <2>5, <2>16, <3>1 DEF UtxoIInv, UtxoRows
    <3>3. tx'[o[1]] = tx[o[1]]
      BY <2>7, <3>2
    <3>4. o \in OutputsOfDepositors(c[1])' /\ Out(o)' = Out(o)
      BY <3>1, <3>2, <3>3 DEF OutputsOfDepositors, Outs, Out
    <3> QED BY <2>1, <3>1, <3>4 DEF CreditOfAnOutput
  <2>17. HonestCredits'
    BY <2>16 DEF HonestCredits
  <2>18. SafeIsUnsent' /\ SweepsFit'
    BY <2>1, <2>13, <2>14 DEF UtxoIInv, SafeIsUnsent, SweepsFit, Sends
  <2> QED BY <2>12, <2>15, <2>17, <2>18 DEF UtxoIInv
<1> QED BY <1>2, <1>3

\* A withdrawal is refused, or signed over what the hot wallet was paid.
LEMMA SignWithdrawalKeepsInv ==
    ASSUME UtxoAssumption, UtxoIInv, NEW s \in Withdrawals, SignWithdrawal(s)
    PROVE  UtxoIInv'
<1>1. s \in Sends /\ s \notin Sweeps /\ send[s] = "new"
  BY DEF UtxoAssumption, Sends, SignWithdrawal
<1>2. CASE Refuse(s)
  BY <1>1, <1>2, RefuseKeepsInv
<1>3. ASSUME NEW ins \in Listings("hot"), NEW rate \in FeeRates,
             SignSpend(s, ins, "payee", Amount, SendFee(Cardinality(ins), 2, rate), "hot")
      PROVE  UtxoIInv'
  <2>1. ins \subseteq PaidTo("hot")
    BY ListedWasPaid DEF UtxoIInv
  <2>2. Cardinality(ins) \in Nat
    BY <2>1, ValueOfPaid DEF UtxoIInv
  <2>3. SendFee(Cardinality(ins), 2, rate) \in Nat /\ Amount \in Nat
    BY <2>2, FeeIsNat DEF UtxoAssumption, UtxoIInv
  <2>4. FitsIfSweep(s, ins, Amount, SendFee(Cardinality(ins), 2, rate))
    BY <1>1 DEF FitsIfSweep
  <2> QED BY <1>1, <1>3, <2>1, <2>3, <2>4, SignKeepsInv
<1> QED BY <1>2, <1>3 DEF SignWithdrawal

\* A sweep of BTC or BCH asks for all its inputs hold, less the fee it then pays.
LEMMA SignSweepKeepsInv ==
    ASSUME UtxoAssumption, UtxoIInv, NEW s \in Sweeps, SignSweep(s)
    PROVE  UtxoIInv'
<1>1. s \in Sends /\ send[s] = "new" /\ coin \in {"BTC", "BCH", "DGB", "ZER"}
  BY DEF Sends, SignSweep, UtxoIInv, UtxoRows
<1>2. PICK ins \in Listings(DepositAddress), rate \in FeeRates :
        LET n == Cardinality(ins)
            own == IF coin = "ZER" THEN 0 ELSE SendFee(n, 1, rate)
        IN /\ ins # {} /\ Value(ins) > own + Dust
           /\ SignSpend(s, ins, "hot", Value(ins) - own,
                   IF coin \in {"DGB", "ZER"} THEN SendFee(n, 2, rate) ELSE own, DepositAddress)
  BY DEF SignSweep
<1> DEFINE own == IF coin = "ZER" THEN 0 ELSE SendFee(Cardinality(ins), 1, rate)
           amount == Value(ins) - own
           fee == IF coin \in {"DGB", "ZER"} THEN SendFee(Cardinality(ins), 2, rate) ELSE own
<1>3. Value(ins) > own + Dust /\ SignSpend(s, ins, "hot", amount, fee, DepositAddress)
  BY <1>2
<1>4. ins \subseteq PaidTo(DepositAddress) /\ DepositAddress \in {"hot", "deposit", "legacy"}
  BY ListedWasPaid DEF UtxoIInv, DepositAddress
<1>5. Value(ins) \in Nat /\ Cardinality(ins) \in Nat
  BY <1>4, ValueOfPaid DEF UtxoIInv
<1>6. SendFee(Cardinality(ins), 1, rate) \in Nat /\ SendFee(Cardinality(ins), 2, rate) \in Nat
  BY <1>5, FeeIsNat DEF UtxoAssumption, UtxoIInv
<1>7. own \in Nat /\ fee \in Nat /\ Dust \in Nat
  BY <1>1, <1>6 DEF Dust
<1>8. amount \in Nat /\ (coin \in {"DGB", "ZER"} \/ Value(ins) >= amount + fee)
  <2>1. coin \in {"DGB", "ZER"} \/ fee = own
    OBVIOUS
  <2> HIDE DEF own, fee
  <2> QED BY <1>3, <1>5, <1>7, <2>1
<1> HIDE DEF own, amount, fee
<1>9. PICK address \in {"hot", "deposit", "legacy"}, sum \in Nat, price \in Nat :
        address = DepositAddress /\ sum = amount /\ price = fee
  BY <1>4, <1>7, <1>8
<1>10. FitsIfSweep(s, ins, sum, price)
  BY <1>8, <1>9 DEF FitsIfSweep
<1>11. ins \subseteq PaidTo(address) /\ SignSpend(s, ins, "hot", sum, price, address)
  BY <1>3, <1>4, <1>9
<1> QED BY <1>1, <1>10, <1>11, SignKeepsInv

\* The network takes what is handed over, in place of what pays less and is not
\* mined; only the reason of ZER's lagging node is trusted.
LEMMA HandOverKeepsInv ==
    ASSUME UtxoAssumption, UtxoIInv, NEW s \in Sends, HandOver(s)
    PROVE  UtxoIInv'
<1>1. PICK h \in Hosts :
        /\ h.taken => Accepts(tx[s])
        /\ depth' = [t \in Txs |-> CASE t = s /\ h.taken -> "mempool"
                                     [] h.taken /\ t \in Rivals(tx[s]) -> "none"
                                     [] OTHER -> depth[t]]
        /\ send' = [t \in Sends |->
                      CASE t = s -> IF h.told = "txid" THEN "sent"
                                    ELSE IF SafeToReverse(h.told) THEN "safe" ELSE "unsure"
                        [] t # s /\ h.taken /\ t \in Rivals(tx[s]) -> "outbid"
                        [] OTHER -> send[t]]
        /\ doubt' = [doubt EXCEPT !.sends = IF h.taken /\ h.told # "txid" THEN @ \cup {s} ELSE @]
  BY DEF HandOver
<1>2. send[s] = "signed" /\ UNCHANGED <<coin, tx, credits>>
  BY DEF HandOver
<1>3. s \in Txs /\ Sends \subseteq Txs /\ depth[s] = "none" /\ s \notin Rivals(tx[s])
  BY <1>2 DEF UtxoIInv, NotYetSent, Txs, Rivals
<1>4. \A t \in Txs : h.taken /\ t \in Rivals(tx[s]) => depth[t] = "mempool"
  BY <1>1 DEF Accepts, Outbids
<1>5. ASSUME NEW t \in Txs
      PROVE  depth'[t] = IF t = s THEN IF h.taken THEN "mempool" ELSE depth[t]
                         ELSE IF h.taken /\ t \in Rivals(tx[s]) THEN "none" ELSE depth[t]
  BY <1>1, <1>3
<1>6. ASSUME NEW t \in Sends
      PROVE  send'[t] = IF t = s THEN IF h.told = "txid" THEN "sent"
                                      ELSE IF SafeToReverse(h.told) THEN "safe" ELSE "unsure"
                        ELSE IF h.taken /\ t \in Rivals(tx[s]) THEN "outbid" ELSE send[t]
  BY <1>1
<1>7. depth \in [Txs -> Depths] /\ send \in [Sends -> {"new", "signed", "sent", "safe", "unsure", "outbid"}]
      /\ doubt \in [sends : SUBSET Sends, credits : SUBSET credits]
  BY DEF UtxoIInv, UtxoRows
<1>8. doubt'.credits = doubt.credits
      /\ doubt'.sends = IF h.taken /\ h.told # "txid" THEN doubt.sends \cup {s} ELSE doubt.sends
  BY <1>1, <1>7
<1>9. UtxoRows'
  <2>1. depth' \in [Txs -> Depths]
    <3>1. \A t \in Txs : depth'[t] \in Depths
      BY <1>5, <1>7 DEF Depths
    <3>2. depth' = [t \in Txs |-> depth'[t]]
      BY <1>1
    <3> QED BY <3>1, <3>2
  <2>2. send' \in [Sends -> {"new", "signed", "sent", "safe", "unsure", "outbid"}]
    <3>1. \A t \in Sends : send'[t] \in {"new", "signed", "sent", "safe", "unsure", "outbid"}
      BY <1>6, <1>7
    <3>2. send' = [t \in Sends |-> send'[t]]
      BY <1>1
    <3> QED BY <3>1, <3>2
  <2>3. doubt' \in [sends : SUBSET Sends, credits : SUBSET credits']
    BY <1>1, <1>2, <1>7
  <2> QED BY <1>2, <2>1, <2>2, <2>3 DEF UtxoIInv, UtxoRows
<1>10. NotYetSent'
  <2>1. ASSUME NEW t \in Sends
        PROVE  /\ send'[t] = "new" => tx'[t] = NoTx
               /\ send'[t] \in {"new", "signed"} => depth'[t] = "none"
    <3>1. CASE t = s
      BY <1>6, <3>1
    <3>2. CASE t # s
      BY <1>2, <1>3, <1>5, <1>6, <3>2 DEF UtxoIInv, NotYetSent
    <3> QED BY <3>1, <3>2
  <2> QED BY <2>1 DEF NotYetSent
<1>11. HonestCredits'
  <2>1. SUFFICES ASSUME NEW c \in credits' \ doubt'.credits PROVE CreditOfAnOutput(c)'
    BY DEF HonestCredits
  <2>2. PICK o \in OutputsOfDepositors(c[1]) : depth[o[1]] = "deep" /\ c = <<o[1], o[2], Out(o).val>>
    BY <1>2, <1>8, <2>1 DEF UtxoIInv, HonestCredits, CreditOfAnOutput
  <2>3. o[1] \in Txs
    BY <1>2, <2>1, <2>2 DEF UtxoIInv, UtxoRows
  <2>4. depth'[o[1]] = "deep"
    BY <1>3, <1>4, <1>5, <2>2, <2>3
  <2>5. o \in OutputsOfDepositors(c[1])' /\ Out(o)' = Out(o)
    BY <1>2, <2>2 DEF OutputsOfDepositors, Outs, Out
  <2> QED BY <2>2, <2>4, <2>5 DEF CreditOfAnOutput
<1>12. SafeIsUnsent'
  <2>1. ASSUME NEW t \in Sends, send'[t] = "safe"
        PROVE  depth'[t] = "none" \/ (coin' = "ZER" /\ t \in doubt'.sends)
    <3>1. CASE t = s
      <4>1. coin = "ZER" /\ h.told = "missing inputs"
        BY <1>6, <2>1, <3>1 DEF SafeToReverse
      <4>2. CASE h.taken
        BY <1>2, <1>8, <3>1, <4>1, <4>2
      <4>3. CASE ~ h.taken
        BY <1>3, <1>5, <3>1, <4>3
      <4> QED BY <4>2, <4>3
    <3>2. CASE t # s
      <4>1. send[t] = "safe"
        BY <1>6, <2>1, <3>2
      <4>2. depth[t] = "none" \/ (coin = "ZER" /\ t \in doubt.sends)
        BY <4>1 DEF UtxoIInv, SafeIsUnsent
      <4> QED BY <1>2, <1>3, <1>5, <1>8, <3>2, <4>2
    <3> QED BY <3>1, <3>2
  <2> QED BY <2>1 DEF SafeIsUnsent
<1>13. SweepsFit'
  <2>1. ASSUME NEW t \in Sweeps, send'[t] = "safe" PROVE coin' \in {"DGB", "ZER"}
    <3>1. t \in Sends
      BY DEF Sends
    <3>2. CASE t = s
      BY <1>2, <1>6, <2>1, <3>1, <3>2 DEF SafeToReverse
    <3>3. CASE t # s
      <4>1. send[t] = "safe"
        BY <1>6, <2>1, <3>1, <3>3
      <4> QED BY <1>2, <4>1 DEF UtxoIInv, SweepsFit
    <3> QED BY <3>2, <3>3
  <2> QED BY <2>1 DEF SweepsFit
<1> QED BY <1>9, <1>10, <1>11, <1>12, <1>13 DEF UtxoIInv

-------------------------------------------------------------------------------
(***************************************************************************)
(* Chains of outputs: what the invariant says.                             *)
(***************************************************************************)
\* The credits of a transaction that no source miscounted map, one to one, to the
\* outputs it paid depositors, each of the same amount.
LEMMA CreditsWithinOutputs ==
    ASSUME UtxoAssumption, UtxoIInv, NEW t \in Txs, \A c \in doubt.credits : c[1] # t
    PROVE  CreditOf(t) <= Value(OutputsOfDepositors(t))
<1> DEFINE S == CreditsOf(t)
           R == OutputsOfDepositors(t)
           e == [c \in S |-> <<c[1], c[2]>>]
           f == [c \in S |-> c[3]]
           g == [o \in R |-> Out(o).val]
<1>1. ASSUME NEW c \in S
      PROVE  \E o \in R : c = <<o[1], o[2], Out(o).val>> /\ o = <<o[1], o[2]>>
  <2>1. c \in credits /\ c[1] = t /\ c \notin doubt.credits
    BY DEF CreditsOf
  <2>2. CreditOfAnOutput(c)
    BY <2>1 DEF UtxoIInv, HonestCredits
  <2>3. PICK o \in OutputsOfDepositors(t) : c = <<o[1], o[2], Out(o).val>>
    BY <2>1, <2>2 DEF CreditOfAnOutput
  <2>4. o = <<o[1], o[2]>>
    BY <2>3, OutsListed DEF OutputsOfDepositors, UtxoIInv
  <2> QED BY <2>3, <2>4
<1>2. IsFiniteSet(R)
  <2>1. IsFiniteSet(Outs(t)) /\ R \in SUBSET Outs(t)
    BY OutsListed DEF UtxoIInv, OutputsOfDepositors
  <2> QED BY <2>1, FS_Subset
<1>3. \A o \in R : g[o] \in Nat
  BY OutsListed DEF UtxoIInv, OutputsOfDepositors, AnOutput
<1>4. \A c \in S : e[c] \in R /\ f[c] = Out(e[c]).val /\ c = <<e[c][1], e[c][2], Out(e[c]).val>>
  <2>1. ASSUME NEW c \in S PROVE e[c] \in R /\ f[c] = Out(e[c]).val /\ c = <<e[c][1], e[c][2], Out(e[c]).val>>
    <3>1. PICK o \in R : c = <<o[1], o[2], Out(o).val>> /\ o = <<o[1], o[2]>>
      BY <1>1
    <3>2. e[c] = o /\ f[c] = Out(o).val
      BY <3>1
    <3> QED BY <3>1, <3>2
  <2> QED BY <2>1
<1>5. e \in [S -> R] /\ (\A c, d \in S : e[c] = e[d] => c = d) /\ (\A c \in S : f[c] = g[e[c]])
  <2>1. e \in [S -> R]
    BY <1>4
  <2>2. \A c \in S : f[c] = g[e[c]]
    BY <1>4
  <2> HIDE DEF e
  <2>3. \A c, d \in S : e[c] = e[d] => c = d
    BY <1>4
  <2> QED BY <2>1, <2>2, <2>3
<1>6. CreditOf(t) = SumFunctionOnSet(f, S) /\ Value(R) = SumFunctionOnSet(g, R)
  BY DEF CreditOf, Value
<1> HIDE DEF e, f, g, S, R
<1>7. e \in Injection(S, R)
  BY <1>5 DEF Injection, IsInjective
<1>8. IsFiniteSet(S)
  BY <1>2, <1>7, FS_Injection
<1>9. SumFunctionOnSet(f, S) <= SumFunctionOnSet(g, R)
  BY <1>2, <1>3, <1>5, <1>8, SumInto
<1> QED BY <1>6, <1>9 DEF R

\* The promise to the ledger, from the invariant.
LEMMA UtxoPromise == UtxoAssumption /\ UtxoIInv => UtxoInv
<1> SUFFICES ASSUME UtxoAssumption, UtxoIInv PROVE UtxoInv
  OBVIOUS
<1>1. UtxoTypeOK
  <2>1. coin \in Coins
    BY DEF UtxoIInv, UtxoRows
  <2> QED BY <2>1 DEF UtxoIInv, UtxoRows, UtxoTypeOK
<1>2. CreditedOnce
  BY CreditsWithinOutputs DEF CreditedOnce, OutputsOfDepositors
<1>3. CreditedDeep
  <2>1. \A c \in credits \ doubt.credits : depth[c[1]] = "deep"
    BY DEF UtxoIInv, HonestCredits, CreditOfAnOutput
  <2> QED BY <2>1 DEF CreditedDeep
<1> QED BY <1>1, <1>2, <1>3 DEF UtxoIInv, UtxoInv

\* The clients of chains of outputs keep their promise: a transaction is credited
\* at most what it paid depositors and only once deep, unless its source miscounts;
\* a send called safe to reverse is not on the network nor will be, ZER's lost answers
\* apart; a sweep of BTC or BCH never asks for more than its inputs hold
\* (crates/chain: rpc_client.rs, real_client.rs; crates/db/src/deposits.rs).
THEOREM OutputsPromise == UtxoSpec => []UtxoInv
<1>1. UtxoInit => UtxoIInv
  BY UtxoAssumption, UtxoStarts
<1>2. UtxoIInv /\ [UtxoNext]_utxoVars => UtxoIInv'
  <2> SUFFICES ASSUME UtxoIInv, [UtxoNext]_utxoVars PROVE UtxoIInv'
    OBVIOUS
  <2> USE UtxoAssumption
  <2>1. ASSUME NEW d \in Deposits, Arrive(d) PROVE UtxoIInv'
    BY <2>1, NetworkKeepsInv DEF Txs
  <2>2. ASSUME NEW t \in Txs, Mine(t) PROVE UtxoIInv'
    BY <2>2, NetworkKeepsInv
  <2>3. ASSUME NEW a \in {"deposit", "legacy"}, Watch(a) PROVE UtxoIInv'
    BY <2>3, WatchKeepsInv
  <2>4. ASSUME NEW s \in Withdrawals, SignWithdrawal(s) PROVE UtxoIInv'
    BY <2>4, SignWithdrawalKeepsInv
  <2>5. ASSUME NEW s \in Sweeps, SignSweep(s) PROVE UtxoIInv'
    BY <2>5, SignSweepKeepsInv
  <2>6. ASSUME NEW s \in Sends, HandOver(s) PROVE UtxoIInv'
    BY <2>6, HandOverKeepsInv
  <2>7. CASE UNCHANGED utxoVars
    <3>1. Sends \subseteq Txs /\ depth' \in [Txs -> Depths]
      BY <2>7 DEF utxoVars, Txs, UtxoIInv, UtxoRows
    <3> QED BY <2>7, <3>1, DepthsMove DEF utxoVars
  <2> QED BY <2>1, <2>2, <2>3, <2>4, <2>5, <2>6, <2>7 DEF UtxoNext
<1>3. UtxoIInv => UtxoInv
  BY UtxoAssumption, UtxoPromise
<1> QED BY <1>1, <1>2, <1>3, PTL DEF UtxoSpec

-------------------------------------------------------------------------------
(***************************************************************************)
(* Chains of balances: the invariant.                                      *)
(***************************************************************************)
States == {"none", "pool", "ok", "reverted", "dropped"}
Pcs == Gone \cup {"new", "balance", "try", "signed", "wait"}

\* What is kept of sends, attempts and balances.
EvmRows ==
    /\ batch \in Batches
    /\ at \in [batch -> [pc : Pcs, leg : Legs, rpc : 1 .. Rpcs, val : Nat]]
    /\ net \in [Attempts -> [st : States, nonce : Nat, val : Nat]]
    /\ nonce \in [Addresses -> Nat] /\ native \in [Addresses -> Nat] /\ token \in [Addresses -> Nat]
    /\ allowed \in BOOLEAN /\ arrived \subseteq {"POL", "token"} /\ unheard \subseteq batch

\* Where a send is, x, is on one of its legs.
LegInTurn(s, x) ==
    /\ x.pc \in {"try", "signed", "wait"} => x.leg \in LegsOf(Kind[s])
    /\ x.pc = "balance" => Kind[s] = "sweepPol"
    /\ x.pc = "wait" => Waits(x.leg)

\* What it did not try yet has no transaction.
Untried(s, x, a) ==
    \/ x.pc \in {"new", "balance"}
    \/ x.pc \in {"try", "signed"} /\ a[2] = x.leg /\ a[3] >= x.rpc
    \/ x.pc = "wait" /\ a[2] = x.leg /\ a[3] > x.rpc
    \/ x.pc \in {"try", "signed", "wait"} /\ x.leg # Kind[s] /\ a[2] = Kind[s]

UntriedIsUnsent(s, x) == \A a \in Attempts : a[1] = s /\ Untried(s, x, a) => net[a].st = "none"

\* What it signed is what it meant.
SignedAsMeant(s, x) == x.pc = "signed" => net[<<s, x.leg, x.rpc>>].val = x.val

\* Until an endpoint says it took one, no transaction of its own is on the way; then
\* that one alone; and none if it may be reversed.
Moves(a) == net[a].st \in {"pool", "ok"}

OnlyTheLast(s, x) ==
    s \notin unheard => \A a \in Main(s) : Moves(a) =>
        x.pc \in {"sent", "unsure"} \/ (x.pc = "wait" /\ a = <<s, x.leg, x.rpc>>)

\* Tokens leave their address all at once, after they came.
TokensInTurn(x) ==
    x.pc \in {"try", "signed", "wait"} =>
        /\ x.leg \in {"topup", "sweepToken"} => "token" \in arrived
        /\ x.leg = "topup" => x.val = TopUp
        /\ x.leg = "sweepToken" /\ token["deposit"] > 0 => x.val = Token

\* As long as every answer was heard and the tokens are there, the gas given for
\* them is there, whatever a sweep of POL read, signed or sent.
Whole == unheard = {} /\ ("token" \in arrived => token["deposit"] > 0)
Topped == \E a \in Attempts : a[2] = "topup" /\ net[a].st = "ok"
Given == IF Topped THEN TopUp ELSE 0

GasLeft(x) ==
    Whole => /\ x.pc = "balance" => native["deposit"] >= x.val
             /\ x.pc \in {"try", "signed"} /\ x.leg = "sweepPol" => native["deposit"] >= x.val + Gas + Given

Sound(s, x) ==
    /\ LegInTurn(s, x) /\ UntriedIsUnsent(s, x) /\ SignedAsMeant(s, x) /\ OnlyTheLast(s, x)
    /\ TokensInTurn(x) /\ GasLeft(x)

\* The same of the transactions themselves.
OneOnItsWay == \A s \in batch \ unheard : \A a, b \in Main(s) : Moves(a) /\ Moves(b) => a = b

TokensSwept ==
    /\ token["deposit"] \in IF "token" \in arrived THEN {0, Token} ELSE {0}
    /\ \A a \in Attempts :
          /\ a[2] \in {"topup", "sweepToken"} /\ net[a].st # "none" => "token" \in arrived
          /\ a[2] = "topup" /\ net[a].st = "pool" => net[a].val = TopUp
          /\ a[2] = "sweepToken" /\ net[a].st = "pool" /\ token["deposit"] > 0 => net[a].val = Token

GasGiven ==
    Whole => /\ native["deposit"] >= Given
             /\ \A a \in Attempts : a[2] = "sweepPol" /\ net[a].st = "pool" =>
                    native["deposit"] >= net[a].val + Gas + Given

\* Rows are of transfers that stay, unless the balance was taken for one.
CreditsListed == (\E c \in polCredits : c[1] = <<"balance">>) \/ polCredits \subseteq Blockscout

\* The inductive invariant.
EvmIInv ==
    /\ EvmRows /\ \A s \in batch : Sound(s, at[s])
    /\ OneOnItsWay /\ TokensSwept /\ GasGiven /\ CreditsListed

-------------------------------------------------------------------------------
(***************************************************************************)
(* Chains of balances: attempts and steps.                                 *)
(***************************************************************************)
AtRows == [pc : Pcs, leg : Legs, rpc : 1 .. Rpcs, val : Nat]
NetRows == [st : States, nonce : Nat, val : Nat]

\* An attempt is of a send of the batch, on one of its legs, at an endpoint.
LEMMA AttemptsListed ==
    \A a : a \in Attempts <=> \E s \in batch : \E l \in LegsOf(Kind[s]), r \in 1 .. Rpcs : a = <<s, l, r>>
  BY DEF Attempts

\* ... which is all it says; there are finitely many.
LEMMA AttemptParts ==
    ASSUME EvmAssumption, EvmRows
    PROVE  /\ \A a \in Attempts : /\ a = <<a[1], a[2], a[3]>> /\ a[1] \in batch /\ a[2] \in LegsOf(Kind[a[1]])
                                  /\ a[3] \in 1 .. Rpcs /\ a[2] \in Legs
           /\ IsFiniteSet(Attempts)
<1>1. \A s \in batch : Kind[s] \in {"pol", "erc20", "call", "sweepPol", "sweepToken", "sol"}
  BY DEF EvmRows, EvmAssumption
<1>2. \A s \in batch : LegsOf(Kind[s]) \subseteq Legs
  BY <1>1 DEF LegsOf, Legs
<1>3. ASSUME NEW a \in Attempts
      PROVE  /\ a = <<a[1], a[2], a[3]>> /\ a[1] \in batch /\ a[2] \in LegsOf(Kind[a[1]])
             /\ a[3] \in 1 .. Rpcs /\ a[2] \in Legs
  <2>1. PICK s \in batch : \E l \in LegsOf(Kind[s]), r \in 1 .. Rpcs : a = <<s, l, r>>
    BY AttemptsListed
  <2> QED BY <1>2, <2>1
<1>4. IsFiniteSet(Legs)
  <2> DEFINE n == <<"pol", "erc20", "call", "sweepPol", "sweepToken", "sol", "topup", "approve">>
             f == [i \in 1 .. 8 |-> n[i]]
  <2>1. f \in [1 .. 8 -> Legs]
    <3>1. \A i \in 1 .. 8 : n[i] \in Legs
      BY DEF Legs
    <3> QED BY <3>1
  <2>2. /\ f[1] = "pol" /\ f[2] = "erc20" /\ f[3] = "call" /\ f[4] = "sweepPol" /\ f[5] = "sweepToken" /\ f[6] = "sol"
        /\ f[7] = "topup" /\ f[8] = "approve"
    OBVIOUS
  <2>3. 1 \in 1 .. 8 /\ 2 \in 1 .. 8 /\ 3 \in 1 .. 8 /\ 4 \in 1 .. 8 /\ 5 \in 1 .. 8 /\ 6 \in 1 .. 8 /\ 7 \in 1 .. 8 /\ 8 \in 1 .. 8
    OBVIOUS
  <2> HIDE DEF f
  <2>4. \A t \in Legs : \E i \in 1 .. 8 : f[i] = t
    BY <2>2, <2>3, Zenon DEF Legs
  <2>5. f \in Surjection(1 .. 8, Legs)
    BY <2>1, <2>4 DEF Surjection
  <2>6. IsFiniteSet(1 .. 8)
    <3>1. \A k \in Nat : IsFiniteSet(1 .. k)
      BY FS_Interval
    <3> QED BY <3>1, Zenon
  <2> QED BY <2>5, <2>6, FS_Surjection
<1>5. IsFiniteSet(batch) /\ IsFiniteSet(1 .. Rpcs)
  BY FS_Interval DEF EvmRows, EvmAssumption
<1>6. IsFiniteSet(batch \X (Legs \X (1 .. Rpcs)))
  BY <1>4, <1>5, FS_Product
<1> DEFINE g == [a \in Attempts |-> <<a[1], <<a[2], a[3]>>>>]
<1>7. g \in Injection(Attempts, batch \X (Legs \X (1 .. Rpcs)))
  <2>1. g \in [Attempts -> batch \X (Legs \X (1 .. Rpcs))]
    BY <1>3
  <2>2. ASSUME NEW a \in Attempts, NEW b \in Attempts, g[a] = g[b] PROVE a = b
    <3>1. a[1] = b[1] /\ a[2] = b[2] /\ a[3] = b[3]
      BY <2>2
    <3> QED BY <1>3, <3>1
  <2> QED BY <2>1, <2>2 DEF Injection, IsInjective
<1>8. IsFiniteSet(Attempts)
  BY <1>6, <1>7, FS_Injection
<1> QED BY <1>3, <1>8

\* A send on one of its legs is at an attempt.
LEMMA HereIsAttempt ==
    ASSUME EvmAssumption, EvmIInv, NEW s \in batch, at[s].pc \in {"try", "signed", "wait"}
    PROVE  /\ Here(s) \in Attempts /\ Here(s)[1] = s /\ Here(s)[2] = at[s].leg /\ Here(s)[3] = at[s].rpc
           /\ at[s].leg \in LegsOf(Kind[s]) /\ at[s].rpc \in 1 .. Rpcs /\ at[s].val \in Nat /\ at[s].leg \in Legs
<1>1. at[s] \in AtRows
  BY DEF EvmIInv, EvmRows, AtRows
<1>2. at[s].leg \in LegsOf(Kind[s])
  BY DEF EvmIInv, Sound, LegInTurn
<1>3. Here(s) \in Attempts
  BY <1>1, <1>2, AttemptsListed DEF Here, AtRows
<1> QED BY <1>1, <1>2, <1>3 DEF Here, AtRows

\* Only where one send is has changed.
LEMMA AtStep ==
    ASSUME EvmIInv, NEW s \in batch, NEW x \in AtRows,
           at' = [at EXCEPT ![s] = x], Only, UNCHANGED unheard, Sound(s, x)
    PROVE  EvmIInv'
<1>1. /\ batch' = batch /\ net' = net /\ nonce' = nonce /\ native' = native /\ token' = token
      /\ allowed' = allowed /\ arrived' = arrived /\ polCredits' = polCredits /\ unheard' = unheard
      /\ Attempts' = Attempts
  BY DEF Only, Attempts
<1>2. at \in [batch -> AtRows]
  BY DEF EvmIInv, EvmRows, AtRows
<1>3. EvmRows'
  BY <1>1, <1>2 DEF EvmIInv, EvmRows, AtRows
<1>4. ASSUME NEW t \in batch', NEW y, y = at'[t] PROVE Sound(t, y)'
  <2>1. Sound(t, y)
    BY <1>1, <1>2, <1>4 DEF EvmIInv
  <2>2. UntriedIsUnsent(t, y)'
    BY <1>1, <2>1 DEF Sound, UntriedIsUnsent, Untried
  <2>3. OnlyTheLast(t, y)'
    BY <1>1, <2>1 DEF Sound, OnlyTheLast, Main, Moves
  <2>4. GasLeft(y)'
    BY <1>1, <2>1 DEF Sound, GasLeft, Whole, Given, Topped
  <2> QED BY <1>1, <2>1, <2>2, <2>3, <2>4 DEF Sound, LegInTurn, SignedAsMeant, TokensInTurn
<1>5. \A t \in batch' : Sound(t, at[t])'
  BY <1>4 DEF Sound, LegInTurn, UntriedIsUnsent, Untried, SignedAsMeant, OnlyTheLast, TokensInTurn, GasLeft
<1>6. OneOnItsWay'
  BY <1>1 DEF EvmIInv, OneOnItsWay, Main, Moves
<1>7. TokensSwept'
  BY <1>1 DEF EvmIInv, TokensSwept
<1>8. GasGiven'
  BY <1>1 DEF EvmIInv, GasGiven, Whole, Given, Topped
<1>9. CreditsListed'
  BY <1>1 DEF EvmIInv, CreditsListed, Blockscout
<1> QED BY <1>3, <1>5, <1>6, <1>7, <1>8, <1>9 DEF EvmIInv

\* A send at rest has an end alone to account for.
LEMMA EndStep ==
    ASSUME EvmAssumption, EvmIInv, NEW s \in batch, NEW how \in Gone, End(s, how), Only, UNCHANGED unheard,
           NEW x, x.pc = how, OnlyTheLast(s, x), x = [AtRest EXCEPT !.pc = how]
    PROVE  EvmIInv'
<1>1. x \in AtRows /\ x.pc \in {"sent", "safe", "unsure", "nothing"}
  BY DEF AtRows, AtRest, Gone, Pcs, Legs, EvmAssumption
<1>2. Sound(s, x)
  BY <1>1 DEF Sound, LegInTurn, UntriedIsUnsent, Untried, SignedAsMeant, TokensInTurn, GasLeft
<1> QED BY <1>1, <1>2, AtStep DEF End

\* Before an endpoint has one of its transactions, none of them moves.
LEMMA NoneMoves ==
    ASSUME EvmAssumption, EvmIInv, NEW s \in batch, at[s].pc \in {"new", "balance", "try", "signed"}, NEW x
    PROVE  OnlyTheLast(s, x)
<1>1. ASSUME NEW a \in Main(s), s \notin unheard, Moves(a) PROVE FALSE
  <2>1. OnlyTheLast(s, at[s])
    BY DEF EvmIInv, Sound
  <2> QED BY <1>1, <2>1 DEF OnlyTheLast
<1> QED BY <1>1 DEF OnlyTheLast

\* ... nor while its first leg waits.
LEMMA NoneMovesYet ==
    ASSUME EvmAssumption, EvmIInv, NEW s \in batch, at[s].pc = "wait", at[s].leg # Kind[s], NEW x
    PROVE  OnlyTheLast(s, x)
<1>1. ASSUME NEW a \in Main(s), Moves(a) PROVE FALSE
  <2>1. a \in Attempts /\ a[1] = s /\ a[2] = Kind[s]
    BY DEF Main
  <2>2. Untried(s, at[s], a)
    BY <2>1 DEF Untried
  <2>3. net[a].st = "none"
    BY <2>1, <2>2 DEF EvmIInv, Sound, UntriedIsUnsent
  <2> QED BY <1>1, <2>3 DEF Moves
<1> QED BY <1>1 DEF OnlyTheLast

\* One that begins has no transaction.
LEMMA BeginStep ==
    ASSUME EvmAssumption, EvmIInv, NEW s \in batch, at[s].pc \in {"new", "balance"}, Only, UNCHANGED unheard,
           NEW l \in LegsOf(Kind[s]), NEW v \in Nat, NEW pc \in {"balance", "try"}, Go(s, pc, l, 1, v),
           pc = "balance" => Kind[s] = "sweepPol",
           NEW x, x = [pc |-> pc, leg |-> l, rpc |-> 1, val |-> v], TokensInTurn(x), GasLeft(x)
    PROVE  EvmIInv'
<1>1. l \in Legs
  BY DEF EvmIInv, EvmRows, EvmAssumption, LegsOf, Legs
<1>2. x \in AtRows
  BY <1>1 DEF AtRows, Pcs, Gone, EvmAssumption
<1>3. \A a \in Attempts : a[1] = s => net[a].st = "none"
  BY DEF EvmIInv, Sound, UntriedIsUnsent, Untried
<1>4. OnlyTheLast(s, x)
  BY NoneMoves
<1>5. Sound(s, x)
  BY <1>3, <1>4 DEF Sound, LegInTurn, UntriedIsUnsent, SignedAsMeant
<1> QED BY <1>2, <1>5, AtStep DEF Go

\* A send begins with its first leg.
LEMMA BeginSendKeepsInv ==
    ASSUME EvmAssumption, EvmIInv, NEW s \in batch, BeginSend(s)
    PROVE  EvmIInv'
<1> DEFINE l == IF Kind[s] = "call" THEN "approve" ELSE Kind[s]
<1>1. /\ at[s].pc = "new" /\ Kind[s] \in {"pol", "erc20", "call", "sol"}
      /\ Go(s, "try", l, 1, EvmAmount) /\ Only /\ UNCHANGED unheard
  BY DEF BeginSend
<1>2. l \in LegsOf(Kind[s]) /\ l \notin {"topup", "sweepToken", "sweepPol"}
  BY <1>1 DEF LegsOf
<1>3. EvmAmount \in Nat
  BY DEF EvmAssumption
<1> HIDE DEF l
<1>4. PICK x : x = [pc |-> "try", leg |-> l, rpc |-> 1, val |-> EvmAmount]
  OBVIOUS
<1>5. TokensInTurn(x) /\ GasLeft(x)
  BY <1>2, <1>4 DEF TokensInTurn, GasLeft
<1> QED BY <1>1, <1>2, <1>3, <1>4, <1>5, BeginStep

\* A sweep of POL reads a balance, which stays while the tokens do.
LEMMA ReadSweepKeepsInv ==
    ASSUME EvmAssumption, EvmIInv, NEW s \in batch, ReadSweep(s)
    PROVE  EvmIInv'
<1>1. /\ at[s].pc = "new" /\ Kind[s] = "sweepPol"
      /\ Go(s, "balance", "sweepPol", 1, native["deposit"]) /\ Only /\ UNCHANGED unheard
  BY DEF ReadSweep
<1>2. "sweepPol" \in LegsOf(Kind[s])
  BY <1>1 DEF LegsOf
<1>3. native["deposit"] \in Nat
  BY DEF EvmIInv, EvmRows, Addresses
<1>4. PICK x : x = [pc |-> "balance", leg |-> "sweepPol", rpc |-> 1, val |-> native["deposit"]]
  OBVIOUS
<1>5. TokensInTurn(x) /\ GasLeft(x)
  BY <1>3, <1>4 DEF TokensInTurn, GasLeft
<1> QED BY <1>1, <1>2, <1>3, <1>4, <1>5, BeginStep

\* It leaves what tokens there may need.
LEMMA BeginSweepKeepsInv ==
    ASSUME EvmAssumption, EvmIInv, NEW s \in batch, BeginSweep(s)
    PROVE  EvmIInv'
<1>1. at[s].pc = "balance" /\ Only /\ UNCHANGED unheard
  BY DEF BeginSweep
<1>2. PICK reserve \in {TopUp} \cup (IF token["deposit"] > 0 THEN {} ELSE {0}) :
        LET v == Sendable(at[s].val, reserve)
        IN IF v = 0 THEN End(s, "nothing") ELSE Go(s, "try", "sweepPol", 1, v)
  BY DEF BeginSweep
<1> DEFINE v == Sendable(at[s].val, reserve)
<1>3. Kind[s] = "sweepPol" /\ "sweepPol" \in LegsOf(Kind[s])
  BY <1>1 DEF EvmIInv, Sound, LegInTurn, LegsOf
<1>4. /\ at[s].val \in Nat /\ reserve \in Nat /\ Gas \in Nat /\ PolDust \in Nat /\ TopUp \in Nat
      /\ native["deposit"] \in Nat /\ token["deposit"] \in Nat
  BY DEF EvmIInv, EvmRows, EvmAssumption, Addresses
<1>5. v \in Nat /\ (v # 0 => v = at[s].val - Gas - reserve)
  BY <1>4 DEF Sendable
<1>6. CASE v = 0
  <2>1. PICK x : x = [AtRest EXCEPT !.pc = "nothing"]
    OBVIOUS
  <2>2. x.pc = "nothing" /\ OnlyTheLast(s, x)
    BY <1>1, <2>1, NoneMoves DEF AtRest
  <2> QED BY <1>1, <1>2, <1>6, <2>1, <2>2, EndStep DEF Gone
<1>7. CASE v # 0
  <2> HIDE DEF v
  <2>1. PICK x : x = [pc |-> "try", leg |-> "sweepPol", rpc |-> 1, val |-> v]
    OBVIOUS
  <2>2. TokensInTurn(x)
    BY <2>1 DEF TokensInTurn
  <2>3. GasLeft(x)
    <3>1. SUFFICES ASSUME Whole PROVE native["deposit"] >= v + Gas + Given
      BY <2>1 DEF GasLeft
    <3>2. native["deposit"] >= at[s].val
      BY <1>1, <3>1 DEF EvmIInv, Sound, GasLeft
    <3>3. Given <= reserve /\ Given \in Nat
      <4>1. CASE reserve = TopUp
        BY <1>4, <4>1 DEF Given
      <4>2. CASE reserve # TopUp
        <5>1. reserve = 0 /\ ~ token["deposit"] > 0
          BY <4>2
        <5>2. "token" \notin arrived
          BY <3>1, <5>1 DEF Whole
        <5>3. ~ Topped
          BY <5>2 DEF EvmIInv, TokensSwept, Topped
        <5> QED BY <5>1, <5>3 DEF Given
      <4> QED BY <4>1, <4>2
    <3> QED BY <1>4, <1>5, <1>7, <3>2, <3>3
  <2>4. Go(s, "try", "sweepPol", 1, v)
    BY <1>2, <1>7 DEF v
  <2> QED BY <1>1, <1>3, <1>5, <2>1, <2>2, <2>3, <2>4, BeginStep
<1> QED BY <1>6, <1>7

\* A sweep of tokens begins where they are, with gas if there is too little.
LEMMA BeginTokenSweepKeepsInv ==
    ASSUME EvmAssumption, EvmIInv, NEW s \in batch, BeginTokenSweep(s)
    PROVE  EvmIInv'
<1>1. at[s].pc = "new" /\ Kind[s] = "sweepToken" /\ Only /\ UNCHANGED unheard
  BY DEF BeginTokenSweep
<1>2. token["deposit"] \in Nat /\ TopUp \in Nat
  BY DEF EvmIInv, EvmRows, EvmAssumption, Addresses
<1>3. CASE token["deposit"] = 0
  <2>1. PICK x : x = [AtRest EXCEPT !.pc = "nothing"]
    OBVIOUS
  <2>2. x.pc = "nothing" /\ OnlyTheLast(s, x)
    BY <1>1, <2>1, NoneMoves DEF AtRest
  <2>3. End(s, "nothing")
    BY <1>3 DEF BeginTokenSweep
  <2> QED BY <1>1, <2>1, <2>2, <2>3, EndStep DEF Gone
<1>4. ASSUME token["deposit"] # 0, NEW l \in {"topup", "sweepToken"}, NEW v \in Nat, Go(s, "try", l, 1, v),
             l = "topup" => v = TopUp, l = "sweepToken" => v = token["deposit"]
      PROVE  EvmIInv'
  <2>1. PICK x : x = [pc |-> "try", leg |-> l, rpc |-> 1, val |-> v]
    OBVIOUS
  <2>2. l \in LegsOf(Kind[s])
    BY <1>1 DEF LegsOf
  <2>3. "token" \in arrived /\ token["deposit"] = Token
    BY <1>4 DEF EvmIInv, TokensSwept
  <2>4. TokensInTurn(x) /\ GasLeft(x)
    BY <1>4, <2>1, <2>3 DEF TokensInTurn, GasLeft
  <2> QED BY <1>1, <1>4, <2>1, <2>2, <2>4, BeginStep
<1>5. CASE token["deposit"] # 0
  <2>1. Go(s, "try", "topup", 1, TopUp) \/ Go(s, "try", "sweepToken", 1, token["deposit"])
    BY <1>5 DEF BeginTokenSweep
  <2> QED BY <1>2, <1>4, <1>5, <2>1
<1> QED BY <1>3, <1>5

\* The next endpoint, with the same leg, or a safe end.
LEMMA NextRpcLeads ==
    ASSUME EvmAssumption, EvmIInv, NEW s \in batch, at[s].pc \in {"try", "signed", "wait"}, NextRpc(s)
    PROVE  \E x \in AtRows :
             /\ at' = [at EXCEPT ![s] = x]
             /\ \/ x = [AtRest EXCEPT !.pc = "safe"]
                \/ x = [pc |-> "try", leg |-> at[s].leg, rpc |-> at[s].rpc + 1, val |-> at[s].val]
<1>1. at \in [batch -> AtRows] /\ at[s] \in AtRows
  BY DEF EvmIInv, EvmRows, AtRows
<1>2. CASE at[s].rpc < Rpcs /\ at[s].leg # "sol"
  <2>1. at' = [at EXCEPT ![s].rpc = @ + 1, ![s].pc = "try"]
    BY <1>2 DEF NextRpc
  <2> DEFINE x == [pc |-> "try", leg |-> at[s].leg, rpc |-> at[s].rpc + 1, val |-> at[s].val]
  <2>2. at' = [at EXCEPT ![s] = x]
    <3>1. x = [[at[s] EXCEPT !.rpc = at[s].rpc + 1] EXCEPT !.pc = "try"]
      <4>1. PICK y \in AtRows : y = at[s]
        BY <1>1
      <4>2. PICK r : r = y.rpc + 1
        OBVIOUS
      <4>3. [y EXCEPT !.rpc = r] = [pc |-> y.pc, leg |-> y.leg, rpc |-> r, val |-> y.val]
        BY DEF AtRows
      <4>4. [[pc |-> y.pc, leg |-> y.leg, rpc |-> r, val |-> y.val] EXCEPT !.pc = "try"]
              = [pc |-> "try", leg |-> y.leg, rpc |-> r, val |-> y.val]
        OBVIOUS
      <4> QED BY <4>1, <4>2, <4>3, <4>4
    <3>2. at' = [at EXCEPT ![s] = [[at[s] EXCEPT !.rpc = at[s].rpc + 1] EXCEPT !.pc = "try"]]
      BY <1>1, <2>1
    <3> QED BY <3>1, <3>2
  <2>3. x \in AtRows
    BY <1>1, <1>2 DEF AtRows, Pcs, EvmAssumption
  <2> QED BY <2>2, <2>3
<1>3. CASE ~ (at[s].rpc < Rpcs /\ at[s].leg # "sol")
  <2>1. End(s, "safe")
    BY <1>3 DEF NextRpc
  <2>2. [AtRest EXCEPT !.pc = "safe"] \in AtRows
    BY DEF AtRest, AtRows, Pcs, Gone, Legs, EvmAssumption
  <2> QED BY <2>1, <2>2 DEF End
<1> QED BY <1>2, <1>3

\* What is next, where none of its transactions moves.
LEMMA NextRpcStep ==
    ASSUME EvmAssumption, EvmIInv, NEW s \in batch, at[s].pc \in {"try", "wait"}, NextRpc(s),
           Only, UNCHANGED unheard, \A x : OnlyTheLast(s, x)
    PROVE  EvmIInv'
<1>1. PICK x \in AtRows :
        /\ at' = [at EXCEPT ![s] = x]
        /\ \/ x = [AtRest EXCEPT !.pc = "safe"]
           \/ x = [pc |-> "try", leg |-> at[s].leg, rpc |-> at[s].rpc + 1, val |-> at[s].val]
  BY NextRpcLeads
<1>2. CASE x = [AtRest EXCEPT !.pc = "safe"]
  BY <1>1, <1>2, EndStep DEF End, Gone, AtRest
<1>3. CASE x = [pc |-> "try", leg |-> at[s].leg, rpc |-> at[s].rpc + 1, val |-> at[s].val]
  <2>1. Sound(s, at[s]) /\ at[s] \in AtRows
    BY DEF EvmIInv, EvmRows, AtRows
  <2>2. LegInTurn(s, x) /\ SignedAsMeant(s, x) /\ OnlyTheLast(s, x) /\ TokensInTurn(x)
    BY <1>3, <2>1 DEF Sound, LegInTurn, SignedAsMeant, TokensInTurn
  <2>3. UntriedIsUnsent(s, x)
    <3>1. ASSUME NEW a \in Attempts, a[1] = s, Untried(s, x, a) PROVE Untried(s, at[s], a)
      <4>1. a[3] \in Nat /\ at[s].rpc \in Nat
        BY <2>1, AttemptParts DEF EvmIInv, AtRows, EvmAssumption
      <4> QED BY <1>3, <3>1, <4>1 DEF Untried
    <3> QED BY <2>1, <3>1 DEF Sound, UntriedIsUnsent
  <2>4. GasLeft(x)
    <3>1. at[s].pc = "wait" => x.leg # "sweepPol"
      BY <1>3, <2>1 DEF Sound, LegInTurn, Waits
    <3> QED BY <1>3, <2>1, <3>1 DEF Sound, GasLeft
  <2>5. Sound(s, x)
    BY <2>2, <2>3, <2>4 DEF Sound
  <2> QED BY <1>1, <2>5, AtStep
<1> QED BY <1>1, <1>2, <1>3

\* A read fails.
LEMMA ReadFailsKeepsInv ==
    ASSUME EvmAssumption, EvmIInv, NEW s \in batch, ReadFails(s)
    PROVE  EvmIInv'
<1>1. at[s].pc = "try" /\ NextRpc(s) /\ Only /\ UNCHANGED unheard
  BY DEF ReadFails
<1>2. \A x : OnlyTheLast(s, x)
  BY <1>1, NoneMoves
<1> QED BY <1>1, <1>2, NextRpcStep

\* A check refuses before anything is signed.
LEMMA PreflightKeepsInv ==
    ASSUME EvmAssumption, EvmIInv, NEW s \in batch, Preflight(s)
    PROVE  EvmIInv'
<1>1. at[s].pc = "try" /\ End(s, "safe") /\ Only /\ UNCHANGED unheard
  BY DEF Preflight
<1>2. PICK x : x = [AtRest EXCEPT !.pc = "safe"]
  OBVIOUS
<1>3. x.pc = "safe" /\ OnlyTheLast(s, x)
  BY <1>1, <1>2, NoneMoves DEF AtRest
<1> QED BY <1>1, <1>2, <1>3, EndStep DEF Gone

\* A leg of two is done: the second one begins, or the gas was all.
LEMMA FirstLegStep ==
    ASSUME EvmAssumption, EvmIInv, NEW s \in batch, at[s].pc \in {"try", "wait"},
           at[s].leg \in {"topup", "approve"}, LegDone(s), Only, UNCHANGED unheard
    PROVE  EvmIInv'
<1>1. at[s] \in AtRows /\ Sound(s, at[s]) /\ Kind[s] \in {"pol", "erc20", "call", "sweepPol", "sweepToken", "sol"}
  BY DEF EvmIInv, EvmRows, AtRows, EvmAssumption
<1>2. at[s].leg \in LegsOf(Kind[s])
  BY <1>1 DEF Sound, LegInTurn
<1>3. /\ at[s].leg = "topup" => Kind[s] = "sweepToken"
      /\ at[s].leg = "approve" => Kind[s] = "call"
  BY <1>1, <1>2 DEF LegsOf
<1>4. \A x : OnlyTheLast(s, x)
  BY <1>3, NoneMoves, NoneMovesYet
<1>5. \A a \in Attempts : a[1] = s /\ a[2] = Kind[s] => net[a].st = "none"
  BY <1>1, <1>3 DEF Sound, UntriedIsUnsent, Untried
<1>6. ASSUME NEW v \in Nat, Go(s, "try", Kind[s], 1, v),
             at[s].leg = "topup" => v = token["deposit"]
      PROVE  EvmIInv'
  <2>1. PICK x : x = [pc |-> "try", leg |-> Kind[s], rpc |-> 1, val |-> v]
    OBVIOUS
  <2>2. x \in AtRows
    BY <1>3, <2>1 DEF AtRows, Pcs, Legs, EvmAssumption
  <2>3. LegInTurn(s, x) /\ UntriedIsUnsent(s, x) /\ SignedAsMeant(s, x) /\ GasLeft(x)
    BY <1>3, <1>5, <2>1 DEF LegInTurn, LegsOf, UntriedIsUnsent, Untried, SignedAsMeant, GasLeft
  <2>4. TokensInTurn(x)
    <3>1. at[s].leg = "topup" => "token" \in arrived
      BY <1>1 DEF Sound, TokensInTurn
    <3>2. token["deposit"] > 0 => token["deposit"] = Token
      BY DEF EvmIInv, TokensSwept
    <3> QED BY <1>3, <1>6, <2>1, <3>1, <3>2 DEF TokensInTurn
  <2>5. Sound(s, x)
    BY <1>4, <2>3, <2>4 DEF Sound
  <2> QED BY <1>6, <2>1, <2>2, <2>5, AtStep DEF Go
<1>7. CASE at[s].leg = "topup"
  <2>1. token["deposit"] \in Nat
    BY DEF EvmIInv, EvmRows, Addresses
  <2>2. CASE Go(s, "try", "sweepToken", 1, token["deposit"])
    BY <1>3, <1>6, <1>7, <2>1, <2>2
  <2>3. CASE End(s, "nothing")
    <3>1. PICK x : x = [AtRest EXCEPT !.pc = "nothing"]
      OBVIOUS
    <3> QED BY <1>4, <2>3, <3>1, EndStep DEF Gone, AtRest
  <2> QED BY <1>7, <2>2, <2>3 DEF LegDone
<1>8. CASE at[s].leg = "approve"
  <2>1. Go(s, "try", "call", 1, at[s].val)
    BY <1>8 DEF LegDone
  <2> QED BY <1>1, <1>3, <1>6, <1>8, <2>1 DEF AtRows
<1> QED BY <1>7, <1>8

\* The router may take the tokens already.
LEMMA AllowedKeepsInv ==
    ASSUME EvmAssumption, EvmIInv, NEW s \in batch, Allowed(s)
    PROVE  EvmIInv'
<1>1. at[s].pc = "try" /\ at[s].leg = "approve" /\ LegDone(s) /\ Only /\ UNCHANGED unheard
  BY DEF Allowed
<1> QED BY <1>1, FirstLegStep

\* What a receipt says, or that none came.
LEMMA ReceiptKeepsInv ==
    ASSUME EvmAssumption, EvmIInv, NEW s \in batch, Receipt(s)
    PROVE  EvmIInv'
<1>1. at[s].pc = "wait" /\ Only /\ UNCHANGED unheard
  BY DEF Receipt
<1>2. Sound(s, at[s]) /\ Kind[s] \in {"pol", "erc20", "call", "sweepPol", "sweepToken", "sol"}
  BY DEF EvmIInv, EvmRows, EvmAssumption
<1>3. at[s].leg \in {"topup", "approve"} => at[s].leg # Kind[s]
  BY <1>2
<1>4. at[s].leg \in {"topup", "approve"} => \A x : OnlyTheLast(s, x)
  BY <1>1, <1>3, NoneMovesYet
<1>5. CASE net[Here(s)].st = "ok" /\ LegDone(s)
  <2>1. CASE at[s].leg \in {"topup", "approve"}
    BY <1>1, <1>5, <2>1, FirstLegStep
  <2>2. CASE at[s].leg \notin {"topup", "approve"}
    <3>1. End(s, "sent")
      BY <1>5, <2>2 DEF LegDone
    <3>2. PICK x : x = [AtRest EXCEPT !.pc = "sent"]
      OBVIOUS
    <3>3. x.pc = "sent" /\ OnlyTheLast(s, x)
      BY <3>2 DEF AtRest, OnlyTheLast
    <3> QED BY <1>1, <3>1, <3>2, <3>3, EndStep DEF Gone
  <2> QED BY <2>1, <2>2
<1>6. CASE net[Here(s)].st = "reverted" /\ End(s, "safe")
  <2>1. PICK x : x = [AtRest EXCEPT !.pc = "safe"]
    OBVIOUS
  <2>2. ASSUME NEW a \in Main(s), s \notin unheard, Moves(a) PROVE FALSE
    <3>1. a = Here(s)
      BY <1>1, <1>2, <2>2 DEF Sound, OnlyTheLast, Here
    <3> QED BY <1>6, <2>2, <3>1 DEF Moves
  <2>3. x.pc = "safe" /\ OnlyTheLast(s, x)
    BY <2>1, <2>2 DEF AtRest, OnlyTheLast
  <2> QED BY <1>1, <1>6, <2>1, <2>3, EndStep DEF Gone
<1>7. CASE at[s].leg = "approve" /\ NextRpc(s)
  BY <1>1, <1>4, <1>7, NextRpcStep
<1>8. CASE at[s].leg # "approve" /\ End(s, NoReceipt(at[s].leg))
  <2>1. PICK how \in Gone : how = NoReceipt(at[s].leg)
    BY DEF NoReceipt, Gone
  <2>2. PICK x : x = [AtRest EXCEPT !.pc = how]
    OBVIOUS
  <2>3. x.pc = how
    BY <2>2 DEF AtRest
  <2>4. OnlyTheLast(s, x)
    <3>1. CASE at[s].leg = "topup"
      BY <1>4, <3>1
    <3>2. CASE at[s].leg # "topup"
      BY <1>8, <2>1, <2>3, <3>2 DEF NoReceipt, OnlyTheLast
    <3> QED BY <3>1, <3>2
  <2>5. End(s, how)
    BY <1>8, <2>1
  <2> QED BY <1>1, <2>2, <2>3, <2>4, <2>5, EndStep
<1> QED BY <1>5, <1>6, <1>7, <1>8 DEF Receipt

\* A send that stays where it is keeps what it knows, if none of its transactions
\* starts to move.
LEMMA Carried ==
    ASSUME EvmIInv, NEW t \in batch, at'[t] = at[t], batch' = batch, unheard \subseteq unheard',
           \A a \in Attempts : a[1] = t => /\ net'[a].val = net[a].val \/ at[t].pc # "signed"
                                           /\ net[a].st = "none" => net'[a].st = "none"
                                           /\ net'[a].st \in {"pool", "ok"} => net[a].st \in {"pool", "ok"},
           Here(t) \in Attempts \/ at[t].pc # "signed",
           TokensInTurn(at[t])', GasLeft(at[t])'
    PROVE  Sound(t, at[t])'
<1>1. Attempts' = Attempts /\ Sound(t, at[t]) /\ Main(t)' = Main(t)
  BY DEF EvmIInv, Attempts, Main
<1>2. LegInTurn(t, at[t])'
  BY <1>1 DEF Sound, LegInTurn
<1>3. UntriedIsUnsent(t, at[t])'
  BY <1>1 DEF Sound, UntriedIsUnsent, Untried
<1>4. SignedAsMeant(t, at[t])'
  BY <1>1 DEF Sound, SignedAsMeant, Here
<1>5. OnlyTheLast(t, at[t])'
  BY <1>1 DEF Sound, OnlyTheLast, Moves, Main
<1> QED BY <1>2, <1>3, <1>4, <1>5 DEF Sound

\* Others pay to the address.
LEMMA ArrivesKeepsInv ==
    ASSUME EvmAssumption, EvmIInv, NEW c \in {"POL", "token"}, Arrives(c)
    PROVE  EvmIInv'
<1>1. /\ batch' = batch /\ at' = at /\ net' = net /\ nonce' = nonce /\ allowed' = allowed
      /\ polCredits' = polCredits /\ unheard' = unheard /\ Attempts' = Attempts
      /\ c \notin arrived /\ arrived' = arrived \cup {c}
  BY DEF Arrives, Attempts
<1>2. /\ native' = [native EXCEPT !["deposit"] = @ + IF c = "POL" THEN Native ELSE 0]
      /\ token' = [token EXCEPT !["deposit"] = @ + IF c = "token" THEN Token ELSE 0]
  BY DEF Arrives
<1>3. /\ native \in [Addresses -> Nat] /\ token \in [Addresses -> Nat] /\ "deposit" \in Addresses
      /\ Native \in Nat /\ Token \in Nat /\ Gas \in Nat /\ TopUp \in Nat
  BY DEF EvmIInv, EvmRows, Addresses, EvmAssumption
<1>4. /\ native'["deposit"] >= native["deposit"] /\ native'["deposit"] \in Nat
      /\ token'["deposit"] = IF c = "token" THEN token["deposit"] + Token ELSE token["deposit"]
  BY <1>2, <1>3
<1>5. c = "token" => token["deposit"] = 0
  BY <1>1 DEF EvmIInv, TokensSwept
<1>6. EvmRows'
  <2>1. native' \in [Addresses -> Nat] /\ token' \in [Addresses -> Nat]
    BY <1>2, <1>3
  <2> QED BY <1>1, <2>1 DEF EvmIInv, EvmRows
<1>7. (Whole' => Whole) /\ Given' = Given /\ Given \in Nat
  BY <1>1, <1>3, <1>4 DEF Whole, Given, Topped
<1>8. ASSUME NEW t \in batch PROVE Sound(t, at[t])'
  <2>1. Sound(t, at[t])
    BY DEF EvmIInv
  <2>2. TokensInTurn(at[t])'
    BY <1>1, <1>4, <2>1 DEF Sound, TokensInTurn
  <2>3. GasLeft(at[t])'
    <3>1. at[t].val \in Nat
      BY DEF EvmIInv, EvmRows
    <3> QED BY <1>1, <1>3, <1>4, <1>7, <2>1, <3>1 DEF Sound, GasLeft
  <2>4. Here(t) \in Attempts \/ at[t].pc # "signed"
    BY HereIsAttempt
  <2> QED BY <1>1, <2>2, <2>3, <2>4, Carried
<1>9. OneOnItsWay'
  BY <1>1 DEF EvmIInv, OneOnItsWay, Main, Moves
<1>10. TokensSwept'
  <2>1. token'["deposit"] \in IF "token" \in arrived' THEN {0, Token} ELSE {0}
    BY <1>1, <1>3, <1>4, <1>5 DEF EvmIInv, TokensSwept
  <2>2. ASSUME NEW a \in Attempts
        PROVE  /\ a[2] \in {"topup", "sweepToken"} /\ net[a].st # "none" => "token" \in arrived'
               /\ a[2] = "topup" /\ net[a].st = "pool" => net[a].val = TopUp
               /\ a[2] = "sweepToken" /\ net[a].st = "pool" /\ token'["deposit"] > 0 => net[a].val = Token
    BY <1>1, <1>4 DEF EvmIInv, TokensSwept
  <2> QED BY <1>1, <2>1, <2>2 DEF TokensSwept
<1>11. GasGiven'
  <2>1. ASSUME Whole'
        PROVE  /\ native'["deposit"] >= Given'
               /\ \A a \in Attempts : a[2] = "sweepPol" /\ net[a].st = "pool" =>
                      native'["deposit"] >= net[a].val + Gas + Given'
    <3>1. ASSUME NEW a \in Attempts PROVE net[a].val \in Nat
      BY DEF EvmIInv, EvmRows
    <3> QED BY <1>3, <1>4, <1>7, <2>1, <3>1 DEF EvmIInv, GasGiven
  <2> QED BY <1>1, <2>1 DEF GasGiven
<1>12. CreditsListed'
  <2>1. Blockscout \subseteq Blockscout'
    BY <1>1 DEF Blockscout
  <2> QED BY <1>1, <2>1 DEF EvmIInv, CreditsListed
<1> QED BY <1>1, <1>6, <1>8, <1>9, <1>10, <1>11, <1>12 DEF EvmIInv

\* Rows are credited: a list of transfers, or a balance.
LEMMA WatchPolKeepsInv ==
    ASSUME EvmAssumption, EvmIInv, WatchPol
    PROVE  EvmIInv'
<1>1. PICK rows \in {Blockscout, BalanceRow} :
        LET new == {r \in rows : ~ \E c \in polCredits : c[1] = r[1]}
        IN /\ new # {} /\ \A s \in batch : Kind[s] # "sweepPol"
           /\ polCredits' = polCredits \cup new
           /\ UNCHANGED <<batch, at, net, nonce, native, token, allowed, arrived, unheard>>
  BY DEF WatchPol
<1> DEFINE new == {r \in rows : ~ \E c \in polCredits : c[1] = r[1]}
<1>2. new # {} /\ polCredits' = polCredits \cup new /\ new \subseteq rows
  BY <1>1
<1>3. /\ batch' = batch /\ at' = at /\ net' = net /\ nonce' = nonce /\ native' = native /\ token' = token
      /\ allowed' = allowed /\ arrived' = arrived /\ unheard' = unheard /\ Attempts' = Attempts
  BY <1>1 DEF Attempts
<1> HIDE DEF new
<1>4. CreditsListed'
  <2>1. Blockscout' = Blockscout
    BY <1>3 DEF Blockscout
  <2>2. CASE rows = Blockscout
    BY <1>2, <2>1, <2>2 DEF EvmIInv, CreditsListed
  <2>3. CASE rows = BalanceRow
    <3>1. PICK r \in new : r[1] = <<"balance">>
      BY <1>2, <2>3 DEF BalanceRow
    <3> QED BY <1>2, <3>1 DEF CreditsListed
  <2> QED BY <2>2, <2>3
<1>5. EvmRows'
  BY <1>3 DEF EvmIInv, EvmRows
<1>6. ASSUME NEW t \in batch PROVE Sound(t, at[t])'
  <2>1. Sound(t, at[t]) /\ (Here(t) \in Attempts \/ at[t].pc # "signed")
    BY HereIsAttempt DEF EvmIInv
  <2>2. TokensInTurn(at[t])'
    BY <1>3, <2>1 DEF Sound, TokensInTurn
  <2>3. GasLeft(at[t])'
    BY <1>3, <2>1 DEF Sound, GasLeft, Whole, Given, Topped
  <2> QED BY <1>3, <2>1, <2>2, <2>3, Carried
<1>7. OneOnItsWay'
  BY <1>3 DEF EvmIInv, OneOnItsWay, Main, Moves
<1>8. TokensSwept'
  BY <1>3 DEF EvmIInv, TokensSwept
<1>9. GasGiven'
  BY <1>3 DEF EvmIInv, GasGiven, Whole, Given, Topped
<1> QED BY <1>3, <1>4, <1>5, <1>6, <1>7, <1>8, <1>9 DEF EvmIInv

\* A leg is signed: what it did not try has still no transaction.
LEMMA SignLegKeepsInv ==
    ASSUME EvmAssumption, EvmIInv, NEW s \in batch, SignLeg(s)
    PROVE  EvmIInv'
<1> DEFINE h == Here(s)
           row == [st |-> "none", nonce |-> nonce[Payer(at[s].leg)], val |-> at[s].val]
<1>1. /\ at[s].pc = "try" /\ net' = [net EXCEPT ![h] = row] /\ at' = [at EXCEPT ![s].pc = "signed"]
      /\ batch' = batch /\ nonce' = nonce /\ native' = native /\ token' = token /\ allowed' = allowed
      /\ arrived' = arrived /\ polCredits' = polCredits /\ unheard' = unheard /\ Attempts' = Attempts
  BY DEF SignLeg, Attempts
<1>2. /\ at \in [batch -> AtRows] /\ net \in [Attempts -> NetRows] /\ at[s] \in AtRows /\ Sound(s, at[s])
      /\ nonce \in [Addresses -> Nat]
  BY DEF EvmIInv, EvmRows, AtRows, NetRows
<1>3. h \in Attempts /\ h = <<s, at[s].leg, at[s].rpc>> /\ at[s].rpc \in Nat
  BY <1>1, <1>2, HereIsAttempt DEF Here, AtRows, EvmAssumption
<1>4. net[h].st = "none"
  BY <1>1, <1>2, <1>3 DEF Sound, UntriedIsUnsent, Untried
<1>5. row \in NetRows /\ row.st = "none" /\ row.val = at[s].val
  BY <1>2 DEF NetRows, States, AtRows, Payer, Addresses
<1>6. /\ at'[s].pc = "signed" /\ at'[s].leg = at[s].leg /\ at'[s].rpc = at[s].rpc /\ at'[s].val = at[s].val
      /\ at' \in [batch -> AtRows]
      /\ \A t \in batch : t # s => at'[t] = at[t]
  <2>1. PICK y \in AtRows : y = at[s]
    BY <1>2
  <2>2. /\ [y EXCEPT !.pc = "signed"].pc = "signed" /\ [y EXCEPT !.pc = "signed"].leg = y.leg
        /\ [y EXCEPT !.pc = "signed"].rpc = y.rpc /\ [y EXCEPT !.pc = "signed"].val = y.val
        /\ [y EXCEPT !.pc = "signed"] \in AtRows
    BY DEF AtRows, Pcs
  <2>3. at' = [at EXCEPT ![s] = [y EXCEPT !.pc = "signed"]]
    BY <1>1, <1>2, <2>1
  <2> QED BY <1>2, <2>1, <2>2, <2>3
<1> HIDE DEF h, row
<1>7. /\ net' \in [Attempts -> NetRows]
      /\ \A a \in Attempts : net'[a].st = net[a].st /\ (a # h => net'[a] = net[a])
      /\ net'[h].val = at[s].val
  BY <1>1, <1>2, <1>3, <1>4, <1>5
<1>8. EvmRows'
  BY <1>1, <1>6, <1>7 DEF EvmIInv, EvmRows, AtRows, NetRows
<1>9. (Whole' <=> Whole) /\ Given' = Given
  BY <1>1, <1>7 DEF Whole, Given, Topped
<1>10. ASSUME NEW t \in batch PROVE Sound(t, at[t])'
  <2>1. CASE t = s
    <3>1. LegInTurn(s, at[s])'
      BY <1>1, <1>2, <1>6 DEF Sound, LegInTurn
    <3>2. UntriedIsUnsent(s, at[s])'
      BY <1>1, <1>2, <1>6, <1>7 DEF Sound, UntriedIsUnsent, Untried
    <3>3. SignedAsMeant(s, at[s])'
      BY <1>3, <1>6, <1>7 DEF SignedAsMeant
    <3>4. OnlyTheLast(s, at[s])'
      <4>1. ASSUME NEW a \in Main(s), s \notin unheard, Moves(a) PROVE FALSE
        BY <1>1, <1>2, <4>1 DEF Sound, OnlyTheLast
      <4> QED BY <1>1, <1>7, <4>1 DEF OnlyTheLast, Moves, Main
    <3>5. TokensInTurn(at[s])'
      BY <1>1, <1>2, <1>6 DEF Sound, TokensInTurn
    <3>6. GasLeft(at[s])'
      BY <1>1, <1>2, <1>6, <1>9 DEF Sound, GasLeft
    <3> QED BY <2>1, <3>1, <3>2, <3>3, <3>4, <3>5, <3>6 DEF Sound
  <2>2. CASE t # s
    <3>1. at'[t] = at[t] /\ Sound(t, at[t])
      BY <1>6, <2>2 DEF EvmIInv
    <3>2. TokensInTurn(at[t])' /\ GasLeft(at[t])'
      BY <1>1, <1>9, <3>1 DEF Sound, TokensInTurn, GasLeft
    <3>3. Here(t) \in Attempts \/ at[t].pc # "signed"
      BY HereIsAttempt
    <3>4. \A a \in Attempts : a[1] = t => net'[a] = net[a]
      BY <1>3, <1>7, <2>2
    <3> QED BY <1>1, <3>1, <3>2, <3>3, <3>4, Carried
  <2> QED BY <2>1, <2>2
<1>11. OneOnItsWay'
  BY <1>1, <1>7 DEF EvmIInv, OneOnItsWay, Main, Moves
<1>12. TokensSwept'
  BY <1>1, <1>4, <1>7 DEF EvmIInv, TokensSwept
<1>13. GasGiven'
  BY <1>1, <1>4, <1>7, <1>9 DEF EvmIInv, GasGiven
<1>14. CreditsListed'
  <2>1. Blockscout' = Blockscout
    <3>1. {b \in Attempts : b[2] = "topup" /\ net[b].st = "ok"}' = {b \in Attempts : b[2] = "topup" /\ net[b].st = "ok"}
      BY <1>1, <1>7
    <3>2. \A b \in {b \in Attempts : b[2] = "topup" /\ net[b].st = "ok"} : net'[b] = net[b]
      BY <1>4, <1>7
    <3> QED BY <1>1, <3>1, <3>2 DEF Blockscout
  <2> QED BY <1>1, <2>1 DEF EvmIInv, CreditsListed
<1> QED BY <1>1, <1>8, <1>10, <1>11, <1>12, <1>13, <1>14 DEF EvmIInv

\* A leg is handed over; what the network takes is dropped for none of another
\* address, and what it does not, is as before.
LEMMA SendLegKeepsInv ==
    ASSUME EvmAssumption, EvmIInv, NEW s \in batch, SendLeg(s)
    PROVE  EvmIInv'
<1> DEFINE h == Here(s)
<1>1. PICK taken \in BOOLEAN, told \in BOOLEAN :
        /\ told => taken
        /\ net' = [a \in Attempts |->
                     CASE a = h /\ taken -> [net[a] EXCEPT !.st = "pool"]
                       [] taken /\ at[s].leg # "sol" /\ a \in SameNonce(h, net[h].nonce)
                            -> [net[a] EXCEPT !.st = "dropped"]
                       [] OTHER -> net[a]]
        /\ IF ~ told THEN NextRpc(s)
           ELSE IF Waits(at[s].leg) THEN at' = [at EXCEPT ![s].pc = "wait"] ELSE LegDone(s)
        /\ unheard' = IF taken /\ ~ told THEN unheard \cup {s} ELSE unheard
  BY DEF SendLeg
<1>2. /\ at[s].pc = "signed" /\ batch' = batch /\ nonce' = nonce /\ native' = native /\ token' = token
      /\ allowed' = allowed /\ arrived' = arrived /\ polCredits' = polCredits /\ Attempts' = Attempts
  BY DEF SendLeg, Attempts
<1>3. /\ at \in [batch -> AtRows] /\ net \in [Attempts -> NetRows] /\ at[s] \in AtRows /\ Sound(s, at[s])
      /\ unheard \subseteq batch
  BY DEF EvmIInv, EvmRows, AtRows, NetRows
<1>4. /\ h \in Attempts /\ h = <<s, at[s].leg, at[s].rpc>> /\ at[s].rpc \in Nat /\ h[1] = s /\ h[2] = at[s].leg
      /\ h[3] = at[s].rpc
  BY <1>2, <1>3, HereIsAttempt DEF Here, AtRows, EvmAssumption
<1>5. net[h].st = "none" /\ net[h].val = at[s].val
  BY <1>2, <1>3, <1>4 DEF Sound, UntriedIsUnsent, Untried, SignedAsMeant
<1>6. h \notin SameNonce(h, net[h].nonce) /\ \A a \in SameNonce(h, net[h].nonce) : net[a].st = "pool"
  BY <1>5 DEF SameNonce, Pooled
<1> HIDE DEF h
<1>7. ASSUME NEW a \in Attempts
      PROVE  /\ net'[a] \in NetRows /\ net'[a].val = net[a].val
             /\ a = h => net'[a].st = IF taken THEN "pool" ELSE "none"
             /\ a # h => net'[a].st = net[a].st \/ (net[a].st = "pool" /\ net'[a].st = "dropped")
  <2>1. net[a] \in NetRows
    BY <1>3
  <2>2. /\ [net[a] EXCEPT !.st = "pool"] \in NetRows /\ [net[a] EXCEPT !.st = "dropped"] \in NetRows
        /\ [net[a] EXCEPT !.st = "pool"].val = net[a].val /\ [net[a] EXCEPT !.st = "dropped"].val = net[a].val
        /\ [net[a] EXCEPT !.st = "pool"].st = "pool" /\ [net[a] EXCEPT !.st = "dropped"].st = "dropped"
    BY <2>1 DEF NetRows, States
  <2>3. CASE a = h /\ taken
    <3>1. net'[a] = [net[a] EXCEPT !.st = "pool"]
      BY <1>1, <1>6, <2>3
    <3> QED BY <2>2, <2>3, <3>1
  <2>4. CASE taken /\ at[s].leg # "sol" /\ a \in SameNonce(h, net[h].nonce)
    <3>1. net'[a] = [net[a] EXCEPT !.st = "dropped"]
      BY <1>1, <1>6, <2>4
    <3> QED BY <1>6, <2>2, <2>4, <3>1
  <2>5. CASE ~ (a = h /\ taken) /\ ~ (taken /\ at[s].leg # "sol" /\ a \in SameNonce(h, net[h].nonce))
    <3>1. net'[a] = net[a]
      BY <1>1, <2>5
    <3> QED BY <1>5, <2>1, <2>5, <3>1
  <2> QED BY <2>3, <2>4, <2>5
<1>8. net' \in [Attempts -> NetRows]
  BY <1>1, <1>7
<1>9. \A a \in Attempts : /\ net'[a].st = "ok" <=> net[a].st = "ok"
                          /\ a # h /\ net[a].st = "none" => net'[a].st = "none"
                          /\ a # h /\ net'[a].st \in {"pool", "ok"} => net[a].st \in {"pool", "ok"}
                          /\ a # h /\ net'[a].st = "pool" => net[a].st = "pool"
                          /\ net'[a].st # "none" => net[a].st # "none" \/ (a = h /\ taken)
  BY <1>5, <1>7
<1>10. /\ Given' = Given
       /\ Whole' => Whole /\ (taken => told)
  BY <1>1, <1>2, <1>9 DEF Whole, Given, Topped
<1>11. ASSUME NEW a \in Main(s), s \notin unheard, Moves(a) PROVE FALSE
  BY <1>2, <1>3, <1>11 DEF Sound, OnlyTheLast
<1>12. ASSUME NEW a \in Main(s), s \notin unheard', Moves(a)' PROVE a = h /\ taken
  <2>1. a \in Attempts /\ s \notin unheard
    BY <1>1, <1>12 DEF Main
  <2> QED BY <1>7, <1>9, <1>11, <1>12, <2>1 DEF Moves
\* Where the send is next.
<1>13. PICK x \in AtRows :
        /\ at' = [at EXCEPT ![s] = x]
        /\ \/ ~ told /\ x = [AtRest EXCEPT !.pc = "safe"]
           \/ ~ told /\ x = [pc |-> "try", leg |-> at[s].leg, rpc |-> at[s].rpc + 1, val |-> at[s].val]
           \/ told /\ Waits(at[s].leg)
              /\ x = [pc |-> "wait", leg |-> at[s].leg, rpc |-> at[s].rpc, val |-> at[s].val]
           \/ told /\ x = [AtRest EXCEPT !.pc = "sent"]
  <2>1. CASE ~ told
    <3>1. NextRpc(s)
      BY <1>1, <2>1
    <3> QED BY <1>2, <2>1, <3>1, NextRpcLeads
  <2>2. CASE told /\ Waits(at[s].leg)
    <3>1. PICK y \in AtRows : y = at[s]
      BY <1>3
    <3>2. /\ [y EXCEPT !.pc = "wait"] = [pc |-> "wait", leg |-> y.leg, rpc |-> y.rpc, val |-> y.val]
          /\ [y EXCEPT !.pc = "wait"] \in AtRows
      BY DEF AtRows, Pcs
    <3>3. at' = [at EXCEPT ![s] = [y EXCEPT !.pc = "wait"]]
      BY <1>1, <1>3, <2>2, <3>1
    <3> QED BY <2>2, <3>1, <3>2, <3>3
  <2>3. CASE told /\ ~ Waits(at[s].leg)
    <3>1. LegDone(s) /\ at[s].leg \notin {"topup", "approve"}
      BY <1>1, <2>3 DEF Waits
    <3>2. End(s, "sent")
      BY <3>1 DEF LegDone
    <3>3. [AtRest EXCEPT !.pc = "sent"] \in AtRows
      BY DEF AtRest, AtRows, Pcs, Gone, Legs, EvmAssumption
    <3> QED BY <2>3, <3>2, <3>3 DEF End
  <2> QED BY <2>1, <2>2, <2>3
<1>14. at'[s] = x /\ at' \in [batch -> AtRows] /\ \A t \in batch : t # s => at'[t] = at[t]
  BY <1>3, <1>13
<1>15. EvmRows'
  BY <1>1, <1>2, <1>3, <1>8, <1>14 DEF EvmIInv, EvmRows, AtRows, NetRows
<1>16. Sound(s, x)'
  <2>1. CASE x = [AtRest EXCEPT !.pc = "safe"] /\ ~ told
    <3>1. x.pc = "safe"
      BY <2>1 DEF AtRest
    <3>2. ASSUME NEW a \in Main(s), s \notin unheard', Moves(a)' PROVE FALSE
      BY <1>1, <1>12, <2>1, <3>2
    <3> QED BY <1>2, <3>1, <3>2 DEF Sound, LegInTurn, UntriedIsUnsent, Untried, SignedAsMeant, TokensInTurn, GasLeft,
               OnlyTheLast, Main
  <2>2. CASE ~ told /\ x = [pc |-> "try", leg |-> at[s].leg, rpc |-> at[s].rpc + 1, val |-> at[s].val]
    <3>1. LegInTurn(s, x)' /\ SignedAsMeant(s, x)' /\ TokensInTurn(x)'
      BY <1>2, <1>3, <2>2 DEF Sound, LegInTurn, SignedAsMeant, TokensInTurn
    <3>2. UntriedIsUnsent(s, x)'
      <4>1. ASSUME NEW a \in Attempts, a[1] = s, Untried(s, x, a) PROVE net'[a].st = "none"
        <5>1. a[3] \in Nat
          BY AttemptParts DEF EvmIInv, EvmAssumption
        <5>2. CASE a[2] = x.leg /\ a[3] >= x.rpc
          <6>1. a # h /\ Untried(s, at[s], a)
            BY <1>2, <1>4, <2>2, <5>1, <5>2 DEF Untried
          <6> QED BY <1>3, <1>9, <4>1, <6>1 DEF Sound, UntriedIsUnsent
        <5>3. CASE x.leg # Kind[s] /\ a[2] = Kind[s]
          <6>1. a # h /\ Untried(s, at[s], a)
            BY <1>2, <1>4, <2>2, <5>3 DEF Untried
          <6> QED BY <1>3, <1>9, <4>1, <6>1 DEF Sound, UntriedIsUnsent
        <5> QED BY <2>2, <4>1, <5>2, <5>3 DEF Untried
      <4> QED BY <1>2, <4>1 DEF UntriedIsUnsent, Untried
    <3>3. OnlyTheLast(s, x)'
      <4>1. ASSUME NEW a \in Main(s), s \notin unheard', Moves(a)' PROVE FALSE
        BY <1>1, <1>12, <2>2, <4>1
      <4> QED BY <1>2, <4>1 DEF OnlyTheLast, Main
    <3>4. GasLeft(x)'
      BY <1>2, <1>3, <1>10, <2>2 DEF Sound, GasLeft
    <3> QED BY <3>1, <3>2, <3>3, <3>4 DEF Sound
  <2>3. CASE told /\ Waits(at[s].leg) /\ x = [pc |-> "wait", leg |-> at[s].leg, rpc |-> at[s].rpc, val |-> at[s].val]
    <3>1. LegInTurn(s, x)' /\ SignedAsMeant(s, x)' /\ TokensInTurn(x)' /\ GasLeft(x)'
      BY <1>2, <1>3, <2>3 DEF Sound, LegInTurn, SignedAsMeant, TokensInTurn, GasLeft
    <3>2. UntriedIsUnsent(s, x)'
      <4>1. ASSUME NEW a \in Attempts, a[1] = s, Untried(s, x, a) PROVE net'[a].st = "none"
        <5>1. a[3] \in Nat
          BY AttemptParts DEF EvmIInv, EvmAssumption
        <5>2. a # h /\ Untried(s, at[s], a)
          BY <1>2, <1>4, <2>3, <4>1, <5>1 DEF Untried
        <5> QED BY <1>3, <1>9, <4>1, <5>2 DEF Sound, UntriedIsUnsent
      <4> QED BY <1>2, <4>1 DEF UntriedIsUnsent, Untried
    <3>3. OnlyTheLast(s, x)'
      BY <1>2, <1>4, <1>12, <2>3 DEF OnlyTheLast, Main
    <3> QED BY <3>1, <3>2, <3>3 DEF Sound
  <2>4. CASE x = [AtRest EXCEPT !.pc = "sent"]
    <3>1. x.pc = "sent"
      BY <2>4 DEF AtRest
    <3> QED BY <3>1 DEF Sound, LegInTurn, UntriedIsUnsent, Untried, SignedAsMeant, TokensInTurn, GasLeft, OnlyTheLast
  <2> QED BY <1>13, <2>1, <2>2, <2>3, <2>4
<1>17. ASSUME NEW t \in batch PROVE Sound(t, at[t])'
  <2>1. CASE t = s
    BY <1>14, <1>16, <2>1 DEF Sound, LegInTurn, UntriedIsUnsent, Untried, SignedAsMeant, TokensInTurn, GasLeft, OnlyTheLast
  <2>2. CASE t # s
    <3>1. at'[t] = at[t] /\ Sound(t, at[t]) /\ unheard \subseteq unheard'
      BY <1>1, <1>14, <2>2 DEF EvmIInv
    <3>2. TokensInTurn(at[t])' /\ GasLeft(at[t])'
      BY <1>2, <1>10, <3>1 DEF Sound, TokensInTurn, GasLeft
    <3>3. Here(t) \in Attempts \/ at[t].pc # "signed"
      BY HereIsAttempt
    <3>4. \A a \in Attempts : a[1] = t => a # h
      BY <1>4, <2>2
    <3> QED BY <1>2, <1>7, <1>9, <3>1, <3>2, <3>3, <3>4, Carried
  <2> QED BY <2>1, <2>2
<1>18. OneOnItsWay'
  <2>1. ASSUME NEW t \in batch \ unheard', NEW a \in Main(t), NEW b \in Main(t), Moves(a)', Moves(b)'
        PROVE  a = b
    <3>1. CASE t = s
      BY <1>12, <2>1, <3>1
    <3>2. CASE t # s
      <4>1. a \in Attempts /\ b \in Attempts /\ a # h /\ b # h /\ t \notin unheard
        BY <1>1, <1>4, <3>2 DEF Main
      <4> QED BY <1>9, <2>1, <4>1 DEF EvmIInv, OneOnItsWay, Moves
    <3> QED BY <3>1, <3>2
  <2> QED BY <1>2, <2>1 DEF OneOnItsWay, Main
<1>19. TokensSwept'
  <2>1. ASSUME NEW a \in Attempts
        PROVE  /\ a[2] \in {"topup", "sweepToken"} /\ net'[a].st # "none" => "token" \in arrived
               /\ a[2] = "topup" /\ net'[a].st = "pool" => net'[a].val = TopUp
               /\ a[2] = "sweepToken" /\ net'[a].st = "pool" /\ token["deposit"] > 0 => net'[a].val = Token
    <3>1. CASE a = h
      BY <1>2, <1>3, <1>4, <1>5, <1>7, <1>9, <3>1 DEF Sound, TokensInTurn
    <3>2. CASE a # h
      BY <1>7, <1>9, <3>2 DEF EvmIInv, TokensSwept
    <3> QED BY <3>1, <3>2
  <2> QED BY <1>2, <2>1 DEF EvmIInv, TokensSwept
<1>20. GasGiven'
  <2>1. ASSUME Whole', NEW a \in Attempts, a[2] = "sweepPol", net'[a].st = "pool"
        PROVE  native["deposit"] >= net'[a].val + Gas + Given
    <3>1. CASE a = h
      BY <1>2, <1>3, <1>4, <1>5, <1>7, <1>10, <2>1, <3>1 DEF Sound, GasLeft
    <3>2. CASE a # h
      BY <1>7, <1>9, <1>10, <2>1, <3>2 DEF EvmIInv, GasGiven
    <3> QED BY <3>1, <3>2
  <2> QED BY <1>2, <1>10, <2>1 DEF EvmIInv, GasGiven
<1>21. CreditsListed'
  <2>1. Blockscout' = Blockscout
    <3>1. {b \in Attempts : b[2] = "topup" /\ net[b].st = "ok"}' = {b \in Attempts : b[2] = "topup" /\ net[b].st = "ok"}
      BY <1>2, <1>9
    <3>2. \A b \in {b \in Attempts : b[2] = "topup" /\ net[b].st = "ok"} : net'[b].val = net[b].val
      BY <1>7
    <3> QED BY <1>2, <3>1, <3>2 DEF Blockscout
  <2> QED BY <1>2, <2>1 DEF EvmIInv, CreditsListed
<1> QED BY <1>2, <1>15, <1>17, <1>18, <1>19, <1>20, <1>21 DEF EvmIInv

\* What one address pays another, of what it has.
LEMMA MoveMoves ==
    ASSUME NEW bal \in [Addresses -> Nat], NEW from \in Addresses, NEW to \in Addresses, from # to,
           NEW v \in Nat, v <= bal[from]
    PROVE  /\ Move(bal, from, to, v) \in [Addresses -> Nat]
           /\ Move(bal, from, to, v)[from] = bal[from] - v
           /\ Move(bal, from, to, v)[to] = bal[to] + v
           /\ \A a \in Addresses : a \notin {from, to} => Move(bal, from, to, v)[a] = bal[a]
  BY DEF Move

\* What a block does to the balances.
LEMMA IncludeBalances ==
    ASSUME EvmAssumption, EvmIInv, NEW a \in Attempts, Include(a)
    PROVE  /\ native' \in [Addresses -> Nat] /\ token' \in [Addresses -> Nat]
           /\ a[2] = "sweepPol" => native'["deposit"] = native["deposit"] - Gas - net[a].val
           /\ a[2] = "topup" => native'["deposit"] = native["deposit"] + net[a].val
           /\ a[2] \notin {"sweepPol", "sweepToken", "topup"} => native'["deposit"] = native["deposit"]
           /\ a[2] # "sweepToken" => token'["deposit"] = token["deposit"]
           /\ a[2] = "sweepToken" =>
                 \/ net'[a].st = "ok" /\ net[a].val <= token["deposit"]
                    /\ token'["deposit"] = token["deposit"] - net[a].val
                 \/ token["deposit"] < net[a].val /\ token'["deposit"] = token["deposit"]
<1> DEFINE leg == a[2]
           from == Payer(leg)
           v == net[a].val
           cost == Gas + IF MovesNative(leg) THEN v ELSE 0
           paid == [native EXCEPT ![from] = @ - Gas]
<1>1. PICK ok \in BOOLEAN :
        /\ ok \/ MovesToken(leg)
        /\ ok /\ MovesToken(leg) => token[from] >= v
        /\ ~ ok => leg = "call" \/ token[from] < v
        /\ net' = [b \in Attempts |->
                     CASE b = a -> [net[a] EXCEPT !.st = IF ok THEN "ok" ELSE "reverted"]
                       [] b # a /\ Pooled(b) /\ leg # "sol" /\ Payer(b[2]) = from /\ net[b].nonce = net[a].nonce
                            -> [net[b] EXCEPT !.st = "dropped"]
                       [] OTHER -> net[b]]
        /\ native' = IF MovesNative(leg) THEN Move(paid, from, To(leg), v) ELSE paid
        /\ token' = IF ok /\ MovesToken(leg) THEN Move(token, from, To(leg), v) ELSE token
  BY DEF Include
<1>2. native[from] >= cost
  BY DEF Include
<1>3. /\ native \in [Addresses -> Nat] /\ token \in [Addresses -> Nat] /\ Gas \in Nat
      /\ net[a] \in NetRows /\ v \in Nat /\ leg \in Legs
  BY AttemptParts DEF EvmIInv, EvmRows, EvmAssumption, NetRows
<1>4. from \in {"hot", "deposit"} /\ (from = "deposit" <=> leg \in {"sweepPol", "sweepToken"})
  BY DEF Payer
<1>5. /\ To(leg) \in Addresses /\ from \in Addresses /\ from # To(leg)
      /\ To(leg) = "deposit" <=> leg = "topup"
  BY DEF Payer, To, Addresses
<1>6. /\ paid \in [Addresses -> Nat] /\ paid[from] = native[from] - Gas
      /\ from # "deposit" => paid["deposit"] = native["deposit"]
      /\ MovesNative(leg) => v <= paid[from]
  BY <1>2, <1>3, <1>4, <1>5 DEF Addresses
<1>7. ok => net'[a].st = "ok"
  <2>1. net'[a] = [net[a] EXCEPT !.st = IF ok THEN "ok" ELSE "reverted"]
    BY <1>1
  <2> QED BY <1>3, <2>1 DEF NetRows
<1> HIDE DEF leg, from, v, cost, paid
<1>8. CASE MovesNative(leg)
  <2>1. /\ leg \in {"pol", "topup", "sweepPol", "sol"} /\ ~ MovesToken(leg)
        /\ native' = Move(paid, from, To(leg), v) /\ token' = token
    BY <1>1, <1>8 DEF MovesNative, MovesToken
  <2>2. PICK t \in Addresses : t = To(leg)
    BY <1>5
  <2>3. /\ native' \in [Addresses -> Nat] /\ native'[from] = paid[from] - v /\ native'[t] = paid[t] + v
        /\ \A b \in Addresses : b \notin {from, t} => native'[b] = paid[b]
    BY <1>3, <1>5, <1>6, <1>8, <2>1, <2>2, MoveMoves
  <2>4. "deposit" \in Addresses
    BY DEF Addresses
  <2> QED BY <1>3, <1>4, <1>5, <1>6, <2>1, <2>2, <2>3, <2>4 DEF leg, v
<1>9. CASE ~ MovesNative(leg)
  <2>1. leg \in {"erc20", "call", "sweepToken", "approve"} /\ native' = paid
    BY <1>1, <1>3, <1>9 DEF MovesNative, Legs
  <2>2. CASE ok /\ MovesToken(leg)
    <3>1. PICK t \in Addresses : t = To(leg)
      BY <1>5
    <3>2. token' = Move(token, from, t, v) /\ v <= token[from] /\ from # t
      BY <1>1, <1>3, <1>5, <2>2, <3>1
    <3>3. /\ token' \in [Addresses -> Nat] /\ token'[from] = token[from] - v
          /\ \A b \in Addresses : b \notin {from, t} => token'[b] = token[b]
      BY <1>3, <1>5, <3>2, MoveMoves
    <3>4. "deposit" \in Addresses /\ net'[a].st = "ok" /\ (t = "deposit" <=> leg = "topup")
      BY <1>5, <1>7, <2>2, <3>1 DEF Addresses
    <3> QED BY <1>4, <1>6, <2>1, <3>2, <3>3, <3>4 DEF leg, v
  <2>3. CASE ~ (ok /\ MovesToken(leg))
    <3>1. token' = token
      BY <1>1, <2>3
    <3>2. leg = "sweepToken" => token["deposit"] < v
      BY <1>1, <1>4, <2>3 DEF MovesToken
    <3> QED BY <1>3, <1>4, <1>6, <2>1, <3>1, <3>2 DEF leg, v
  <2> QED BY <2>2, <2>3
<1> QED BY <1>8, <1>9

\* A block takes a transaction: gas given for tokens goes only with the tokens.
LEMMA IncludeKeepsInv ==
    ASSUME EvmAssumption, EvmIInv, NEW a \in Attempts, Include(a)
    PROVE  EvmIInv'
<1> DEFINE leg == a[2]
           from == Payer(leg)
           v == net[a].val
<1>1. PICK ok \in BOOLEAN :
        /\ net' = [b \in Attempts |->
                     CASE b = a -> [net[a] EXCEPT !.st = IF ok THEN "ok" ELSE "reverted"]
                       [] b # a /\ Pooled(b) /\ leg # "sol" /\ Payer(b[2]) = from /\ net[b].nonce = net[a].nonce
                            -> [net[b] EXCEPT !.st = "dropped"]
                       [] OTHER -> net[b]]
        /\ allowed' = (allowed \/ leg = "approve")
  BY DEF Include
<1>2. /\ batch' = batch /\ at' = at /\ arrived' = arrived /\ polCredits' = polCredits /\ unheard' = unheard
      /\ Attempts' = Attempts /\ net[a].st = "pool"
      /\ nonce' = [nonce EXCEPT ![from] = IF leg = "sol" THEN @ ELSE @ + 1]
  BY DEF Include, Pooled, Attempts
<1>3. /\ net \in [Attempts -> NetRows] /\ nonce \in [Addresses -> Nat] /\ v \in Nat
      /\ native["deposit"] \in Nat /\ token["deposit"] \in Nat /\ Gas \in Nat /\ TopUp \in Nat
      /\ Token \in Nat
  BY DEF EvmIInv, EvmRows, EvmAssumption, NetRows, Addresses
<1>4. ASSUME NEW b \in Attempts
      PROVE  /\ net'[b] \in NetRows /\ net'[b].val = net[b].val
             /\ b = a => net'[b].st \in {"ok", "reverted"}
             /\ b # a => net'[b].st = net[b].st \/ (net[b].st = "pool" /\ net'[b].st = "dropped")
  <2>1. net[b] \in NetRows
    BY <1>3
  <2>2. ASSUME NEW st \in States
        PROVE  LET r == [net[b] EXCEPT !.st = st] IN r \in NetRows /\ r.val = net[b].val /\ r.st = st
    BY <2>1 DEF NetRows
  <2>3. CASE b = a
    <3>1. net'[b] = [net[b] EXCEPT !.st = IF ok THEN "ok" ELSE "reverted"]
      BY <1>1, <2>3
    <3>2. (IF ok THEN "ok" ELSE "reverted") \in States
      BY DEF States
    <3>3. PICK st \in States : st = (IF ok THEN "ok" ELSE "reverted")
      BY <3>2
    <3>4. net'[b] = [net[b] EXCEPT !.st = st] /\ st \in {"ok", "reverted"}
      BY <3>1, <3>3
    <3> QED BY <2>2, <2>3, <3>4
  <2>4. CASE b # a /\ Pooled(b) /\ leg # "sol" /\ Payer(b[2]) = from /\ net[b].nonce = net[a].nonce
    <3>1. net'[b] = [net[b] EXCEPT !.st = "dropped"] /\ net[b].st = "pool" /\ "dropped" \in States
      BY <1>1, <2>4 DEF Pooled, States
    <3> QED BY <2>2, <2>4, <3>1
  <2>5. CASE b # a /\ ~ (Pooled(b) /\ leg # "sol" /\ Payer(b[2]) = from /\ net[b].nonce = net[a].nonce)
    <3>1. net'[b] = net[b]
      BY <1>1, <2>5
    <3> QED BY <2>1, <2>5, <3>1
  <2> QED BY <2>3, <2>4, <2>5
<1> HIDE DEF leg, from, v
<1>5. \A b \in Attempts : /\ net[b].st = "none" => net'[b].st = "none"
                          /\ net'[b].st = "none" => net[b].st = "none"
                          /\ net'[b].st \in {"pool", "ok"} => net[b].st \in {"pool", "ok"}
                          /\ net[b].st = "ok" => net'[b].st = "ok"
                          /\ net'[b].st = "ok" => net[b].st = "ok" \/ b = a
                          /\ net'[b].st = "pool" => net[b].st = "pool" /\ b # a
  BY <1>2, <1>4
<1>6. EvmRows'
  <2>1. net' \in [Attempts -> NetRows]
    BY <1>1, <1>4
  <2>2. nonce' \in [Addresses -> Nat]
    BY <1>2, <1>3 DEF from, Payer, Addresses
  <2>3. allowed' \in BOOLEAN
    BY <1>1 DEF EvmIInv, EvmRows
  <2> QED BY <1>2, <2>1, <2>2, <2>3, IncludeBalances DEF EvmIInv, EvmRows, NetRows
\* The tokens leave all at once.
<1>7. /\ leg = "sweepToken" => "token" \in arrived
      /\ leg = "sweepToken" /\ token["deposit"] > 0 => v = Token /\ token["deposit"] = Token
      /\ token["deposit"] \in IF "token" \in arrived THEN {0, Token} ELSE {0}
  BY <1>2 DEF EvmIInv, TokensSwept, leg, v
<1>8. /\ token'["deposit"] \in IF "token" \in arrived THEN {0, Token} ELSE {0}
      /\ token'["deposit"] > 0 => token["deposit"] > 0 /\ leg # "sweepToken"
  <2>1. CASE leg # "sweepToken"
    BY <1>3, <1>7, <2>1, IncludeBalances DEF leg
  <2>2. CASE leg = "sweepToken"
    <3>1. \/ v <= token["deposit"] /\ token'["deposit"] = token["deposit"] - v
          \/ token["deposit"] < v /\ token'["deposit"] = token["deposit"]
      BY <2>2, IncludeBalances DEF leg, v
    <3>2. token'["deposit"] = 0
      BY <1>3, <1>7, <2>2, <3>1
    <3> QED BY <1>7, <2>2, <3>2
  <2> QED BY <2>1, <2>2
\* So does the gas: what a sweep of POL takes, it left.
<1>9. Whole' => Whole /\ leg # "sweepToken"
  BY <1>2, <1>7, <1>8 DEF Whole
<1>10. /\ Given \in {0, TopUp} /\ Given' \in {0, TopUp} /\ Given <= Given'
       /\ leg # "topup" => Given' = Given
  <2>1. Topped => Topped'
    BY <1>2, <1>5 DEF Topped
  <2>2. leg # "topup" => (Topped' => Topped)
    BY <1>2, <1>5 DEF Topped, leg
  <2> QED BY <1>3, <2>1, <2>2 DEF Given
<1>11. leg = "topup" => v = TopUp
  BY <1>2 DEF EvmIInv, TokensSwept, leg, v
<1>12. ASSUME Whole', leg # "sweepPol"
       PROVE  native'["deposit"] \in Nat /\ native'["deposit"] + Given >= native["deposit"] + Given'
              /\ native'["deposit"] >= native["deposit"]
  <2>1. leg # "sweepToken"
    BY <1>9, <1>12
  <2>2. CASE leg = "topup"
    BY <1>3, <1>10, <1>11, <2>2, IncludeBalances DEF leg, v
  <2>3. CASE leg # "topup"
    BY <1>3, <1>10, <1>12, <2>1, <2>3, IncludeBalances DEF leg
  <2> QED BY <2>2, <2>3
<1>13. ASSUME Whole', leg = "sweepPol"
       PROVE  /\ native'["deposit"] = native["deposit"] - Gas - v /\ Given' = Given
              /\ native["deposit"] >= v + Gas + Given
              /\ \A b \in Attempts : b[2] = "sweepPol" /\ net[b].st \in {"pool", "ok"} => b = a
              /\ \A t \in batch : /\ at[t].pc # "balance"
                                  /\ at[t].pc \in {"try", "signed"} => at[t].leg # "sweepPol"
  <2>1. native'["deposit"] = native["deposit"] - Gas - v /\ Given' = Given
    BY <1>10, <1>13, IncludeBalances DEF leg, v
  <2>2. native["deposit"] >= v + Gas + Given
    BY <1>2, <1>9, <1>13 DEF EvmIInv, GasGiven, leg, v
  <2>3. \A b \in Attempts : /\ b[1] \in batch /\ b[2] \in LegsOf(Kind[b[1]])
                            /\ b[2] = "sweepPol" => Kind[b[1]] = "sweepPol"
    <3>1. \A b \in Attempts : b[1] \in batch /\ b[2] \in LegsOf(Kind[b[1]])
      BY AttemptParts DEF EvmIInv
    <3>2. \A k \in {"pol", "erc20", "call", "sweepPol", "sweepToken", "sol"} : "sweepPol" \in LegsOf(k) => k = "sweepPol"
      BY DEF LegsOf
    <3>3. \A t \in batch : Kind[t] \in {"pol", "erc20", "call", "sweepPol", "sweepToken", "sol"}
      BY DEF EvmIInv, EvmRows, EvmAssumption
    <3> QED BY <3>1, <3>2, <3>3
  <2>4. a[1] \in batch /\ Kind[a[1]] = "sweepPol" /\ a[1] \notin unheard /\ a \in Main(a[1]) /\ Moves(a)
    BY <1>2, <1>9, <1>13, <2>3 DEF leg, Main, Moves, Whole
  <2>5. \A t \in batch : Kind[t] = "sweepPol" => t = a[1]
    BY <2>4 DEF EvmIInv, EvmRows, EvmAssumption
  <2>6. ASSUME NEW b \in Attempts, b[2] = "sweepPol", net[b].st \in {"pool", "ok"} PROVE b = a
    <3>1. b \in Main(a[1]) /\ Moves(b)
      BY <2>3, <2>4, <2>5, <2>6 DEF Main, Moves
    <3> QED BY <2>4, <3>1 DEF EvmIInv, OneOnItsWay
  <2>7. ASSUME NEW t \in batch,
               at[t].pc = "balance" \/ (at[t].pc \in {"try", "signed"} /\ at[t].leg = "sweepPol")
        PROVE  FALSE
    <3>1. Sound(t, at[t]) /\ Kind[t] \in {"pol", "erc20", "call", "sweepPol", "sweepToken", "sol"}
      BY DEF EvmIInv, EvmRows, EvmAssumption
    <3>2. Kind[t] = "sweepPol"
      BY <2>7, <3>1 DEF Sound, LegInTurn, LegsOf
    <3>3. t = a[1]
      BY <2>5, <3>2
    <3> QED BY <2>4, <2>7, <3>1, <3>3 DEF Sound, OnlyTheLast
  <2> QED BY <2>1, <2>2, <2>6, <2>7
<1>14. ASSUME NEW t \in batch PROVE Sound(t, at[t])'
  <2>1. Sound(t, at[t]) /\ (Here(t) \in Attempts \/ at[t].pc # "signed") /\ at[t].val \in Nat
    BY HereIsAttempt DEF EvmIInv, EvmRows
  <2>2. TokensInTurn(at[t])'
    BY <1>2, <1>8, <2>1 DEF Sound, TokensInTurn
  <2>3. GasLeft(at[t])'
    <3>1. CASE Whole' /\ leg # "sweepPol"
      <4>1. Whole
        BY <1>9, <3>1
      <4>2. /\ at[t].pc = "balance" => native["deposit"] >= at[t].val
            /\ at[t].pc \in {"try", "signed"} /\ at[t].leg = "sweepPol" => native["deposit"] >= at[t].val + Gas + Given
        BY <2>1, <4>1 DEF Sound, GasLeft
      <4>3. /\ at[t].pc = "balance" => native'["deposit"] >= at[t].val
            /\ at[t].pc \in {"try", "signed"} /\ at[t].leg = "sweepPol" => native'["deposit"] >= at[t].val + Gas + Given'
        BY <1>3, <1>10, <1>12, <2>1, <3>1, <4>2
      <4> QED BY <1>2, <4>3 DEF GasLeft
    <3>2. CASE Whole' /\ leg = "sweepPol"
      BY <1>2, <1>13, <3>2 DEF GasLeft
    <3>3. CASE ~ Whole'
      BY <3>3 DEF GasLeft
    <3> QED BY <3>1, <3>2, <3>3
  <2> QED BY <1>2, <1>4, <1>5, <2>1, <2>2, <2>3, Carried
<1>15. OneOnItsWay'
  BY <1>2, <1>5 DEF EvmIInv, OneOnItsWay, Main, Moves
<1>16. TokensSwept'
  <2>1. ASSUME NEW b \in Attempts
        PROVE  /\ b[2] \in {"topup", "sweepToken"} /\ net'[b].st # "none" => "token" \in arrived
               /\ b[2] = "topup" /\ net'[b].st = "pool" => net'[b].val = TopUp
               /\ b[2] = "sweepToken" /\ net'[b].st = "pool" /\ token'["deposit"] > 0 => net'[b].val = Token
    BY <1>4, <1>5, <1>8 DEF EvmIInv, TokensSwept
  <2> QED BY <1>2, <1>8, <2>1 DEF TokensSwept
<1>17. GasGiven'
  <2>1. ASSUME Whole', NEW b \in Attempts
        PROVE  /\ native'["deposit"] >= Given'
               /\ b[2] = "sweepPol" /\ net'[b].st = "pool" => native'["deposit"] >= net'[b].val + Gas + Given'
    <3>1. /\ native["deposit"] >= Given /\ net[b].val \in Nat
          /\ b[2] = "sweepPol" /\ net[b].st = "pool" => native["deposit"] >= net[b].val + Gas + Given
      BY <1>3, <1>9, <2>1 DEF EvmIInv, GasGiven, NetRows
    <3>2. net'[b].val = net[b].val /\ (net'[b].st = "pool" => net[b].st = "pool" /\ b # a)
      BY <1>4, <1>5
    <3>3. CASE leg # "sweepPol"
      BY <1>3, <1>10, <1>12, <2>1, <3>1, <3>2, <3>3
    <3>4. CASE leg = "sweepPol"
      <4>1. native'["deposit"] >= Given'
        BY <1>3, <1>10, <1>13, <2>1, <3>4
      <4>2. ~ (b[2] = "sweepPol" /\ net'[b].st = "pool")
        BY <1>13, <2>1, <3>2, <3>4
      <4> QED BY <4>1, <4>2
    <3> QED BY <3>3, <3>4
  <2> QED BY <1>2, <2>1 DEF GasGiven
<1>18. CreditsListed'
  <2>1. Blockscout \subseteq Blockscout'
    <3>1. \A b \in {b \in Attempts : b[2] = "topup" /\ net[b].st = "ok"} :
             net'[b].st = "ok" /\ net'[b].val = net[b].val
      BY <1>4, <1>5
    <3> QED BY <1>2, <3>1 DEF Blockscout
  <2> QED BY <1>2, <2>1 DEF EvmIInv, CreditsListed
<1> QED BY <1>2, <1>6, <1>14, <1>15, <1>16, <1>17, <1>18 DEF EvmIInv

\* Before anything happened.
LEMMA EvmStarts == EvmAssumption /\ EvmInit => EvmIInv
<1> SUFFICES ASSUME EvmAssumption, EvmInit PROVE EvmIInv
  OBVIOUS
<1>1. /\ batch \in Batches /\ at = [s \in batch |-> AtRest] /\ net = [a \in Attempts |-> Unsent]
      /\ allowed = FALSE /\ arrived = {} /\ polCredits = {} /\ unheard = {}
      /\ nonce = [a \in Addresses |-> 0]
      /\ native = [a \in Addresses |-> IF a = "hot" THEN HotNative ELSE 0]
      /\ token = [a \in Addresses |-> IF a = "hot" THEN HotToken ELSE 0]
  BY DEF EvmInit
<1>2. AtRest \in AtRows /\ Unsent \in NetRows /\ Unsent.st = "none" /\ AtRest.pc = "new"
  BY DEF AtRest, AtRows, Pcs, Legs, Unsent, NetRows, States, EvmAssumption
<1>3. EvmRows
  BY <1>1, <1>2 DEF EvmRows, AtRows, NetRows, EvmAssumption
<1>4. \A a \in Attempts : net[a].st = "none"
  BY <1>1, <1>2
<1>5. "deposit" \in Addresses /\ token["deposit"] = 0 /\ native["deposit"] = 0
  BY <1>1 DEF Addresses
<1>6. ASSUME NEW s \in batch PROVE Sound(s, at[s])
  <2>1. at[s].pc = "new"
    BY <1>1, <1>2
  <2> QED BY <1>4, <2>1 DEF Sound, LegInTurn, UntriedIsUnsent, SignedAsMeant, OnlyTheLast, Main, Moves,
             TokensInTurn, GasLeft
<1>7. OneOnItsWay /\ TokensSwept /\ CreditsListed
  BY <1>1, <1>4, <1>5 DEF OneOnItsWay, Main, Moves, TokensSwept, CreditsListed
<1>8. GasGiven
  <2>1. Given = 0
    BY <1>4 DEF Given, Topped
  <2> QED BY <1>4, <1>5, <2>1 DEF GasGiven
<1> QED BY <1>3, <1>6, <1>7, <1>8 DEF EvmIInv

-------------------------------------------------------------------------------
(***************************************************************************)
(* Chains of balances: what the invariant says.                            *)
(***************************************************************************)
\* The promise to the ledger, from the invariant.
LEMMA EvmPromise == EvmAssumption /\ EvmIInv => EvmInv
<1> SUFFICES ASSUME EvmAssumption, EvmIInv PROVE EvmInv
  OBVIOUS
<1>1. EvmTypeOK
  BY DEF EvmIInv, EvmRows, EvmTypeOK, Pcs, States
<1>2. SafeIsUnpaid
  BY DEF EvmIInv, Sound, OnlyTheLast, Moves, SafeIsUnpaid
<1>3. PaidOnce
  <2>1. ASSUME NEW s \in batch \ unheard
        PROVE  Cardinality({a \in Main(s) : net[a].st \in {"pool", "ok"}}) <= 1
    <3>1. PICK T : T = {a \in Main(s) : net[a].st \in {"pool", "ok"}}
      OBVIOUS
    <3>2. \A a, b \in T : a = b
      BY <2>1, <3>1 DEF EvmIInv, OneOnItsWay, Moves
    <3>3. Cardinality(T) <= 1 => Cardinality({a \in Main(s) : net[a].st \in {"pool", "ok"}}) <= 1
      BY <3>1
    <3>4. CASE T = {}
      BY <3>3, <3>4, FS_EmptySet
    <3>5. CASE T # {}
      <4>1. PICK a \in T : TRUE
        BY <3>5
      <4>2. T = {a}
        BY <3>2, <4>1
      <4>3. Cardinality({a}) = 1
        BY FS_Singleton
      <4> QED BY <3>3, <4>2, <4>3
    <3> QED BY <3>4, <3>5
  <2> QED BY <2>1 DEF PaidOnce
<1>4. GasStays
  <2>1. ASSUME unheard = {}, token["deposit"] > 0,
               NEW a \in Attempts, a[2] = "topup", net[a].st = "ok"
        PROVE  native["deposit"] >= Gas
    <3>1. Whole /\ Topped
      BY <2>1 DEF Whole, Topped
    <3>2. native["deposit"] >= TopUp
      BY <3>1 DEF EvmIInv, GasGiven, Given
    <3>3. native["deposit"] \in Nat /\ TopUp \in Nat /\ Gas \in Nat /\ Gas <= TopUp
      BY DEF EvmIInv, EvmRows, Addresses, EvmAssumption
    <3> QED BY <3>2, <3>3
  <2> QED BY <2>1 DEF GasStays
<1>5. CreditedReceived
  <2>1. SUFFICES ASSUME polCredits \subseteq Blockscout PROVE SumOf(polCredits) <= SumOf(Blockscout)
    BY DEF EvmIInv, CreditsListed, CreditedReceived
  <2> DEFINE topups == {b \in Attempts : b[2] = "topup" /\ net[b].st = "ok"}
             lines == {<<b, net[b].val>> : b \in topups}
             brought == IF "POL" \in arrived THEN {<<<<"POL">>, Native>>} ELSE {}
             f == [b \in topups |-> <<b, net[b].val>>]
  <2>2. Blockscout = lines \cup brought
    BY DEF Blockscout
  <2>3. IsFiniteSet(topups)
    <3>1. topups \in SUBSET Attempts /\ IsFiniteSet(Attempts)
      BY AttemptParts DEF EvmIInv
    <3> QED BY <3>1, FS_Subset
  <2>4. f \in Surjection(topups, lines)
    BY DEF Surjection
  <2>5. IsFiniteSet(lines)
    BY <2>3, <2>4, FS_Surjection
  <2>6. IsFiniteSet(brought)
    BY FS_EmptySet, FS_Singleton
  <2>7. \A r \in Blockscout : r[2] \in Nat
    <3>1. \A b \in topups : net[b].val \in Nat
      BY DEF EvmIInv, EvmRows
    <3>2. \A r \in lines : r[2] \in Nat
      BY <3>1
    <3>3. \A r \in brought : r[2] \in Nat
      BY DEF EvmAssumption
    <3> QED BY <2>2, <3>2, <3>3
  <2> HIDE DEF lines, brought
  <2>8. IsFiniteSet(Blockscout)
    BY <2>2, <2>5, <2>6, FS_Union
  <2> DEFINE g == [r \in polCredits |-> r[2]]
             h == [r \in Blockscout |-> r[2]]
  <2>9. IsFiniteSet(polCredits)
    BY <2>1, <2>8, FS_Subset
  <2>10. (\A r \in Blockscout : h[r] \in Nat) /\ (\A r \in polCredits : g[r] = h[r] /\ g[r] \in Int)
    BY <2>1, <2>7
  <2>11. SumOf(polCredits) = SumFunctionOnSet(g, polCredits) /\ SumOf(Blockscout) = SumFunctionOnSet(h, Blockscout)
    BY DEF SumOf
  <2> HIDE DEF g, h
  <2>12. SumFunctionOnSet(g, polCredits) = SumFunctionOnSet(h, polCredits)
    BY <2>9, <2>10, SumSame DEF Summands
  <2>13. SumFunctionOnSet(h, polCredits) <= SumFunctionOnSet(h, Blockscout)
    BY <2>1, <2>8, <2>10, SumPart
  <2> QED BY <2>11, <2>12, <2>13
<1> QED BY <1>1, <1>2, <1>3, <1>4, <1>5 DEF EvmInv

\* The clients of chains of balances keep theirs: a send called safe to reverse has
\* nothing on its way and no send is paid twice, on however many endpoints it is
\* tried, lost answers apart; gas given to an address for its tokens stays for them;
\* credits of POL sum to what came, unless a balance was taken for a deposit
\* (crates/chain: real_client.rs, evm_client.rs, sol_client.rs, rpc_client.rs).
THEOREM BalancesPromise == EvmSpec => []EvmInv
<1>1. EvmInit => EvmIInv
  BY EvmAssumption, EvmStarts
<1>2. EvmIInv /\ [EvmNext]_evmVars => EvmIInv'
  <2> SUFFICES ASSUME EvmIInv, [EvmNext]_evmVars PROVE EvmIInv'
    OBVIOUS
  <2> USE EvmAssumption
  <2>1. ASSUME NEW c \in {"POL", "token"}, Arrives(c) PROVE EvmIInv'
    BY <2>1, ArrivesKeepsInv
  <2>2. CASE WatchPol
    BY <2>2, WatchPolKeepsInv
  <2>3. ASSUME NEW a \in Attempts, Include(a) PROVE EvmIInv'
    BY <2>3, IncludeKeepsInv
  <2>4. ASSUME NEW s \in batch, BeginSend(s) PROVE EvmIInv'
    BY <2>4, BeginSendKeepsInv
  <2>5. ASSUME NEW s \in batch, ReadSweep(s) PROVE EvmIInv'
    BY <2>5, ReadSweepKeepsInv
  <2>6. ASSUME NEW s \in batch, BeginSweep(s) PROVE EvmIInv'
    BY <2>6, BeginSweepKeepsInv
  <2>7. ASSUME NEW s \in batch, BeginTokenSweep(s) PROVE EvmIInv'
    BY <2>7, BeginTokenSweepKeepsInv
  <2>8. ASSUME NEW s \in batch, ReadFails(s) PROVE EvmIInv'
    BY <2>8, ReadFailsKeepsInv
  <2>9. ASSUME NEW s \in batch, Preflight(s) PROVE EvmIInv'
    BY <2>9, PreflightKeepsInv
  <2>10. ASSUME NEW s \in batch, Allowed(s) PROVE EvmIInv'
    BY <2>10, AllowedKeepsInv
  <2>11. ASSUME NEW s \in batch, SignLeg(s) PROVE EvmIInv'
    BY <2>11, SignLegKeepsInv
  <2>12. ASSUME NEW s \in batch, SendLeg(s) PROVE EvmIInv'
    BY <2>12, SendLegKeepsInv
  <2>13. ASSUME NEW s \in batch, Receipt(s) PROVE EvmIInv'
    BY <2>13, ReceiptKeepsInv
  <2>14. CASE UNCHANGED evmVars
    <3>1. /\ batch' = batch /\ at' = at /\ net' = net /\ nonce' = nonce /\ native' = native /\ token' = token
          /\ allowed' = allowed /\ arrived' = arrived /\ unheard' = unheard /\ polCredits' = polCredits
          /\ Attempts' = Attempts
      BY <2>14 DEF evmVars, Attempts
    <3>2. EvmRows'
      BY <3>1 DEF EvmIInv, EvmRows
    <3>3. OneOnItsWay' /\ TokensSwept'
      BY <3>1 DEF EvmIInv, OneOnItsWay, Main, Moves, TokensSwept
    <3>4. GasGiven' /\ CreditsListed'
      BY <3>1 DEF EvmIInv, GasGiven, Whole, Given, Topped, CreditsListed, Blockscout
    <3>5. ASSUME NEW s \in batch PROVE Sound(s, at[s])'
      <4>1. Sound(s, at[s]) /\ (Here(s) \in Attempts \/ at[s].pc # "signed")
        BY HereIsAttempt DEF EvmIInv
      <4>2. TokensInTurn(at[s])'
        BY <3>1, <4>1 DEF Sound, TokensInTurn
      <4>3. GasLeft(at[s])'
        BY <3>1, <4>1 DEF Sound, GasLeft, Whole, Given, Topped
      <4> QED BY <3>1, <4>1, <4>2, <4>3, Carried
    <3> QED BY <3>1, <3>2, <3>3, <3>4, <3>5 DEF EvmIInv
  <2> QED BY <2>1, <2>2, <2>3, <2>4, <2>5, <2>6, <2>7, <2>8, <2>9, <2>10, <2>11, <2>12, <2>13, <2>14 DEF EvmNext
<1>3. EvmIInv => EvmInv
  BY EvmAssumption, EvmPromise
<1> QED BY <1>1, <1>2, <1>3, PTL DEF EvmSpec

===============================================================================
