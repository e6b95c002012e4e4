------------------------------- MODULE UtxoChain -------------------------------
(***************************************************************************)
(* The clients of the chains that keep unspent outputs (BTC, BCH, DGB and  *)
(* ZER; LTC and DOGE are signed like BTC): what crates/chain reads of a    *)
(* chain, and what it sends to it.                                         *)
(*                                                                         *)
(* A deposit is read from the first source that answers, and the sources   *)
(* do not list the same outputs nor count confirmations alike.  A send     *)
(* reads the outputs of its address, spends them all, and returns the      *)
(* change; a sweep moves the outputs of a deposit address to the hot one.  *)
(* The network is external: a transaction whose inputs are spent is        *)
(* refused, or takes the place of the one that spends them if that one is  *)
(* unconfirmed, allows it and pays less; and an answer may be lost.        *)
(***************************************************************************)
EXTENDS Naturals, FiniteSets, FiniteSetsExt, SequencesExt

CONSTANTS
    Coins,       \* the chains a behaviour may be of
    Deposits,    \* transactions others make
    DepositOuts, \* deposit -> sequence of [to, val]
    HotOuts,     \* outputs the hot wallet begins with, a sequence of [to, val]
    Withdrawals, Sweeps,
    Amount,      \* what a withdrawal sends
    FeeRates        \* fee rates, in satoshis per byte

VARIABLES
    coin,    \* which chain this is
    tx,      \* transaction -> its inputs, outputs and fee
    depth,   \* transaction -> how the network has it
    send,    \* send -> how far it is
    credits, \* rows credited, each <<transaction, vout, amount>>
    doubt    \* sends the network took without the client hearing of it; credits
             \* made from a source that miscounts

utxoVars == <<coin, tx, depth, send, credits, doubt>>

AnOutput == [to : {"deposit", "legacy", "hot", "payee"}, val : Nat]

\* A transaction is made by one of: others, the client, or the past.
ASSUME UtxoAssumption ==
    /\ Coins \subseteq {"BTC", "BCH", "DGB", "ZER"}
    /\ IsFiniteSet(Deposits) /\ IsFiniteSet(Withdrawals) /\ IsFiniteSet(Sweeps)
    /\ Deposits \cap (Withdrawals \cup Sweeps) = {} /\ Withdrawals \cap Sweeps = {}
    /\ "genesis" \notin Deposits \cup Withdrawals \cup Sweeps
    /\ DepositOuts \in [Deposits -> Seq(AnOutput)] /\ HotOuts \in Seq(AnOutput)
    /\ Amount \in Nat /\ FeeRates \subseteq Nat

Sends == Withdrawals \cup Sweeps
Genesis == "genesis"
Txs == Deposits \cup Sends \cup {Genesis}
Depths == {"none", "mempool", "mined", "deep"}
Mined(t) == depth[t] \in {"mined", "deep"}

NoTx == [ins |-> {}, outs |-> <<>>, fee |-> 0]

Outs(t) == {<<t, v>> : v \in 1 .. Len(tx[t].outs)}
Out(o) == tx[o[1]].outs[o[2]]
Value(os) == SumFunctionOnSet([o \in os |-> Out(o).val], os)
Spent(o) == \E t \in Txs : depth[t] # "none" /\ o \in tx[t].ins
PaidTo(a) == {o \in UNION {Outs(t) : t \in Txs} : depth[o[1]] # "none" /\ Out(o).to = a}
Unspent(a) == {o \in PaidTo(a) : ~ Spent(o)}

UtxoInit ==
    /\ coin \in Coins
    /\ tx = [t \in Txs |-> CASE t = Genesis -> [NoTx EXCEPT !.outs = HotOuts]
                             [] t \in Deposits -> [NoTx EXCEPT !.outs = DepositOuts[t]]
                             [] OTHER -> NoTx]
    /\ depth = [t \in Txs |-> IF t = Genesis THEN "deep" ELSE "none"]
    /\ send = [s \in Sends |-> "new"]
    /\ credits = {}
    /\ doubt = [sends |-> {}, credits |-> {}]

(***************************************************************************)
(* The network                                                             *)
(***************************************************************************)
Arrive(d) ==
    /\ depth[d] = "none"
    /\ depth' = [depth EXCEPT ![d] = "mempool"]
    /\ UNCHANGED <<coin, tx, send, credits, doubt>>

\* Confirmations beyond the first are counted for deposits alone.
Mine(t) ==
    /\ \/ /\ depth[t] = "mempool"
          /\ \A o \in tx[t].ins : Mined(o[1])
          /\ depth' = [depth EXCEPT ![t] = "mined"]
       \/ t \in Deposits /\ depth[t] = "mined" /\ depth' = [depth EXCEPT ![t] = "deep"]
    /\ UNCHANGED <<coin, tx, send, credits, doubt>>

Rivals(built) == {t \in Txs : depth[t] # "none" /\ tx[t].ins \cap built.ins # {}}

\* BIP 125: every input the signer makes is replaceable.  BCH has no such rule.
Outbids(built) ==
    /\ coin # "BCH"
    /\ \A t \in Rivals(built) :
           /\ depth[t] = "mempool" /\ tx[t].fee < built.fee
           /\ \A u \in Txs : depth[u] # "none" => tx[u].ins \cap Outs(t) = {}

Known(built) == \A o \in built.ins : depth[o[1]] # "none"

Accepts(built) == Known(built) /\ (Rivals(built) = {} \/ Outbids(built))

(***************************************************************************)
(* Reading deposits.  Each source gives rows [key, val, deep]: the vout a  *)
(* row names, its amount, and whether its confirmations are enough.        *)
(***************************************************************************)
RowOf(o) == [key |-> o, val |-> Out(o).val, deep |-> depth[o[1]] = "deep"]

\* mempool.space, Blockstream, litecoinspace; DGB Insight and Blockbook.
UtxoList(a) == {RowOf(o) : o \in Unspent(a)}

\* scantxoutset of a node: unspent and mined.
ScanTxOutSet(a) == {RowOf(o) : o \in {p \in Unspent(a) : Mined(p[1])}}

\* Slip: outputs counted from one are compared with outputs counted from zero.
BlockcypherFromOne(a) == {[RowOf(o) EXCEPT !.key = <<o[1], o[2] + 1>>] : o \in PaidTo(a)}

\* BlockCypher: every output, by its place in the transaction.
Blockcypher(a) == {RowOf(o) : o \in PaidTo(a)}

\* Bitcore's public list: what is mined has six confirmations.
BitcoreList(a) == {[RowOf(o) EXCEPT !.deep = Mined(o[1])] : o \in PaidTo(a)}

\* Blockchair and SoChain: the answer is not read.
NoList(a) == {}

\* ZER's explorer: one row for a transaction, named vout 0.
ZerExplorer(a) ==
    {[key |-> <<o[1], 1>>, val |-> Value({p \in PaidTo(a) : p[1] = o[1]}), deep |-> depth[o[1]] = "deep"]
        : o \in PaidTo(a)}

\* The sources of each chain that may be the first to answer.
Sources(c, a) ==
    CASE c = "BTC" -> {UtxoList(a), BitcoreList(a), Blockcypher(a)}
      [] c = "BCH" -> {BitcoreList(a), NoList(a)}
      [] c = "DGB" -> {ScanTxOutSet(a), UtxoList(a)}
      [] c = "ZER" -> {ScanTxOutSet(a), ZerExplorer(a)}

Miscounts(rows, a) == rows # {} /\ rows \notin {UtxoList(a), ScanTxOutSet(a), Blockcypher(a)}

\* deposit_watcher with credit_deposit: a row credited once is not again.
Watch(a) ==
    \E rows \in Sources(coin, a) :
        LET new == {r \in rows : r.deep /\ ~ \E c \in credits : <<c[1], c[2]>> = r.key}
            made == {<<r.key[1], r.key[2], r.val>> : r \in new}
        IN /\ made # {}
           /\ credits' = credits \cup made
           /\ doubt' = [doubt EXCEPT !.credits = IF Miscounts(rows, a) THEN @ \cup made ELSE @]
           /\ UNCHANGED <<coin, tx, depth, send>>

(***************************************************************************)
(* Sending                                                                 *)
(***************************************************************************)
\* The unspent outputs a client may be told of.
BitcoreUnspent(a) == {Unspent(a), {o \in Unspent(a) : Mined(o[1])}}
DgbUnspent(a) == {{o \in Unspent(a) : Mined(o[1])}, Unspent(a)}
ZerUnspent(a) == {Unspent(a), {o \in Unspent(a) : Mined(o[1])}} \ {{}}

\* An indexer that has not seen the last transactions lists what they spend.
Stale(a) == {o \in PaidTo(a) : Mined(o[1]) /\ \A t \in Txs : o \in tx[t].ins => ~ Mined(t)}

Listings(a) ==
    {Stale(a)} \cup (CASE coin = "DGB" -> DgbUnspent(a)
                       [] coin = "ZER" -> ZerUnspent(a)
                       [] OTHER -> BitcoreUnspent(a))

SegwitSize(n, m) == 11 + 68 * n + 31 * m
LegacySize(n, m) == 10 + 148 * n + 34 * m

ZerFee == 10000

SendFee(n, m, rate) ==
    CASE coin = "ZER" -> ZerFee
      [] coin = "BCH" -> LegacySize(n, m) * rate
      [] OTHER -> SegwitSize(n, m) * rate

Outputs(to, amount, change, own) ==
    <<[to |-> to, val |-> amount]>> \o IF change > 0 THEN <<[to |-> own, val |-> change]>> ELSE <<>>

\* build_and_sign: everything listed is spent.
Built(ins, to, amount, fee, own) ==
    [ins |-> ins, outs |-> Outputs(to, amount, Value(ins) - amount - fee, own), fee |-> fee]

\* What the network does with a transaction and what the client is told:
\* the first may happen without the second.
Bitcore == {[taken |-> TRUE, told |-> "txid"], [taken |-> TRUE, told |-> "error"], [taken |-> FALSE, told |-> "error"]}

\* The node, then each host's two routes, with the same bytes.
DgbHosts == Bitcore

\* Insight, then the node that lags: its reason is appended to Insight's.
ZerHosts == Bitcore \cup {[taken |-> t, told |-> "missing inputs"] : t \in BOOLEAN}

Hosts == CASE coin = "DGB" -> DgbHosts [] coin = "ZER" -> ZerHosts [] OTHER -> Bitcore

\* Slip: an error is an error.
SafeAnyway(told) == TRUE

\* broadcast_zer reads the reason; the others trust no error.
SafeToReverse(told) == coin = "ZER" /\ told = "missing inputs"

Refuse(s) ==
    /\ send' = [send EXCEPT ![s] = "safe"]
    /\ UNCHANGED <<coin, tx, depth, credits, doubt>>

\* Sign, then hand over; the listing is as old as the reads before it.
SignSpend(s, ins, to, amount, fee, own) ==
    IF Value(ins) < amount + fee
    THEN Refuse(s)
    ELSE /\ tx' = [tx EXCEPT ![s] = Built(ins, to, amount, fee, own)]
         /\ send' = [send EXCEPT ![s] = "signed"]
         /\ UNCHANGED <<coin, depth, credits, doubt>>

\* broadcast_withdrawal, broadcast_dgb and broadcast_zer up to the signature.
SignWithdrawal(s) ==
    /\ send[s] = "new"
    /\ \/ Refuse(s)
       \/ \E ins \in Listings("hot"), rate \in FeeRates :
              SignSpend(s, ins, "payee", Amount, SendFee(Cardinality(ins), 2, rate), "hot")

\* resolve_deposit_signer: the address of the path before, when this is empty.
DepositAddress ==
    IF Value({o \in Unspent("deposit") : Mined(o[1])}) = 0
        /\ Value({o \in Unspent("legacy") : Mined(o[1])}) > 0
    THEN "legacy" ELSE "deposit"

Dust == CASE coin = "DGB" -> 1000 [] coin = "ZER" -> 0 [] OTHER -> 600

\* sweep_deposit_to_hot.  For DGB the amount leaves room for the fee of one
\* output and is then sent with the fee of two; for ZER it is the balance.
SignSweep(s) ==
    /\ send[s] = "new"
    /\ \E ins \in Listings(DepositAddress), rate \in FeeRates :
           LET n == Cardinality(ins)
               own == IF coin = "ZER" THEN 0 ELSE SendFee(n, 1, rate)
           IN /\ ins # {} /\ Value(ins) > own + Dust
              /\ SignSpend(s, ins, "hot", Value(ins) - own,
                      IF coin \in {"DGB", "ZER"} THEN SendFee(n, 2, rate) ELSE own, DepositAddress)

HandOver(s) ==
    /\ send[s] = "signed"
    /\ \E h \in Hosts :
           /\ h.taken => Accepts(tx[s])
           /\ depth' = [t \in Txs |-> CASE t = s /\ h.taken -> "mempool"
                                        [] h.taken /\ t \in Rivals(tx[s]) -> "none"
                                        [] OTHER -> depth[t]]
           /\ send' = [t \in Sends |->
                         CASE t = s -> IF h.told = "txid" THEN "sent"
                                       ELSE IF SafeToReverse(h.told) THEN "safe" ELSE "unsure"
                           [] t # s /\ h.taken /\ t \in Rivals(tx[s]) -> "outbid"
                           [] OTHER -> send[t]]
           /\ doubt' = [doubt EXCEPT !.sends = IF h.taken /\ h.told # "txid" THEN @ \cup {s} ELSE @]
    /\ UNCHANGED <<coin, tx, credits>>

UtxoNext ==
    \/ \E d \in Deposits : Arrive(d)
    \/ \E t \in Txs : Mine(t)
    \/ \E a \in {"deposit", "legacy"} : Watch(a)
    \/ \E s \in Withdrawals : SignWithdrawal(s)
    \/ \E s \in Sweeps : SignSweep(s)
    \/ \E s \in Sends : HandOver(s)

UtxoSpec == UtxoInit /\ [][UtxoNext]_utxoVars

(***************************************************************************)
(* Properties                                                              *)
(***************************************************************************)
UtxoTypeOK ==
    /\ coin \in Coins
    /\ \A t \in Txs : \A o \in tx[t].ins : o[1] \in Txs /\ o[2] \in 1 .. Len(tx[o[1]].outs)
    /\ depth \in [Txs -> Depths]
    /\ send \in [Sends -> {"new", "signed", "sent", "safe", "unsure", "outbid"}]
    /\ \A c \in credits : c[1] \in Txs
    /\ doubt.sends \subseteq Sends /\ doubt.credits \subseteq credits

CreditsOf(t) == {c \in credits : c[1] = t}
CreditOf(t) == SumFunctionOnSet([c \in CreditsOf(t) |-> c[3]], CreditsOf(t))

\* Whichever sources answer in turn, a transaction is credited no more than it
\* paid to deposit addresses: they name its outputs alike.  ZER's explorer does
\* not, and what it made a credit of is set apart.
CreditedOnce ==
    \A t \in Txs : \/ \E c \in doubt.credits : c[1] = t
                   \/ CreditOf(t) <= Value({o \in Outs(t) : Out(o).to \in {"deposit", "legacy"}})

\* A credit is made of a transaction deep enough, unless a source said so of one
\* that was only mined.
CreditedDeep == \A c \in credits \ doubt.credits : depth[c[1]] = "deep"

\* safe_to_reverse is said only of a send that is not and will not be on the
\* chain; for ZER the reason of the lagging node hides that Insight took it.
SafeIsUnsent ==
    \A s \in Sends : send[s] = "safe" => depth[s] = "none" \/ (coin = "ZER" /\ s \in doubt.sends)

\* Whatever it read, a sweep of BTC or BCH asks for what its inputs hold.
SweepsFit == \A s \in Sweeps : send[s] = "safe" => coin \in {"DGB", "ZER"}

\* What the clients of these chains promise to the ledger that acts on them.
UtxoInv == UtxoTypeOK /\ CreditedOnce /\ CreditedDeep /\ SafeIsUnsent /\ SweepsFit
=============================================================================
