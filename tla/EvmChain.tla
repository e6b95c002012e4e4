-------------------------------- MODULE EvmChain -------------------------------
(***************************************************************************)
(* The clients of the chains that keep balances: POL, USDT and USDC on     *)
(* Polygon, PEPE on BSC, and SOL (crates/chain/src/real_client.rs with     *)
(* evm_client.rs, sol_client.rs and the readers of rpc_client.rs).         *)
(*                                                                         *)
(* A send is one or two legs, each a transaction: gas for the address      *)
(* before a token leaves it, an approval before a router takes tokens.  A  *)
(* leg is tried on one endpoint after the other; the count of MINED        *)
(* transactions is its nonce, read anew on each.  An endpoint may take a   *)
(* transaction and its answer be lost.  POL, USDT and USDC derive their    *)
(* deposit addresses alike, so an index of each is one address on chain.   *)
(***************************************************************************)
EXTENDS Naturals, FiniteSets, FiniteSetsExt, Functions

CONSTANTS
    Batches, \* the sets of sends that run together
    Kind,    \* send -> "pol", "erc20", "call", "sweepPol", "sweepToken" or "sol"
    Rpcs,    \* how many endpoints there are
    Gas,     \* what a transaction costs
    TopUp, MinGas, PolDust, MinSweep, \* the thresholds of a sweep
    HotNative, HotToken, Native, Token, \* what the hot wallet has; what a deposit brings
    EvmAmount, \* what a withdrawal sends
    MaxUnheard \* bound on the answers lost

VARIABLES
    batch,
    at,      \* send -> [pc, leg, rpc, val]
    net,     \* attempt -> [st, nonce, val], as the network has it
    nonce,   \* address -> transactions mined
    native, token,
    allowed, \* the router may take the hot wallet's tokens
    arrived, \* the deposits others made to the address
    polCredits, \* POL credited to the holder of the deposit address, by row
    unheard  \* sends an endpoint took while its answer was lost

evmVars == <<batch, at, net, nonce, native, token, allowed, arrived, polCredits, unheard>>

\* One tick sweeps the POL of an address once, and gas is sent in amounts that pay
\* for a transaction.
ASSUME EvmAssumption ==
    /\ \A b \in Batches :
          /\ IsFiniteSet(b) /\ b \subseteq DOMAIN Kind
          /\ \A s, t \in b : Kind[s] = "sweepPol" /\ Kind[t] = "sweepPol" => s = t
    /\ \A s \in DOMAIN Kind : Kind[s] \in {"pol", "erc20", "call", "sweepPol", "sweepToken", "sol"}
    /\ Rpcs \in Nat \ {0}
    /\ {Gas, TopUp, MinGas, PolDust, MinSweep, HotNative, HotToken, Native, Token, EvmAmount} \subseteq Nat
    /\ Gas <= TopUp

Addresses == {"hot", "deposit", "out"}
Legs == {"pol", "erc20", "call", "sweepPol", "sweepToken", "sol", "topup", "approve"}
LegsOf(kind) ==
    CASE kind = "call" -> {"approve", "call"} [] kind = "sweepToken" -> {"topup", kind} [] OTHER -> {kind}
Attempts == UNION {{<<s, l, r>> : l \in LegsOf(Kind[s]), r \in 1 .. Rpcs} : s \in batch}
AtRest == [pc |-> "new", leg |-> "pol", rpc |-> 1, val |-> 0]
Unsent == [st |-> "none", nonce |-> 0, val |-> 0]
Gone == {"sent", "safe", "unsure", "nothing"}

Payer(leg) == IF leg \in {"sweepPol", "sweepToken"} THEN "deposit" ELSE "hot"
To(leg) == CASE leg = "topup" -> "deposit" [] leg \in {"sweepPol", "sweepToken"} -> "hot" [] OTHER -> "out"
MovesNative(leg) == leg \in {"pol", "topup", "sweepPol", "sol"}
MovesToken(leg) == leg \in {"erc20", "sweepToken", "call"}

EvmInit ==
    /\ batch \in Batches
    /\ at = [s \in batch |-> AtRest]
    /\ net = [a \in Attempts |-> Unsent]
    /\ nonce = [a \in Addresses |-> 0]
    /\ native = [a \in Addresses |-> IF a = "hot" THEN HotNative ELSE 0]
    /\ token = [a \in Addresses |-> IF a = "hot" THEN HotToken ELSE 0]
    /\ allowed = FALSE
    /\ arrived = {}
    /\ polCredits = {}
    /\ unheard = {}

(***************************************************************************)
(* The network                                                             *)
(***************************************************************************)
\* Others pay to the address; of interest where a sweep runs.
Arrives(coin) ==
    /\ coin \notin arrived /\ \E s \in batch : Payer(Kind[s]) = "deposit"
    /\ arrived' = arrived \cup {coin}
    /\ native' = [native EXCEPT !["deposit"] = @ + IF coin = "POL" THEN Native ELSE 0]
    /\ token' = [token EXCEPT !["deposit"] = @ + IF coin = "token" THEN Token ELSE 0]
    /\ UNCHANGED <<batch, at, net, nonce, allowed, polCredits, unheard>>

Pooled(a) == net[a].st = "pool"

Move(balance, from, to, v) == [balance EXCEPT ![from] = @ - v, ![to] = @ + v]

\* A block takes the next transaction of an address: gas is paid whatever
\* becomes of it.  Transactions left with that nonce will never be.
Include(a) ==
    LET leg == a[2]
        from == Payer(leg)
        v == net[a].val
        cost == Gas + IF MovesNative(leg) THEN v ELSE 0
    IN /\ Pooled(a)
       /\ leg # "sol" => net[a].nonce = nonce[from]
       /\ native[from] >= cost
       /\ nonce' = [nonce EXCEPT ![from] = IF leg = "sol" THEN @ ELSE @ + 1]
       /\ \E ok \in BOOLEAN :
             /\ ok \/ MovesToken(leg)
             /\ ok /\ MovesToken(leg) => token[from] >= v
             /\ ok /\ leg = "call" => allowed
             /\ ~ ok => leg = "call" \/ token[from] < v
             /\ net' = [b \in Attempts |->
                          CASE b = a -> [net[a] EXCEPT !.st = IF ok THEN "ok" ELSE "reverted"]
                            [] b # a /\ Pooled(b) /\ leg # "sol" /\ Payer(b[2]) = from /\ net[b].nonce = net[a].nonce
                                 -> [net[b] EXCEPT !.st = "dropped"]
                            [] OTHER -> net[b]]
             /\ native' = LET paid == [native EXCEPT ![from] = @ - Gas]
                          IN IF MovesNative(leg) THEN Move(paid, from, To(leg), v) ELSE paid
             /\ token' = IF ok /\ MovesToken(leg) THEN Move(token, from, To(leg), v) ELSE token
             /\ allowed' = (allowed \/ leg = "approve")
       /\ UNCHANGED <<batch, at, arrived, polCredits, unheard>>

SameNonce(a, n) == {b \in Attempts : Pooled(b) /\ Payer(b[2]) = Payer(a[2]) /\ net[b].nonce = n}

(***************************************************************************)
(* A send                                                                  *)
(***************************************************************************)
Go(s, pc, leg, r, v) == at' = [at EXCEPT ![s] = [pc |-> pc, leg |-> leg, rpc |-> r, val |-> v]]
Here(s) == <<s, at[s].leg, at[s].rpc>>
End(s, how) == at' = [at EXCEPT ![s] = [AtRest EXCEPT !.pc = how]]
Only == UNCHANGED <<batch, net, nonce, native, token, allowed, arrived, polCredits>>

\* Slip: everything above the fee is swept.
SendableAll(wei, reserve) == IF wei < MinSweep THEN 0 ELSE wei - Gas

\* pol_native_send_wei; 0 for None.
Sendable(wei, reserve) ==
    IF (reserve = 0 /\ wei < MinSweep) \/ wei <= Gas + PolDust + reserve THEN 0 ELSE wei - Gas - reserve

\* broadcast_withdrawal and broadcast_evm_contract_call.
BeginSend(s) ==
    /\ at[s].pc = "new" /\ Kind[s] \in {"pol", "erc20", "call", "sol"}
    /\ Go(s, "try", IF Kind[s] = "call" THEN "approve" ELSE Kind[s], 1, EvmAmount)
    /\ Only /\ UNCHANGED unheard

\* sweep_deposit_to_hot for POL: the balance, then whether tokens need gas; a
\* balance that cannot be read counts as tokens.
ReadSweep(s) ==
    /\ at[s].pc = "new" /\ Kind[s] = "sweepPol"
    /\ Go(s, "balance", "sweepPol", 1, native["deposit"])
    /\ Only /\ UNCHANGED unheard

BeginSweep(s) ==
    /\ at[s].pc = "balance"
    /\ \E reserve \in {TopUp} \cup (IF token["deposit"] > 0 THEN {} ELSE {0}) :
           LET v == Sendable(at[s].val, reserve)
           IN IF v = 0 THEN End(s, "nothing") ELSE Go(s, "try", "sweepPol", 1, v)
    /\ Only /\ UNCHANGED unheard

\* sweep_deposit_to_hot for a token: gas first when there is too little.
BeginTokenSweep(s) ==
    /\ at[s].pc = "new" /\ Kind[s] = "sweepToken"
    /\ IF token["deposit"] = 0 THEN End(s, "nothing")
       ELSE IF native["deposit"] < MinGas THEN Go(s, "try", "topup", 1, TopUp)
       ELSE Go(s, "try", "sweepToken", 1, token["deposit"])
    /\ Only /\ UNCHANGED unheard

\* The next endpoint, or the end: safe to reverse.
NextRpc(s) ==
    IF at[s].rpc < Rpcs /\ at[s].leg # "sol"
    THEN at' = [at EXCEPT ![s].rpc = @ + 1, ![s].pc = "try"]
    ELSE End(s, "safe")

\* The legs after this one.  A sweep of PEPE ends with the gas and is left to the
\* next tick; one of USDT or USDC goes on.
LegDone(s) ==
    CASE at[s].leg = "topup" -> Go(s, "try", "sweepToken", 1, token["deposit"]) \/ End(s, "nothing")
      [] at[s].leg = "approve" -> Go(s, "try", "call", 1, at[s].val)
      [] OTHER -> End(s, "sent")

\* A read fails: broadcast_pol and the others go to the next endpoint.
ReadFails(s) ==
    /\ at[s].pc = "try"
    /\ NextRpc(s)
    /\ Only /\ UNCHANGED unheard

\* The checks before a signature.  broadcast_pol makes none.
FailsPreflight(s) ==
    LET from == Payer(at[s].leg)
    IN \/ at[s].leg \in {"erc20", "sweepToken"} /\ (token[from] < at[s].val \/ native[from] < Gas)
       \/ at[s].leg = "call" /\ native[from] < Gas

Preflight(s) ==
    /\ at[s].pc = "try" /\ FailsPreflight(s)
    /\ End(s, "safe")
    /\ Only /\ UNCHANGED unheard

\* ensure_erc20_allowance finds enough.
Allowed(s) ==
    /\ at[s].pc = "try" /\ at[s].leg = "approve" /\ allowed
    /\ LegDone(s)
    /\ Only /\ UNCHANGED unheard

\* eth_getTransactionCount at "latest", then the signature; estimateGas must
\* succeed for a token and for a call.
SignLeg(s) ==
    /\ at[s].pc = "try" /\ ~ FailsPreflight(s)
    /\ at[s].leg = "approve" => ~ allowed
    /\ at[s].leg = "call" => allowed /\ token["hot"] >= at[s].val
    /\ net' = [net EXCEPT ![Here(s)] = [st |-> "none", nonce |-> nonce[Payer(at[s].leg)], val |-> at[s].val]]
    /\ at' = [at EXCEPT ![s].pc = "signed"]
    /\ UNCHANGED <<batch, nonce, native, token, allowed, arrived, polCredits, unheard>>

\* A rival with its nonce may be replaced if the gas price has risen meanwhile.
Takes(a) ==
    /\ a[2] # "sol" => net[a].nonce >= nonce[Payer(a[2])]
    /\ native[Payer(a[2])] >= Gas + IF MovesNative(a[2]) THEN net[a].val ELSE 0

\* Which legs wait for their receipt.
Waits(leg) == leg \in {"erc20", "sweepToken", "call", "approve", "topup"}

SendLeg(s) ==
    /\ at[s].pc = "signed"
    /\ \E taken, told \in BOOLEAN :
           /\ told => taken
           /\ taken /\ ~ told => Cardinality(unheard) < MaxUnheard
           /\ taken => Takes(Here(s))
           /\ net' = [a \in Attempts |->
                        CASE a = Here(s) /\ taken -> [net[a] EXCEPT !.st = "pool"]
                          [] taken /\ at[s].leg # "sol" /\ a \in SameNonce(Here(s), net[Here(s)].nonce)
                               -> [net[a] EXCEPT !.st = "dropped"]
                          [] OTHER -> net[a]]
           /\ IF ~ told THEN NextRpc(s)
              ELSE IF Waits(at[s].leg) THEN at' = [at EXCEPT ![s].pc = "wait"] ELSE LegDone(s)
           /\ unheard' = IF taken /\ ~ told THEN unheard \cup {s} ELSE unheard
    /\ UNCHANGED <<batch, nonce, native, token, allowed, arrived, polCredits>>

\* Slip: a receipt that did not come is one that says no.
LostAsReverted(leg) == "safe"

\* The receipt does not come.
NoReceipt(leg) == IF leg \in {"approve", "topup"} THEN "safe" ELSE "unsure"

\* wait_receipt_success: mined, reverted, or not seen in time.  An approval is
\* then tried on the next endpoint; a top-up's receipt is not looked into.
Receipt(s) ==
    /\ at[s].pc = "wait"
    /\ \/ net[Here(s)].st = "ok" /\ LegDone(s)
       \/ net[Here(s)].st = "reverted" /\ End(s, "safe")
       \/ at[s].leg = "approve" /\ NextRpc(s)
       \/ at[s].leg # "approve" /\ End(s, NoReceipt(at[s].leg))
    /\ Only /\ UNCHANGED unheard

(***************************************************************************)
(* Reading deposits of POL                                                 *)
(***************************************************************************)
\* Every native transfer to the address that succeeded; the hot wallet's own
\* transfers of gas are among them.
Blockscout ==
    {<<a, net[a].val>> : a \in {b \in Attempts : b[2] = "topup" /\ net[b].st = "ok"}}
        \cup (IF "POL" \in arrived THEN {<<<<"POL">>, Native>>} ELSE {})

\* A node has no history: the balance itself is the row.
BalanceRow == IF native["deposit"] = 0 THEN {} ELSE {<<<<"balance">>, native["deposit"]>>}

\* fetch_evm_with_fallbacks, then a credit of each row not credited before.  The
\* batches with a sweep of POL leave it out, to stay small.
WatchPol ==
    \E rows \in {Blockscout, BalanceRow} :
        LET new == {r \in rows : ~ \E c \in polCredits : c[1] = r[1]}
        IN /\ new # {} /\ \A s \in batch : Kind[s] # "sweepPol"
           /\ polCredits' = polCredits \cup new
           /\ UNCHANGED <<batch, at, net, nonce, native, token, allowed, arrived, unheard>>

EvmNext ==
    \/ \E c \in {"POL", "token"} : Arrives(c)
    \/ WatchPol
    \/ \E a \in Attempts : Include(a)
    \/ \E s \in batch : \/ BeginSend(s) \/ ReadSweep(s) \/ BeginSweep(s) \/ BeginTokenSweep(s)
                        \/ ReadFails(s) \/ Preflight(s) \/ Allowed(s) \/ SignLeg(s)
                        \/ SendLeg(s) \/ Receipt(s)

EvmSpec == EvmInit /\ [][EvmNext]_evmVars

(***************************************************************************)
(* Properties                                                              *)
(***************************************************************************)
EvmTypeOK ==
    /\ batch \in Batches
    /\ \A s \in batch : at[s].pc \in Gone \cup {"new", "balance", "try", "signed", "wait"} /\ at[s].leg \in Legs
    /\ \A a \in Attempts : net[a].st \in {"none", "pool", "ok", "reverted", "dropped"}
    /\ allowed \in BOOLEAN /\ arrived \subseteq {"POL", "token"} /\ unheard \subseteq batch

Main(s) == {a \in Attempts : a[1] = s /\ a[2] = Kind[s]}

\* safe_to_reverse: nothing of the send is on its way, on any endpoint tried,
\* unless an endpoint took it and could not say so.
SafeIsUnpaid ==
    \A s \in batch : at[s].pc = "safe" /\ s \notin unheard => \A a \in Main(s) : net[a].st \notin {"pool", "ok"}

\* However many endpoints a send is tried on, and whatever nonce each gave, at
\* most one of its transactions moves the money, with the same exception.
PaidOnce ==
    \A s \in batch \ unheard : Cardinality({a \in Main(s) : net[a].st \in {"pool", "ok"}}) <= 1

\* Gas given to an address for its tokens stays for them: a sweep of POL that
\* runs at the same time, from whatever balance it read, leaves it (as long as no
\* answer was lost).
GasStays ==
    \A s \in batch : unheard = {} =>
        (Kind[s] = "sweepToken" /\ at[s].leg = "sweepToken" /\ at[s].pc = "try" /\ token["deposit"] > 0
            /\ (\E a \in Attempts : a[1] = s /\ a[2] = "topup" /\ net[a].st = "ok")
            => native["deposit"] >= Gas)

SumOf(rows) == SumFunctionOnSet([r \in rows |-> r[2]], rows)

\* The holder of the address is credited what it received (the hot wallet's gas
\* included), unless a node's balance was taken for one more deposit.
CreditedReceived ==
    \/ \E c \in polCredits : c[1] = <<"balance">>
    \/ SumOf(polCredits) <= SumOf(Blockscout)

\* What these clients promise to the ledger that acts on their answers.
EvmInv == EvmTypeOK /\ SafeIsUnpaid /\ PaidOnce /\ GasStays /\ CreditedReceived
=============================================================================
