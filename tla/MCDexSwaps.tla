----------------------------- MODULE MCDexSwaps -----------------------------
(***************************************************************************)
(* One swap, asked for twice with one key, paid for by one or two workers. *)
(***************************************************************************)
EXTENDS DexSwaps

CONSTANTS fromWallet, toWallet, r1, r2, k1, k2, key

TwoWallets == {fromWallet, toWallet}
DexTypes == {"DEX_SWAP_OUT", "DEX_SWAP_IN", "DEX_SWAP_REFUND"}
OneRequest == {r1}
TwoRequests == {r1, r2}
OneWorker == {k1}
TwoWorkers == {k1, k2}

SameKey == [s \in Swaps |-> key]
MCFrom == [s \in Swaps |-> fromWallet]
MCTo == [s \in Swaps |-> toWallet]
MCFromAmount == [s \in Swaps |-> 2]
MCToAmount == [s \in Swaps |-> 3]
MCBalance == [w \in Wallets |-> IF w = fromWallet THEN 3 ELSE 0]

NoHolds == {{}}
MCHolds == {{}, {toWallet}}

\* Workers are alike, and so are the requests (and the runs with symmetry check no liveness).
Alike == Permutations({k1, k2}) \cup Permutations({r1, r2})
=============================================================================
