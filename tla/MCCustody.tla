------------------------------ MODULE MCCustody ------------------------------
(***************************************************************************)
(* Custody with one wallet, which is where its operations meet.            *)
(***************************************************************************)
EXTENDS Custody

CONSTANTS alice, r1, r2, r3, o1, o2, k1, k2, watcher1, watcher2, key

MCTypes == {"WITHDRAWAL", "WITHDRAWAL_FEE", "WITHDRAWAL_REVERSAL", "DEPOSIT", "DEPOSIT_REVERSAL"}
MCFee == 1
MCThreshold == 4

OneRequest == {r1}
ThreeRequests == {r1, r2, r3}
OneOutput == {o1}
NoOutputs == {}
TwoOutputs == {o1, o2}

OneWallet == {alice}

OneWorker == {k1}
TwoWorkers == {k1, k2}
OneWatcher == {watcher1}
TwoWatchers == {watcher1, watcher2}

\* Workers are alike, and so are watchers.
Alike == Permutations({k1, k2}) \cup Permutations({watcher1, watcher2})

MCRefs == Requests \cup Outputs

AliceWallets == [r \in Requests |-> alice]
AliceDeposits == [o \in Outputs |-> alice]

\* r1 and r2 are one request, sent twice.
MCKeys == [r \in Requests |-> IF r \in {r1, r2} THEN key ELSE NoKey]

\* r3 waits for approval, r1 and r2 do not.
MCAmounts == [r \in Requests |-> IF r = r3 THEN 4 ELSE 2]
MCDeposits == [o \in Outputs |-> 3]

MCBalance == [w \in Wallets |-> 5]
NoBalance == [w \in Wallets |-> 0]
=============================================================================
