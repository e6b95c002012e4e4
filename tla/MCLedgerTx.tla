----------------------------- MODULE MCLedgerTx -----------------------------
(***************************************************************************)
(* LedgerTx on the two wallets of a user and the two HOUSE wallets of the  *)
(* same coins, and operations that move one unit.                          *)
(***************************************************************************)
EXTENDS LedgerTx

CONSTANTS btc, ltc, houseBtc, houseLtc, dep, wd, wd2, swap, back, claim, tx1, tx2

MCTxs == {tx1, tx2}
MCWallets == {btc, ltc, houseBtc, houseLtc}
MCRefs == {dep, wd, wd2, swap, back, claim}
MCTypes == {"DEPOSIT", "DEPOSIT_REVERSAL", "WITHDRAWAL", "WITHDRAWAL_FEE",
            "SWAP_OUT", "SWAP_IN", "FAUCET"}

MCRank == (houseBtc :> 1) @@ (btc :> 2) @@ (houseLtc :> 3) @@ (ltc :> 4)
MCInitialBalance == (btc :> 2) @@ (ltc :> 0) @@ (houseBtc :> 0) @@ (houseLtc :> 1)

Program(locks, es) ==
    [refers |-> {}, locks |-> locks, entries |-> es, orphans |-> FALSE]

CreditDeposit == Program({btc}, <<Entry(btc, 1, "DEPOSIT", dep)>>)

ReconcileDeposit == [Program({btc}, <<Entry(btc, -1, "DEPOSIT_REVERSAL", dep)>>)
                       EXCEPT !.orphans = TRUE]

\* request_withdrawal inserts its row, which references the wallet, first.
RequestWithdrawal(id) ==
    [Program({}, <<Entry(btc, -1, "WITHDRAWAL", id),
                   Entry(btc, -1, "WITHDRAWAL_FEE", id)>>) EXCEPT !.refers = {btc}]

SwapBtcForLtc == Program(MCWallets, <<Entry(btc, -1, "SWAP_OUT", swap),
                                      Entry(houseBtc, 1, "SWAP_IN", swap),
                                      Entry(houseLtc, -1, "SWAP_OUT", swap),
                                      Entry(ltc, 1, "SWAP_IN", swap)>>)

SwapBack == Program(MCWallets, <<Entry(ltc, -1, "SWAP_OUT", back),
                                 Entry(houseLtc, 1, "SWAP_IN", back),
                                 Entry(houseBtc, -1, "SWAP_OUT", back),
                                 Entry(btc, 1, "SWAP_IN", back)>>)

\* faucet.rs claim locks the user's wallet, and HOUSE when it debits it.
ClaimFaucet == Program({ltc}, <<Entry(houseLtc, -1, "FAUCET", claim),
                                Entry(ltc, 1, "FAUCET", claim)>>)

AllPrograms == {CreditDeposit, ReconcileDeposit, RequestWithdrawal(wd),
                SwapBtcForLtc, SwapBack, ClaimFaucet}

TwoWithdrawals == {RequestWithdrawal(wd), RequestWithdrawal(wd2)}
=============================================================================
