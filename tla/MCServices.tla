------------------------------ MODULE MCServices ------------------------------
(***************************************************************************)
(* The services that share nothing but the ledger, and the clients of the  *)
(* chains of balances, each alone: a behaviour chooses one, which runs     *)
(* (with the ledger, if it posts to it) while the others stay as they are. *)
(***************************************************************************)
EXTENDS Sessions, EmailCodes, OAuthGrants, PublicApi, Staking, Airdrop, RewardPrograms,
        Lend, EvmChain

VARIABLE running

vars == <<running, sessionVars, codeVars, oauthVars, apiVars, stakingVars, airdropVars, rewardVars,
          lendVars, evmVars>>

\* What each wallet has at first; no two services share one.
Amounts ==
    [merchant |-> 2, developer |-> 3, recipient |-> 0, staker |-> 6, stakeHouse |-> 2, user |-> 0,
     faucet |-> 1, rewards |-> 3, x1 |-> 1, x2 |-> 0, uA |-> 5, uB |-> 1, vA |-> 1, vB |-> 8, poolA |-> 0, poolB |-> 0]

MCWallets == DOMAIN Amounts
Opening == [w \in MCWallets |-> Amounts[w]]
MCTypes ==
    {"TRANSFER_OUT", "TRANSFER_IN", "STAKE_LOCK", "STAKE_UNLOCK", "STAKE_REWARD", "FAUCET", "ADJUSTMENT",
     "REWARD", "SWAP_OUT", "SWAP_IN",
     "LEND_SUPPLY", "LEND_WITHDRAW", "LEND_BORROW", "LEND_REPAY", "LIQUIDATION"}
MCRefs == {"k1", "k2", "a", "b", "q1", "q2", "p1", "p2", "u:A", "u:B", "v:A", "v:B"}

\* The public API: two requests with keys of their own, over two days, of which the
\* merchant's wallet pays for one.
MCIdemOf == [r1 |-> "k1", r2 |-> "k2"]
MCSendOf == [r1 |-> 2, r2 |-> 2]
MCRecipientOf == [r1 |-> "recipient", r2 |-> "recipient"]

\* Stakes of two days and of none.
MCPlans == {[days |-> 0, bps |-> 5000], [days |-> 2, bps |-> 10000]}

\* Two reward programs, one that ends while the worker runs.
MCEmission == [p1 |-> 2, p2 |-> 1]
MCStartAt == [p1 |-> 0, p2 |-> 1]
MCEndAt == [p1 |-> 1, p2 |-> 3]
MCWalletOf == [u1 |-> "x1", u2 |-> "x2"]
MCStaked == [u1 |-> 0, u2 |-> 1]

(***************************************************************************)
(* Lending: two users, each with a supply in one coin. One borrows, repays *)
(* and withdraws as the price of A moves; they ask to liquidate each other *)
(* the other way round.                                                    *)
(***************************************************************************)
Ask(op, user, coin, amount) ==
    [op |-> op, user |-> user, coin |-> coin, amount |-> amount, of |-> [user |-> "v", coin |-> "A"]]

Asks ==
    {Ask("supply", "u", "A", 4), Ask("supply", "v", "B", 5),
     Ask("borrow", "u", "B", 4), Ask("withdraw", "u", "A", 2), Ask("repay", "u", "B", 2),
     [op |-> "liquidate", user |-> "v", coin |-> "B", amount |-> 3, of |-> [user |-> "u", coin |-> "A"]],
     [op |-> "liquidate", user |-> "u", coin |-> "A", amount |-> 3, of |-> [user |-> "v", coin |-> "B"]]}

Rates ==
    [optimal |-> 5000, slope1 |-> 10000, slope2 |-> 20000, reserveFactor |-> 0,
     collateralFactor |-> 7500, threshold |-> 8000, bonus |-> 1000]

MCUserWallet == [u |-> [A |-> "uA", B |-> "uB"], v |-> [A |-> "vA", B |-> "vB"]]
MCPoolWallet == [A |-> "poolA", B |-> "poolB"]
MCPositionRef == [u |-> [A |-> "u:A", B |-> "u:B"], v |-> [A |-> "v:A", B |-> "v:B"]]
MCMarket == [A |-> Rates, B |-> Rates]
MCLendPrices == {[A |-> 3, B |-> 2], [A |-> 1, B |-> 2]}

(***************************************************************************)
(* Chains of balances: sends that run together, against two endpoints.     *)
(***************************************************************************)
MCBatches == {{"p1", "e1"}, {"c1"}, {"s1", "t1"}, {"t1"}, {"x1"}}
MCKind ==
    [p1 |-> "pol", p2 |-> "pol", e1 |-> "erc20", c1 |-> "call", s1 |-> "sweepPol", t1 |-> "sweepToken", x1 |-> "sol"]

-------------------------------------------------------------------------------
\* Their variables, but for the ledger.
apiRest == <<now, keyOn, stamp, nonces, call, verified, quota, sent, misjudged>>
stakingRest == <<stakes, day, conn>>
airdropRest == <<time, claim, season, deposits, toAward, logged, gaps, overlapped>>
rewardRest == <<clock, program, accrued, tick, brought>>
lendRest == <<reserves, positions, ticks, prices, lend, audit, slack, skewed, strained>>

\* They begin together; prices are chosen when lending runs, and the sends that run
\* together when the chains do.
Begins ==
    /\ SessionsInit /\ CodesInit /\ OAuthInit /\ ApiInit
    /\ StakingInit /\ AirdropInit /\ RewardInit
    /\ LendInit /\ EvmInit
    /\ running # "Lend" => prices["A"] = 3
    /\ running # "EvmChain" => batch = {"x1"}

Init ==
    /\ running \in {"Sessions", "EmailCodes", "OAuthGrants", "PublicApi", "Staking", "Airdrop", "RewardPrograms",
                   "Lend", "EvmChain"}
    /\ Begins

Next ==
    \/ running = "Sessions" /\ SessionsNext
       /\ UNCHANGED <<running, led, codeVars, oauthVars, apiRest, stakingRest, airdropRest, rewardRest, lendRest, evmVars>>
    \/ running = "EmailCodes" /\ CodesNext
       /\ UNCHANGED <<running, led, sessionVars, oauthVars, apiRest, stakingRest, airdropRest, rewardRest, lendRest, evmVars>>
    \/ running = "OAuthGrants" /\ OAuthNext
       /\ UNCHANGED <<running, led, sessionVars, codeVars, apiRest, stakingRest, airdropRest, rewardRest, lendRest, evmVars>>
    \/ running = "PublicApi" /\ ApiNext
       /\ UNCHANGED <<running, sessionVars, codeVars, oauthVars, stakingRest, airdropRest, rewardRest, lendRest, evmVars>>
    \/ running = "Staking" /\ StakingNext
       /\ UNCHANGED <<running, sessionVars, codeVars, oauthVars, apiRest, airdropRest, rewardRest, lendRest, evmVars>>
    \/ running = "Airdrop" /\ AirdropNext
       /\ UNCHANGED <<running, sessionVars, codeVars, oauthVars, apiRest, stakingRest, rewardRest, lendRest, evmVars>>
    \/ running = "RewardPrograms" /\ RewardNext
       /\ UNCHANGED <<running, sessionVars, codeVars, oauthVars, apiRest, stakingRest, airdropRest, lendRest, evmVars>>
    \/ running = "EvmChain" /\ EvmNext
       /\ UNCHANGED <<running, led, sessionVars, codeVars, oauthVars, apiRest, stakingRest, airdropRest, rewardRest, lendRest>>
    \/ running = "Lend" /\ LendNext
       /\ UNCHANGED <<running, sessionVars, codeVars, oauthVars, apiRest, stakingRest, airdropRest, rewardRest, evmVars>>

Spec == Init /\ [][Next]_vars

===============================================================================
