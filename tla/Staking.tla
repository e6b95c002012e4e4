------------------------------ MODULE Staking ------------------------------
(***************************************************************************)
(* Stakes (db/stake.rs): a principal is locked out of a wallet, and comes  *)
(* back with a reward out of the HOUSE wallet, or early and without.       *)
(*                                                                         *)
(* A claim or a cancellation locks the row of the stake, reads it, and     *)
(* settles; other requests for the stake may come in between.  Time is in  *)
(* days; a wallet on hold refuses the settlement like an empty HOUSE.      *)
(***************************************************************************)
EXTENDS Accounts

CONSTANTS Stakes,       \* rows, and references of the ledger
          Plans,        \* STAKE_PLANS: lock_days and reward_bps
          Principals,   \* amounts staked
          StakerWallet, HouseWallet, StakeBalance,
          StakeConns,   \* connections in the middle of a settlement
          Year,         \* the days of a year
          LastDay       \* the bound on time

ASSUME StakingAssumption ==
    /\ IsFiniteSet(Stakes) /\ Stakes \subseteq Refs
    /\ {"STAKE_LOCK", "STAKE_UNLOCK", "STAKE_REWARD"} \subseteq Types
    /\ {StakerWallet, HouseWallet} \subseteq Wallets /\ StakerWallet # HouseWallet
    /\ StakeBalance \in [Wallets -> Int]
    /\ Plans \subseteq [days : Nat, bps : Nat] /\ Principals \subseteq Nat
    /\ Year \in Nat \ {0} /\ LastDay \in Nat

VARIABLES stakes, day, conn

stakingVars == <<led, stakes, day, conn>>

NoStake == [status |-> "NONE"]
NoConn == [op |-> "none"]
Flexible(plan) == plan.days = 0

StakingInit ==
    /\ led = [balance |-> StakeBalance, hold |-> {}, keys |-> {}]
    /\ stakes = [st \in Stakes |-> NoStake]
    /\ day = 0
    /\ conn = [c \in StakeConns |-> NoConn]

-----------------------------------------------------------------------------
\* create_stake: the row and the entry commit together or not at all.
CreateStake(st, plan, amount) ==
    /\ stakes[st] = NoStake
    /\ Post(Entry(StakerWallet, -amount, "STAKE_LOCK", st))
    /\ stakes' = [stakes EXCEPT ![st] =
          [status |-> "ACTIVE", principal |-> amount, plan |-> plan,
           started |-> day, reward |-> 0, settled |-> day]]
    /\ UNCHANGED <<day, conn>>

Unlocked(st) == \A c \in StakeConns : conn[c] # NoConn => conn[c].stake # st

\* claim_stake and cancel_stake lock first and read then: a row that is not
\* ACTIVE ends the request.
LockStake(c, st, op) ==
    /\ conn[c] = NoConn /\ Unlocked(st)
    /\ stakes[st] # NoStake /\ stakes[st].status = "ACTIVE"
    /\ conn' = [conn EXCEPT ![c] = [op |-> op, stake |-> st]]
    /\ UNCHANGED <<led, stakes, day>>

\* calc_stake_reward
StakeReward(principal, bps, days) == (principal * bps * days) \div (10000 * Year)

\* Slip: a locked stake pays for the days it has run, at any time.
PaidAnyDay(s) == TRUE

Matured(s) == Flexible(s.plan) \/ s.started + s.plan.days <= day

RewardDue(s) == StakeReward(s.principal, s.plan.bps,
                            IF Flexible(s.plan) THEN day - s.started ELSE s.plan.days)

Unlock(st) == Entry(StakerWallet, stakes[st].principal, "STAKE_UNLOCK", st)

RewardEntries(st, reward) ==
    IF reward = 0 THEN <<>>
    ELSE <<Entry(HouseWallet, -reward, "STAKE_REWARD", st),
           Entry(StakerWallet, reward, "STAKE_REWARD", st)>>

Settled(st, status, reward) ==
    stakes' = [stakes EXCEPT ![st].status = status, ![st].reward = reward, ![st].settled = day]

ClaimStake(c) ==
    /\ conn[c].op = "claim"
    /\ LET st == conn[c].stake
           reward == RewardDue(stakes[st])
           es == <<Unlock(st)>> \o RewardEntries(st, reward)
       IN \/ /\ Matured(stakes[st])
             /\ PostEach(es)
             /\ Settled(st, "COMPLETED", reward)
          \/ /\ ~ Matured(stakes[st]) \/ ~ AdmitsEach(es)
             /\ UNCHANGED <<led, stakes>>
    /\ conn' = [conn EXCEPT ![c] = NoConn]
    /\ UNCHANGED day

CancelStake(c) ==
    /\ conn[c].op = "cancel"
    /\ LET st == conn[c].stake IN
          \/ Post(Unlock(st)) /\ Settled(st, "CANCELED", 0)
          \/ ~ Admits(led, Unlock(st)) /\ UNCHANGED <<led, stakes>>
    /\ conn' = [conn EXCEPT ![c] = NoConn]
    /\ UNCHANGED day

SettlementStops(c) ==
    /\ conn[c] # NoConn
    /\ conn' = [conn EXCEPT ![c] = NoConn]
    /\ UNCHANGED <<led, stakes, day>>

NextDay == day < LastDay /\ day' = day + 1 /\ UNCHANGED <<led, stakes, conn>>

StakingNext ==
    \/ \E st \in Stakes, p \in Plans, a \in Principals : CreateStake(st, p, a)
    \/ \E c \in StakeConns :
          \/ \E st \in Stakes, op \in {"claim", "cancel"} : LockStake(c, st, op)
          \/ ClaimStake(c) \/ CancelStake(c) \/ SettlementStops(c)
    \/ NextDay

StakingSpec == StakingInit /\ [][StakingNext]_stakingVars

-----------------------------------------------------------------------------
ActiveStakes == {st \in Stakes : stakes[st].status = "ACTIVE"}
Locked == SumFunctionOnSet([st \in ActiveStakes |-> stakes[st].principal], ActiveStakes)

StakeRows ==
    [status : {"ACTIVE", "COMPLETED", "CANCELED"}, principal : Principals, plan : Plans,
     started : 0..day, reward : Nat, settled : 0..day]

StakingTypeOK ==
    /\ led \in Ledgers /\ day \in 0..LastDay
    /\ stakes \in [Stakes -> {NoStake} \cup StakeRows]
    /\ conn \in [StakeConns -> {NoConn} \cup [op : {"claim", "cancel"}, stake : Stakes]]

\* A request that holds the row works on a stake that is ACTIVE, and on its
\* own (stake.rs:167-168): that, and not the unique index, is what settles a
\* stake once.
OneSettlement ==
    /\ \A c \in StakeConns : conn[c] # NoConn => conn[c].stake \in ActiveStakes
    /\ \A b, c \in StakeConns :
          b # c /\ conn[b] # NoConn /\ conn[c] # NoConn => conn[b].stake # conn[c].stake

\* "Principal returns from lock (not from HOUSE)" (stake.rs:219): what was
\* locked and the two wallets make up the same sum at any time, and a stake
\* is locked exactly as long as its principal has not come back.
PrincipalsKept ==
    /\ led.balance[StakerWallet] + led.balance[HouseWallet] + Locked
          = StakeBalance[StakerWallet] + StakeBalance[HouseWallet]
    /\ \A st \in Stakes :
          Recorded(StakerWallet, "STAKE_UNLOCK", st) <=> stakes[st].status \in {"COMPLETED", "CANCELED"}

\* A reward is paid for a stake that ran its time, once, for the days the
\* plan counts, and never for one that was canceled.
RewardsEarned ==
    \A st \in Stakes :
        Recorded(StakerWallet, "STAKE_REWARD", st) =>
            LET s == stakes[st] IN
            /\ s.status = "COMPLETED"
            /\ Flexible(s.plan) \/ s.settled - s.started >= s.plan.days
            /\ s.reward <= StakeReward(s.principal, s.plan.bps, s.settled - s.started)

StakingInv == StakingTypeOK /\ OneSettlement /\ PrincipalsKept /\ RewardsEarned

=============================================================================
