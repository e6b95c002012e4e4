---------------------------- MODULE HouseProofs ----------------------------
(***************************************************************************)
(* Proofs about what the house does with its own wallets, for any users,   *)
(* amounts, prices and requests: a stake is settled once, by the principal *)
(* and the reward it earned (Staking); the faucet keeps its cooldown and   *)
(* its inventory, and an activity is awarded once (Airdrop); a key         *)
(* converts once, at no less than the minimum asked for (HouseSwaps); a    *)
(* reward program pays once, within its rate (RewardPrograms); and what    *)
(* the pools lend is owed, and covered (Lend).                             *)
(***************************************************************************)
EXTENDS Staking, Airdrop, HouseSwaps, RewardPrograms, Lend, LedgerLemmas

-----------------------------------------------------------------------------
(***************************************************************************)
(* Staking.                                                                *)
(***************************************************************************)
-----------------------------------------------------------------------------
(***************************************************************************)
(* The principals of some stakes, and their sum.                           *)
(***************************************************************************)
SumStaked(s, A) == SumFunctionOnSet([st \in A |-> s[st].principal], A)

SamePrincipals(s, t, A) == \A y \in A : t[y].principal = s[y].principal /\ s[y].principal \in Int

\* One more stake is locked.
LEMMA SumStakedAdd ==
    ASSUME NEW s, NEW t, NEW A, IsFiniteSet(A), NEW x, x \notin A, NEW B, B = A \cup {x},
           t[x].principal \in Int, SamePrincipals(s, t, A)
    PROVE  SumStaked(t, B) = SumStaked(s, A) + t[x].principal /\ SumStaked(s, A) \in Int
<1> DEFINE f == [st \in A |-> s[st].principal]
           h == [st \in A \cup {x} |-> t[st].principal]
<1>1. Summands(f, A) /\ Summands(h, A \cup {x})
  BY FS_AddElement DEF Summands, SamePrincipals
<1>2. \A y \in A : f[y] = h[y]
  BY DEF SamePrincipals
<1>3. h[x] = t[x].principal
  OBVIOUS
<1>4. SumStaked(t, B) = SumFunctionOnSet(h, A \cup {x}) /\ SumStaked(s, A) = SumFunctionOnSet(f, A)
  BY Zenon DEF SumStaked
<1> HIDE DEF f, h
<1>5. SumFunctionOnSet(h, A \cup {x}) = h[x] + SumFunctionOnSet(h, A)
  BY <1>1, SumAdd
<1>6. SumFunctionOnSet(f, A) = SumFunctionOnSet(h, A)
  BY <1>1, <1>2, SumSame
<1>7. SumFunctionOnSet(f, A) \in Int
  BY <1>1, SumType
<1> QED BY <1>3, <1>4, <1>5, <1>6, <1>7

\* A stake is no longer locked.
LEMMA SumStakedRemove ==
    ASSUME NEW s, NEW t, NEW A, IsFiniteSet(A), NEW x \in A, SamePrincipals(s, t, A)
    PROVE  SumStaked(t, A \ {x}) = SumStaked(s, A) - s[x].principal
<1>1. PICK B : B = A \ {x}
  OBVIOUS
<1>2. IsFiniteSet(B)
  BY <1>1, FS_RemoveElement
<1>3. A = B \cup {x} /\ x \notin B
  BY <1>1
<1>4. s[x].principal \in Int /\ SamePrincipals(t, s, B)
  BY <1>1 DEF SamePrincipals
<1>5. SumStaked(s, A) = SumStaked(t, B) + s[x].principal /\ SumStaked(t, B) \in Int
  BY <1>2, <1>3, <1>4, SumStakedAdd
<1>6. SumStaked(t, B) = SumStaked(s, A) - s[x].principal
  BY <1>4, <1>5
<1> QED BY <1>1, <1>6, Zenon

\* The reward of a stake is a natural number, and no less for more days.
LEMMA StakeRewardGrows ==
    ASSUME StakingAssumption, NEW p \in Nat, NEW b \in Nat, NEW d \in Nat, NEW e \in Nat, d <= e
    PROVE  StakeReward(p, b, d) \in Nat /\ StakeReward(p, b, d) <= StakeReward(p, b, e)
<1>1. p * b \in Nat /\ (p * b) * d \in Nat /\ (p * b) * e \in Nat
  BY MulNat
<1>2. (p * b) * d <= (p * b) * e
  BY <1>1, MulMono
<1>3. 10000 * Year \in Nat \ {0}
  BY DEF StakingAssumption
<1> QED BY <1>1, <1>2, <1>3, DivNat, DivMono DEF StakeReward

-----------------------------------------------------------------------------
(***************************************************************************)
(* One lemma per action.                                                   *)
(***************************************************************************)
\* What the invariant says of a state in which nothing has begun.
LEMMA StakingStarts == ASSUME StakingAssumption, StakingInit PROVE StakingInv
<1>1. ActiveStakes = {}
  BY DEF StakingInit, ActiveStakes, NoStake
<1>2. Locked = 0
  BY <1>1, SumEmpty DEF Locked
<1>3. StakingTypeOK
  BY DEF StakingInit, StakingTypeOK, StakingAssumption, Ledgers, Keys
<1>4. OneSettlement
  BY DEF StakingInit, OneSettlement
<1>5. PrincipalsKept
  BY <1>2 DEF StakingInit, PrincipalsKept, StakingAssumption, Recorded, NoStake
<1>6. RewardsEarned
  BY DEF StakingInit, RewardsEarned, Recorded
<1> QED BY <1>3, <1>4, <1>5, <1>6 DEF StakingInv

\* An ACTIVE stake has the fields of a row.
LEMMA ActiveIsARow ==
    ASSUME StakingTypeOK, NEW st \in Stakes, stakes[st].status \in {"ACTIVE", "COMPLETED", "CANCELED"}
    PROVE  stakes[st] \in StakeRows
  BY DEF StakingTypeOK, NoStake

\* The fields of a row.
LEMMA RowFields ==
    ASSUME StakingAssumption, StakingTypeOK
    PROVE  \A r \in StakeRows :
              /\ r.principal \in Nat /\ r.plan \in [days : Nat, bps : Nat]
              /\ r.started \in Nat /\ r.started <= day /\ day \in Nat
<1>1. Principals \subseteq Nat /\ Plans \subseteq [days : Nat, bps : Nat]
  BY DEF StakingAssumption
<1>2. \A i \in 0..day : i \in Nat /\ i <= day /\ day \in Nat
  BY DEF StakingTypeOK, StakingAssumption
<1> QED BY <1>1, <1>2 DEF StakeRows

\* A new stake: its principal moves from the wallet into the lock.
LEMMA CreateKeepsInv ==
    ASSUME StakingAssumption, RefAssumption, StakingInv,
           NEW st \in Stakes, NEW p \in Plans, NEW a \in Principals, CreateStake(st, p, a)
    PROVE  StakingInv'
<1> DEFINE e == Entry(StakerWallet, -a, "STAKE_LOCK", st)
<1> USE DEF StakingInv
<1>1. /\ led \in Ledgers /\ e \in Entries /\ a \in Nat
      /\ e.wallet = StakerWallet /\ e.amount = -a /\ e.type = "STAKE_LOCK" /\ e.ref = st
  BY DEF StakingTypeOK, StakingAssumption, Entry, Entries
<1>2. led' = Posted(led, e) /\ UNCHANGED <<day, conn>>
  BY DEF CreateStake, Post
<1> HIDE DEF e
<1>3. /\ led' \in Ledgers
      /\ led'.balance[StakerWallet] = led.balance[StakerWallet] - a
      /\ led'.balance[HouseWallet] = led.balance[HouseWallet]
      /\ \A ty \in {"STAKE_UNLOCK", "STAKE_REWARD"}, s \in Stakes :
            Recorded(StakerWallet, ty, s)' <=> Recorded(StakerWallet, ty, s)
  <2>1. /\ Posted(led, e) \in Ledgers
        /\ Posted(led, e).balance[e.wallet] = led.balance[e.wallet] + e.amount
        /\ \A w \in Wallets \ {e.wallet} : Posted(led, e).balance[w] = led.balance[w]
        /\ \A w, ty, r : <<w, ty, r>> \in Posted(led, e).keys <=>
               \/ <<w, ty, r>> \in led.keys
               \/ w = e.wallet /\ ty = e.type /\ r = e.ref /\ r # NoRef
    BY <1>1, PostedChanges
  <2>2. led.balance[StakerWallet] \in Int
    BY <1>1 DEF Ledgers, StakingAssumption
  <2> QED BY <1>1, <1>2, <2>1, <2>2 DEF StakingAssumption, Recorded
<1>4. stakes[st] = NoStake /\ stakes[st].status = "NONE"
  BY DEF CreateStake, NoStake
<1> DEFINE row == [status |-> "ACTIVE", principal |-> a, plan |-> p,
                   started |-> day, reward |-> 0, settled |-> day]
<1>5. /\ stakes'[st] = row
      /\ \A s \in Stakes \ {st} : stakes'[s] = stakes[s]
  BY DEF CreateStake, StakingTypeOK
<1>6. ActiveStakes' = ActiveStakes \cup {st} /\ st \notin ActiveStakes
  BY <1>4, <1>5 DEF ActiveStakes
<1>7. StakingTypeOK'
  <2>1. day \in 0..LastDay /\ day' = day /\ row \in StakeRows
    BY <1>2 DEF StakingTypeOK, StakeRows
  <2>2. stakes' \in [Stakes -> {NoStake} \cup StakeRows]
    BY <2>1 DEF CreateStake, StakingTypeOK
  <2>3. StakeRows' = StakeRows
    BY <2>1 DEF StakeRows
  <2> QED BY <1>2, <1>3, <2>1, <2>2, <2>3 DEF StakingTypeOK
<1>8. OneSettlement'
  BY <1>2, <1>6 DEF OneSettlement
<1>9. PrincipalsKept'
  <2>1. IsFiniteSet(ActiveStakes)
    BY FS_Subset DEF ActiveStakes, StakingAssumption
  <2>2. SamePrincipals(stakes, stakes', ActiveStakes)
    <3>1. \A y \in ActiveStakes : stakes[y] \in StakeRows /\ y # st /\ y \in Stakes
      BY <1>6, ActiveIsARow DEF ActiveStakes
    <3>2. \A y \in ActiveStakes : stakes'[y] = stakes[y]
      BY <1>5, <3>1
    <3>3. \A r \in StakeRows : r.principal \in Int
      BY RowFields
    <3> QED BY <3>1, <3>2, <3>3 DEF SamePrincipals
  <2>3. stakes'[st].principal = a
    BY <1>5
  <2>4. SumStaked(stakes', ActiveStakes') = SumStaked(stakes, ActiveStakes) + a
        /\ SumStaked(stakes, ActiveStakes) \in Int
    BY <1>1, <1>6, <2>1, <2>2, <2>3, SumStakedAdd
  <2>5. Locked' = Locked + a /\ Locked \in Int
    BY <1>6, <2>4 DEF Locked, SumStaked
  <2>6. led.balance[StakerWallet] \in Int /\ led.balance[HouseWallet] \in Int
    BY <1>1 DEF Ledgers, StakingAssumption
  <2>7. led'.balance[StakerWallet] + led'.balance[HouseWallet] + Locked'
          = StakeBalance[StakerWallet] + StakeBalance[HouseWallet]
    BY <1>1, <1>3, <2>5, <2>6 DEF PrincipalsKept
  <2>8. \A s \in Stakes :
          Recorded(StakerWallet, "STAKE_UNLOCK", s)' <=> stakes'[s].status \in {"COMPLETED", "CANCELED"}
    BY <1>3, <1>4, <1>5 DEF PrincipalsKept
  <2> QED BY <2>7, <2>8 DEF PrincipalsKept
<1>10. RewardsEarned'
  <2>1. ASSUME NEW s \in Stakes, Recorded(StakerWallet, "STAKE_REWARD", s)' PROVE s # st
    BY <1>3, <1>4, <2>1 DEF RewardsEarned
  <2> QED BY <1>3, <1>5, <2>1 DEF RewardsEarned
<1> QED BY <1>7, <1>8, <1>9, <1>10

\* The row is locked by one connection.
LEMMA LockKeepsInv ==
    ASSUME StakingInv, NEW c \in StakeConns, NEW st \in Stakes, NEW op \in {"claim", "cancel"},
           LockStake(c, st, op)
    PROVE  StakingInv'
<1> USE DEF StakingInv
<1>1. /\ UNCHANGED <<led, stakes, day>> /\ Unlocked(st) /\ stakes[st].status = "ACTIVE"
      /\ conn' = [conn EXCEPT ![c] = [op |-> op, stake |-> st]]
  BY DEF LockStake
<1>2. /\ conn'[c] = [op |-> op, stake |-> st]
      /\ \A b \in StakeConns \ {c} : conn'[b] = conn[b]
  BY <1>1 DEF StakingTypeOK
<1>3. StakingTypeOK'
  BY <1>1 DEF StakingTypeOK, StakeRows
<1>4. OneSettlement'
  BY <1>1, <1>2 DEF OneSettlement, ActiveStakes, Unlocked
<1>5. PrincipalsKept' /\ RewardsEarned'
  BY <1>1 DEF PrincipalsKept, RewardsEarned, Locked, ActiveStakes, Recorded
<1> QED BY <1>3, <1>4, <1>5

\* What a claim or a cancellation does to the two wallets and to the keys when it
\* gives the stake st back: the principal comes from outside of both.
GivesBack(st, paid) ==
    /\ led' \in Ledgers
    /\ led'.balance[StakerWallet] + led'.balance[HouseWallet]
          = led.balance[StakerWallet] + led.balance[HouseWallet] + stakes[st].principal
    /\ \A s \in Stakes :
          /\ Recorded(StakerWallet, "STAKE_UNLOCK", s)'
                <=> Recorded(StakerWallet, "STAKE_UNLOCK", s) \/ s = st
          /\ Recorded(StakerWallet, "STAKE_REWARD", s)'
                => Recorded(StakerWallet, "STAKE_REWARD", s) \/ (s = st /\ paid)

\* The principal alone.
LEMMA UnlockGivesBack ==
    ASSUME StakingAssumption, RefAssumption, StakingTypeOK, NEW st \in ActiveStakes,
           led' = Posted(led, Unlock(st))
    PROVE  GivesBack(st, FALSE)
<1>1. stakes[st] \in StakeRows /\ st \in Stakes /\ stakes[st].principal \in Int
  BY ActiveIsARow, RowFields DEF ActiveStakes
<1> DEFINE e == Unlock(st)
<1>2. /\ led \in Ledgers /\ e \in Entries /\ stakes[st].principal \in Int
      /\ e.wallet = StakerWallet /\ e.amount = stakes[st].principal
      /\ e.type = "STAKE_UNLOCK" /\ e.ref = st
  BY <1>1 DEF StakingTypeOK, StakingAssumption, Unlock, Entry, Entries
<1>3. led' = Posted(led, e)
  OBVIOUS
<1> HIDE DEF e
<1>4. /\ led' \in Ledgers
      /\ led'.balance[e.wallet] = led.balance[e.wallet] + e.amount
      /\ \A w \in Wallets \ {e.wallet} : led'.balance[w] = led.balance[w]
      /\ \A w, ty, r : <<w, ty, r>> \in led'.keys <=>
             \/ <<w, ty, r>> \in led.keys
             \/ w = e.wallet /\ ty = e.type /\ r = e.ref /\ r # NoRef
  BY <1>2, <1>3, PostedChanges
<1>5. led.balance[StakerWallet] \in Int /\ led.balance[HouseWallet] \in Int
  BY <1>2 DEF Ledgers, StakingAssumption
<1>6. HouseWallet \in Wallets \ {e.wallet} /\ st # NoRef
  BY <1>1, <1>2 DEF StakingAssumption
<1> QED BY <1>2, <1>4, <1>5, <1>6 DEF GivesBack, Recorded

\* ... and with a reward: what the HOUSE pays, the staker gets.
LEMMA RewardGivesBack ==
    ASSUME StakingAssumption, RefAssumption, StakingTypeOK, NEW st \in ActiveStakes, NEW reward \in Nat,
           NEW debit, debit = Entry(HouseWallet, -reward, "STAKE_REWARD", st),
           NEW credit, credit = Entry(StakerWallet, reward, "STAKE_REWARD", st),
           led' = Posted(Posted(Posted(led, Unlock(st)), debit), credit)
    PROVE  GivesBack(st, TRUE)
<1>1. stakes[st] \in StakeRows /\ st \in Stakes /\ stakes[st].principal \in Int
  BY ActiveIsARow, RowFields DEF ActiveStakes
<1> DEFINE e == Unlock(st)
           l == Posted(led, e)
           m == Posted(l, debit)
<1>2. /\ led \in Ledgers /\ e \in Entries /\ stakes[st].principal \in Int
      /\ e.wallet = StakerWallet /\ e.amount = stakes[st].principal
      /\ e.type = "STAKE_UNLOCK" /\ e.ref = st
  BY <1>1 DEF StakingTypeOK, StakingAssumption, Unlock, Entry, Entries
<1>3. /\ debit \in Entries /\ debit.wallet = HouseWallet /\ debit.amount = -reward
      /\ debit.type = "STAKE_REWARD" /\ debit.ref = st
      /\ credit \in Entries /\ credit.wallet = StakerWallet /\ credit.amount = reward
      /\ credit.type = "STAKE_REWARD" /\ credit.ref = st
  BY <1>1 DEF StakingAssumption, Entry, Entries
<1> HIDE DEF e
<1>4. /\ l \in Ledgers
      /\ l.balance[e.wallet] = led.balance[e.wallet] + e.amount
      /\ \A w \in Wallets \ {e.wallet} : l.balance[w] = led.balance[w]
      /\ \A w, ty, r : <<w, ty, r>> \in l.keys <=>
             \/ <<w, ty, r>> \in led.keys
             \/ w = e.wallet /\ ty = e.type /\ r = e.ref /\ r # NoRef
  BY <1>2, PostedChanges
<1> HIDE DEF l
<1>5. /\ m \in Ledgers
      /\ m.balance[debit.wallet] = l.balance[debit.wallet] + debit.amount
      /\ \A w \in Wallets \ {debit.wallet} : m.balance[w] = l.balance[w]
      /\ \A w, ty, r : <<w, ty, r>> \in m.keys <=>
             \/ <<w, ty, r>> \in l.keys
             \/ w = debit.wallet /\ ty = debit.type /\ r = debit.ref /\ r # NoRef
  BY <1>3, <1>4, PostedChanges
<1>6. led' = Posted(m, credit)
  BY DEF e, l
<1> HIDE DEF m
<1>7. /\ led' \in Ledgers
      /\ led'.balance[credit.wallet] = m.balance[credit.wallet] + credit.amount
      /\ \A w \in Wallets \ {credit.wallet} : led'.balance[w] = m.balance[w]
      /\ \A w, ty, r : <<w, ty, r>> \in led'.keys <=>
             \/ <<w, ty, r>> \in m.keys
             \/ w = credit.wallet /\ ty = credit.type /\ r = credit.ref /\ r # NoRef
  BY <1>3, <1>5, <1>6, PostedChanges
<1>8. /\ led.balance[StakerWallet] \in Int /\ led.balance[HouseWallet] \in Int
      /\ StakerWallet \in Wallets \ {HouseWallet} /\ HouseWallet \in Wallets \ {StakerWallet}
      /\ st # NoRef
  BY <1>1, <1>2 DEF Ledgers, StakingAssumption
<1>9. /\ led'.balance[StakerWallet] = (led.balance[StakerWallet] + stakes[st].principal) + reward
      /\ led'.balance[HouseWallet] = led.balance[HouseWallet] - reward
  <2>1. l.balance[StakerWallet] = led.balance[StakerWallet] + stakes[st].principal
        /\ l.balance[HouseWallet] = led.balance[HouseWallet]
    BY <1>2, <1>4, <1>8
  <2>2. m.balance[StakerWallet] = l.balance[StakerWallet]
        /\ m.balance[HouseWallet] = l.balance[HouseWallet] - reward
    BY <1>3, <1>5, <1>8, <2>1
  <2> QED BY <1>3, <1>7, <1>8, <2>1, <2>2
<1>10. led'.balance[StakerWallet] + led'.balance[HouseWallet]
          = led.balance[StakerWallet] + led.balance[HouseWallet] + stakes[st].principal
  BY <1>2, <1>8, <1>9
<1>11. \A s \in Stakes :
          /\ Recorded(StakerWallet, "STAKE_UNLOCK", s)'
                <=> Recorded(StakerWallet, "STAKE_UNLOCK", s) \/ s = st
          /\ Recorded(StakerWallet, "STAKE_REWARD", s)'
                => Recorded(StakerWallet, "STAKE_REWARD", s) \/ s = st
  BY <1>2, <1>3, <1>4, <1>5, <1>7, <1>8 DEF Recorded
<1> QED BY <1>7, <1>10, <1>11 DEF GivesBack

\* A settlement: the stake is settled, and its connection is done.
LEMMA SettleKeepsInv ==
    ASSUME StakingAssumption, StakingInv, NEW c \in StakeConns, conn[c] # NoConn,
           NEW status \in {"COMPLETED", "CANCELED"}, NEW reward \in Nat,
           NEW st, st = conn[c].stake,
           status = "COMPLETED" => Matured(stakes[st]) /\ reward = RewardDue(stakes[st]),
           Settled(st, status, reward), GivesBack(st, status = "COMPLETED"),
           conn' = [conn EXCEPT ![c] = NoConn], day' = day
    PROVE  StakingInv'
<1> USE DEF StakingInv
<1>1. st \in ActiveStakes /\ st \in Stakes /\ stakes[st] \in StakeRows
  BY ActiveIsARow DEF OneSettlement, ActiveStakes
<1>2. /\ stakes'[st] = [stakes[st] EXCEPT !.status = status, !.reward = reward, !.settled = day]
      /\ \A s \in Stakes \ {st} : stakes'[s] = stakes[s]
      /\ stakes' \in [Stakes -> {NoStake} \cup StakeRows]
  <2>1. day \in 0..day
    BY DEF StakingTypeOK, StakingAssumption
  <2>2. [stakes[st] EXCEPT !.status = status, !.reward = reward, !.settled = day] \in StakeRows
    BY <1>1, <2>1 DEF StakeRows
  <2> QED BY <1>1, <2>2 DEF Settled, StakingTypeOK
<1>3. /\ conn'[c] = NoConn
      /\ \A b \in StakeConns \ {c} : conn'[b] = conn[b]
      /\ conn' \in [StakeConns -> {NoConn} \cup [op : {"claim", "cancel"}, stake : Stakes]]
  BY DEF StakingTypeOK
<1>4. /\ stakes'[st].status = status /\ stakes'[st].reward = reward /\ stakes'[st].settled = day
      /\ stakes'[st].principal = stakes[st].principal /\ stakes'[st].plan = stakes[st].plan
      /\ stakes'[st].started = stakes[st].started
  BY <1>1, <1>2 DEF StakeRows
<1>5. ActiveStakes' = ActiveStakes \ {st}
  <2>1. \A s \in Stakes : stakes'[s].status = "ACTIVE" <=> stakes[s].status = "ACTIVE" /\ s # st
    BY <1>2, <1>4
  <2> QED BY <2>1, Zenon DEF ActiveStakes
<1>6. StakingTypeOK'
  BY <1>2, <1>3 DEF StakingTypeOK, GivesBack, StakeRows
<1>7. OneSettlement'
  BY <1>3, <1>5 DEF OneSettlement
<1>8. PrincipalsKept'
  <2>1. SamePrincipals(stakes, stakes', ActiveStakes)
    <3>1. \A y \in ActiveStakes : stakes[y] \in StakeRows
      BY ActiveIsARow DEF ActiveStakes
    <3>2. \A y \in ActiveStakes : stakes'[y].principal = stakes[y].principal
      BY <1>2, <1>4 DEF ActiveStakes
    <3>3. \A r \in StakeRows : r.principal \in Int
      BY RowFields
    <3> QED BY <3>1, <3>2, <3>3 DEF SamePrincipals
  <2>2. IsFiniteSet(ActiveStakes)
    BY FS_Subset DEF ActiveStakes, StakingAssumption
  <2>3. SumStaked(stakes', ActiveStakes \ {st}) = SumStaked(stakes, ActiveStakes) - stakes[st].principal
    BY <1>1, <2>1, <2>2, SumStakedRemove
  <2>4. Locked' = Locked - stakes[st].principal /\ Locked \in Int
    <3>1. Locked' = SumStaked(stakes', ActiveStakes \ {st}) /\ Locked = SumStaked(stakes, ActiveStakes)
      BY <1>5, Zenon DEF Locked, SumStaked
    <3>2. Summands([s \in ActiveStakes |-> stakes[s].principal], ActiveStakes)
      BY <2>1, <2>2 DEF Summands, SamePrincipals
    <3>3. Locked \in Int
      BY <3>2, SumType DEF Locked
    <3> QED BY <2>3, <3>1, <3>3
  <2>5. stakes[st].principal \in Int /\ led.balance[StakerWallet] \in Int /\ led.balance[HouseWallet] \in Int
    BY <1>1, RowFields DEF StakingTypeOK, Ledgers, StakingAssumption
  <2>6. led'.balance[StakerWallet] + led'.balance[HouseWallet] + Locked'
          = StakeBalance[StakerWallet] + StakeBalance[HouseWallet]
    BY <2>4, <2>5 DEF PrincipalsKept, GivesBack
  <2>7. \A s \in Stakes :
          Recorded(StakerWallet, "STAKE_UNLOCK", s)' <=> stakes'[s].status \in {"COMPLETED", "CANCELED"}
    BY <1>2, <1>4 DEF PrincipalsKept, GivesBack
  <2> QED BY <2>6, <2>7 DEF PrincipalsKept
<1>9. RewardsEarned'
  <2>1. ASSUME NEW s \in Stakes \ {st}, Recorded(StakerWallet, "STAKE_REWARD", s)'
        PROVE  /\ stakes'[s].status = "COMPLETED"
               /\ Flexible(stakes'[s].plan) \/ stakes'[s].settled - stakes'[s].started >= stakes'[s].plan.days
               /\ stakes'[s].reward
                    <= StakeReward(stakes'[s].principal, stakes'[s].plan.bps, stakes'[s].settled - stakes'[s].started)
    BY <1>2, <2>1 DEF RewardsEarned, GivesBack
  <2>2. ASSUME Recorded(StakerWallet, "STAKE_REWARD", st)'
        PROVE  /\ stakes'[st].status = "COMPLETED"
               /\ Flexible(stakes'[st].plan) \/ stakes'[st].settled - stakes'[st].started >= stakes'[st].plan.days
               /\ stakes'[st].reward
                    <= StakeReward(stakes'[st].principal, stakes'[st].plan.bps,
                                   stakes'[st].settled - stakes'[st].started)
    <3>1. stakes[st].status = "ACTIVE" /\ ~ Recorded(StakerWallet, "STAKE_REWARD", st)
      BY <1>1 DEF ActiveStakes, RewardsEarned
    <3>2. status = "COMPLETED"
      BY <1>1, <2>2, <3>1 DEF GivesBack
    <3> DEFINE p == stakes[st].principal
               b == stakes[st].plan.bps
               d == stakes[st].plan.days
               ran == day - stakes[st].started
    <3>3. p \in Nat /\ b \in Nat /\ d \in Nat /\ ran \in Nat
      BY <1>1, RowFields
    <3>4. Flexible(stakes[st].plan) \/ d <= ran
      <4>1. stakes[st].started \in Nat /\ day \in Nat
        BY <1>1, RowFields
      <4> QED BY <3>2, <3>3, <4>1 DEF Matured
    <3>5. reward = StakeReward(p, b, IF Flexible(stakes[st].plan) THEN ran ELSE d)
      BY <3>2 DEF RewardDue
    <3>6. reward <= StakeReward(p, b, ran)
      <4> HIDE DEF p, b, d, ran
      <4>0. ran <= ran
        BY <3>3
      <4>1. CASE Flexible(stakes[st].plan)
        BY <4>0, <3>3, <3>5, <4>1, StakeRewardGrows
      <4>2. CASE ~ Flexible(stakes[st].plan)
        BY <3>3, <3>4, <3>5, <4>2, StakeRewardGrows
      <4> QED BY <4>1, <4>2
    <3> QED BY <1>4, <3>2, <3>3, <3>4, <3>6 DEF Flexible
  <2> QED BY <2>1, <2>2 DEF RewardsEarned
<1> QED BY <1>6, <1>7, <1>8, <1>9

\* A connection is done, and nothing is settled.
LEMMA DoneKeepsInv ==
    ASSUME StakingInv, NEW c \in StakeConns, UNCHANGED <<led, stakes, day>>,
           conn' = [conn EXCEPT ![c] = NoConn]
    PROVE  StakingInv'
<1> USE DEF StakingInv
<1>1. conn'[c] = NoConn /\ \A b \in StakeConns \ {c} : conn'[b] = conn[b]
  BY DEF StakingTypeOK
<1>2. StakingTypeOK'
  BY DEF StakingTypeOK, StakeRows
<1>3. OneSettlement'
  BY <1>1 DEF OneSettlement, ActiveStakes
<1>4. PrincipalsKept' /\ RewardsEarned'
  BY DEF PrincipalsKept, RewardsEarned, Locked, ActiveStakes, Recorded
<1> QED BY <1>2, <1>3, <1>4

\* A claim pays a stake that ran its time.
LEMMA ClaimKeepsInv ==
    ASSUME StakingAssumption, RefAssumption, StakingInv, NEW c \in StakeConns, ClaimStake(c)
    PROVE  StakingInv'
<1> DEFINE st == conn[c].stake
           reward == RewardDue(stakes[st])
           debit == Entry(HouseWallet, -reward, "STAKE_REWARD", st)
           credit == Entry(StakerWallet, reward, "STAKE_REWARD", st)
<1>1. conn[c] # NoConn /\ st \in ActiveStakes /\ st \in Stakes /\ StakingTypeOK
  BY DEF ClaimStake, StakingInv, OneSettlement, NoConn, ActiveStakes
<1>2. stakes[st] \in StakeRows
  BY <1>1, ActiveIsARow DEF ActiveStakes
<1>3. reward \in Nat
  <2> DEFINE days == IF Flexible(stakes[st].plan) THEN day - stakes[st].started ELSE stakes[st].plan.days
  <2>1. stakes[st].principal \in Nat /\ stakes[st].plan.bps \in Nat /\ days \in Nat
    BY <1>1, <1>2, RowFields
  <2>2. reward = StakeReward(stakes[st].principal, stakes[st].plan.bps, days)
    BY DEF RewardDue
  <2> HIDE DEF days, reward
  <2>3. days <= days
    BY <2>1
  <2> QED BY <2>1, <2>2, <2>3, StakeRewardGrows
<1>4. led \in Ledgers /\ Unlock(st) \in Entries /\ debit \in Entries /\ credit \in Entries
  BY <1>1, <1>2, <1>3, RowFields DEF StakingTypeOK, StakingAssumption, Unlock, Entry, Entries
<1>5. day' = day /\ conn' = [conn EXCEPT ![c] = NoConn]
  BY DEF ClaimStake
<1>6. CASE UNCHANGED <<led, stakes>>
  BY <1>5, <1>6, DoneKeepsInv
<1>7. CASE /\ Matured(stakes[st])
           /\ PostEach(<<Unlock(st)>> \o RewardEntries(st, reward))
           /\ Settled(st, "COMPLETED", reward)
  <2>1. CASE reward = 0
    <3>1. <<Unlock(st)>> \o RewardEntries(st, reward) = <<Unlock(st)>>
      BY <2>1, <1>4 DEF RewardEntries
    <3>2. led' = Posted(led, Unlock(st))
      BY <1>4, <1>7, <3>1, PostAllOne DEF PostEach
    <3>3. GivesBack(st, FALSE)
      BY <1>1, <3>2, UnlockGivesBack
    <3>4. GivesBack(st, "COMPLETED" = "COMPLETED")
      BY <3>3 DEF GivesBack
    <3> QED BY <1>1, <1>3, <1>5, <1>7, <3>4, SettleKeepsInv
  <2>2. CASE reward # 0
    <3>1. <<Unlock(st)>> \o RewardEntries(st, reward) = <<Unlock(st), debit, credit>>
      <4>1. RewardEntries(st, reward) = <<debit, credit>>
        BY <2>2, Zenon DEF RewardEntries
      <4> QED BY <1>4, <4>1, OneAndTwo, Zenon
    <3>2. led' = Posted(Posted(Posted(led, Unlock(st)), debit), credit)
      <4>1. PostEach(<<Unlock(st), debit, credit>>)
        BY <1>7, <3>1, Zenon
      <4> HIDE DEF st, debit, credit
      <4> QED BY <1>4, <4>1, PostAllThree DEF PostEach
    <3>3. GivesBack(st, TRUE)
      BY <1>1, <1>3, <3>2, RewardGivesBack
    <3>4. GivesBack(st, "COMPLETED" = "COMPLETED")
      BY <3>3 DEF GivesBack
    <3> QED BY <1>1, <1>3, <1>5, <1>7, <3>4, SettleKeepsInv
  <2> QED BY <2>1, <2>2
<1> QED BY <1>6, <1>7 DEF ClaimStake

\* A cancellation gives the principal back and nothing more.
LEMMA CancelKeepsInv ==
    ASSUME StakingAssumption, RefAssumption, StakingInv, NEW c \in StakeConns, CancelStake(c)
    PROVE  StakingInv'
<1> DEFINE st == conn[c].stake
<1>1. conn[c] # NoConn /\ st \in ActiveStakes /\ StakingTypeOK
  BY DEF CancelStake, StakingInv, OneSettlement, NoConn
<1>2. day' = day /\ conn' = [conn EXCEPT ![c] = NoConn]
  BY DEF CancelStake
<1>3. CASE UNCHANGED <<led, stakes>>
  BY <1>2, <1>3, DoneKeepsInv
<1>4. CASE Post(Unlock(st)) /\ Settled(st, "CANCELED", 0)
  <2>1. GivesBack(st, FALSE)
    BY <1>1, <1>4, UnlockGivesBack DEF Post
  <2>2. GivesBack(st, "CANCELED" = "COMPLETED")
    BY <2>1 DEF GivesBack
  <2> QED BY <1>1, <1>2, <1>4, <2>2, SettleKeepsInv
<1> QED BY <1>3, <1>4 DEF CancelStake

\* Time passes.
LEMMA NextDayKeepsInv == ASSUME StakingAssumption, StakingInv, NextDay PROVE StakingInv'
<1> USE DEF StakingInv
<1>1. UNCHANGED <<led, stakes, conn>> /\ day' = day + 1 /\ day' \in 0..LastDay
  BY DEF NextDay, StakingTypeOK, StakingAssumption
<1>2. 0..day \subseteq 0..day'
  BY <1>1 DEF StakingTypeOK, StakingAssumption
<1>3. StakeRows \subseteq StakeRows'
  BY <1>2 DEF StakeRows
<1>4. StakingTypeOK'
  BY <1>1, <1>3 DEF StakingTypeOK
<1>5. OneSettlement' /\ PrincipalsKept' /\ RewardsEarned'
  BY <1>1 DEF OneSettlement, PrincipalsKept, RewardsEarned, Locked, ActiveStakes, Recorded
<1> QED BY <1>4, <1>5

\* A stake is settled by one request, its principal comes back, and its reward was
\* earned (db/stake.rs), for any stakes, plans and connections.
THEOREM StakingInvariant == StakingSpec => []StakingInv
<1>1. StakingInit => StakingInv
  BY StakingAssumption, StakingStarts
<1>2. StakingInv /\ [StakingNext]_stakingVars => StakingInv'
  <2> SUFFICES ASSUME StakingInv, [StakingNext]_stakingVars PROVE StakingInv'
    OBVIOUS
  <2>1. ASSUME NEW st \in Stakes, NEW p \in Plans, NEW a \in Principals, CreateStake(st, p, a)
        PROVE  StakingInv'
    BY <2>1, StakingAssumption, RefAssumption, CreateKeepsInv
  <2>2. ASSUME NEW c \in StakeConns, NEW st \in Stakes, NEW op \in {"claim", "cancel"}, LockStake(c, st, op)
        PROVE  StakingInv'
    BY <2>2, LockKeepsInv
  <2>3. ASSUME NEW c \in StakeConns, ClaimStake(c) PROVE StakingInv'
    BY <2>3, StakingAssumption, RefAssumption, ClaimKeepsInv
  <2>4. ASSUME NEW c \in StakeConns, CancelStake(c) PROVE StakingInv'
    BY <2>4, StakingAssumption, RefAssumption, CancelKeepsInv
  <2>5. ASSUME NEW c \in StakeConns, SettlementStops(c) PROVE StakingInv'
    BY <2>5, DoneKeepsInv DEF SettlementStops
  <2>6. ASSUME NextDay PROVE StakingInv'
    BY <2>6, StakingAssumption, NextDayKeepsInv
  <2>7. CASE UNCHANGED stakingVars
    BY <2>7 DEF stakingVars, StakingInv, StakingTypeOK, StakeRows, OneSettlement, PrincipalsKept, RewardsEarned,
                Locked, ActiveStakes, Recorded
  <2> QED BY <2>1, <2>2, <2>3, <2>4, <2>5, <2>6, <2>7 DEF StakingNext
<1> QED BY <1>1, <1>2, PTL DEF StakingSpec

-----------------------------------------------------------------------------
(***************************************************************************)
(* Airdrop.                                                                *)
(***************************************************************************)
\* One claim at a time has its locks, and its cooldown was over when it got them.
ClaimsInTurn ==
    /\ \A c \in Claims : claim[c].began <= time
    /\ \A b, c \in Claims : claim[b].at = "checked" /\ claim[c].at = "checked" => b = c
    /\ \A b, c \in Claims : claim[b].at = "paid" /\ claim[c].at = "checked" =>
          claim[b].began + Cooldown <= claim[c].began

\* What was done of a kind, and what of it the watcher is about to award.
Activities(kind) == IF kind = "DEPOSIT_CONFIRMED" THEN deposits ELSE Cardinality(Paid)
InHand(kind) == IF kind = "DEPOSIT_CONFIRMED" THEN toAward ELSE 0

\* Unless listings overlapped, one boot at a time repairs a kind, and what is logged,
\* in hand and listed is no more than what was done.
PointsDue(kind) ==
    kind \notin overlapped =>
        /\ logged[kind] + InHand(kind) <= Activities(kind)
        /\ \A b \in Boots : gaps[b][kind] > 0 =>
              logged[kind] + InHand(kind) + gaps[b][kind] <= Activities(kind)
        /\ \A b, c \in Boots : gaps[b][kind] > 0 /\ gaps[c][kind] > 0 => b = c

\* The inductive invariant.
AirdropIInv ==
    /\ AirdropTypeOK /\ ClaimsInTurn /\ CooldownKept /\ PaidFromInventory
    /\ \A k \in Kinds : PointsDue(k)

-----------------------------------------------------------------------------
\* The claims paid are finitely many.
LEMMA PaidIsFinite ==
    ASSUME AirdropAssumption
    PROVE  IsFiniteSet(Paid) /\ Cardinality(Paid) \in Nat
  BY FS_Subset, FS_CardinalityType DEF Paid, AirdropAssumption

\* Those of a season are a number too.
LEMMA DoneIsCounted ==
    ASSUME AirdropAssumption
    PROVE  Cardinality({c \in Paid : claim[c].began > season.start}) \in Nat
<1>1. IsFiniteSet(Paid)
  BY PaidIsFinite
<1> QED BY <1>1, FS_Subset, FS_CardinalityType

\* No more was done than there were activities.
LEMMA DoneIsBounded ==
    ASSUME AirdropAssumption, AirdropTypeOK, NEW k \in Kinds
    PROVE  AllDone(k) \in Nat /\ AllDone(k) <= Activities(k) /\ Activities(k) \in Nat /\ InHand(k) \in Nat
<1>1. IsFiniteSet(Paid) /\ Cardinality(Paid) \in Nat
  BY PaidIsFinite
<1> DEFINE C == {c \in Paid : season.on /\ claim[c].began >= season.start}
<1>2. IsFiniteSet(C) /\ Cardinality(C) <= Cardinality(Paid) /\ Cardinality(C) \in Nat
  BY <1>1, FS_Subset, FS_CardinalityType
<1>3. deposits \in Nat /\ toAward \in Nat
  BY DEF AirdropTypeOK, AirdropAssumption
<1> QED BY <1>1, <1>2, <1>3 DEF AllDone, Activities, InHand

\* Before the first claim.
LEMMA AirdropStarts == ASSUME AirdropAssumption, AirdropInit PROVE AirdropIInv
<1>1. Paid = {} /\ Cardinality(Paid) = 0 /\ FaucetReward * 0 = 0
  <2>1. Paid = {}
    BY DEF AirdropInit, Paid
  <2>2. FaucetReward * 0 = 0
    BY DEF AirdropAssumption
  <2> QED BY <2>1, <2>2, FS_EmptySet
<1>2. AirdropTypeOK
  BY DEF AirdropInit, AirdropTypeOK, AirdropAssumption, Ledgers, Keys, NotListed
<1>3. ClaimsInTurn
  BY DEF AirdropInit, ClaimsInTurn
<1>4. CooldownKept
  BY <1>1 DEF CooldownKept
<1>5. PaidFromInventory
  BY <1>1 DEF AirdropInit, PaidFromInventory, AirdropAssumption
<1>6. \A k \in Kinds : PointsDue(k)
  BY <1>1 DEF AirdropInit, PointsDue, InHand, Activities, NotListed
<1> QED BY <1>2, <1>3, <1>4, <1>5, <1>6 DEF AirdropIInv


\* A claim begins.
LEMMA BeginKeepsInv ==
    ASSUME AirdropAssumption, AirdropIInv, NEW c \in Claims, BeginClaim(c)
    PROVE  AirdropIInv'
<1> USE DEF AirdropIInv
<1>1. /\ UNCHANGED <<led, time, season, deposits, toAward, logged, gaps, overlapped>>
      /\ claim[c].at = "new" /\ claim' = [claim EXCEPT ![c] = [at |-> "begun", began |-> time]]
      /\ time \in 0..LastTime
  BY DEF BeginClaim, AirdropTypeOK
<1>2. /\ claim'[c].at = "begun" /\ claim'[c].began = time
      /\ \A b \in Claims \ {c} : claim'[b] = claim[b]
  BY <1>1 DEF AirdropTypeOK
<1>3. Paid' = Paid /\ c \notin Paid
  BY <1>1, <1>2 DEF Paid
<1>4. AirdropTypeOK'
  BY <1>1 DEF AirdropTypeOK
<1>5. ClaimsInTurn'
  BY <1>1, <1>2 DEF ClaimsInTurn, AirdropTypeOK
<1>6. CooldownKept'
  BY <1>2, <1>3 DEF CooldownKept, Paid
<1>7. PaidFromInventory'
  <2>1. {b \in Paid : claim[b].began > season.start}' = {b \in Paid : claim[b].began > season.start}
    BY <1>1, <1>2, <1>3 DEF Paid
  <2> QED BY <1>1, <1>3, <2>1 DEF PaidFromInventory
<1>8. \A k \in Kinds : PointsDue(k)'
  BY <1>1, <1>3 DEF PointsDue, Activities, InHand
<1> QED BY <1>4, <1>5, <1>6, <1>7, <1>8

\* A claim gets its locks, and sees the last one.
LEMMA CheckKeepsInv ==
    ASSUME AirdropAssumption, AirdropIInv, NEW c \in Claims, LockAndCheck(c)
    PROVE  AirdropIInv'
<1> USE DEF AirdropIInv
<1>1. /\ UNCHANGED <<led, time, season, deposits, toAward, logged, gaps, overlapped>>
      /\ claim[c].at = "begun" /\ \A b \in Claims : claim[b].at # "checked"
      /\ claim' = [claim EXCEPT ![c].at = IF LastClaim + Cooldown > claim[c].began THEN "refused" ELSE "checked"]
  BY DEF LockAndCheck, LocksFree, Reaches
<1>2. /\ claim'[c].at \in {"refused", "checked"}
      /\ claim'[c].at = "checked" => ~ (LastClaim + Cooldown > claim[c].began)
      /\ claim'[c].began = claim[c].began
      /\ \A b \in Claims \ {c} : claim'[b] = claim[b]
  BY <1>1 DEF AirdropTypeOK
<1>3. Paid' = Paid /\ c \notin Paid
  BY <1>1, <1>2 DEF Paid
<1>4. AirdropTypeOK'
  BY <1>1 DEF AirdropTypeOK
<1>5. ClaimsInTurn'
  <2>1. ASSUME NEW b \in Paid, claim'[c].at = "checked"
        PROVE  claim[b].began + Cooldown <= claim[c].began
    <3> DEFINE times == {claim[d].began : d \in Paid}
    <3>1. \A d \in Claims : claim[d].began \in Nat
      BY DEF AirdropTypeOK, AirdropAssumption
    <3>2. times \in SUBSET Nat /\ times # {} /\ claim[b].began \in times
      BY <2>1, <3>1 DEF Paid
    <3>3. IsFiniteSet(times)
      <4>1. times \in SUBSET (0..LastTime) /\ LastTime \in Int /\ 0 \in Int
        BY DEF Paid, AirdropTypeOK, AirdropAssumption
      <4>2. IsFiniteSet(0..LastTime)
        BY <4>1, FS_Interval
      <4> HIDE DEF times
      <4> QED BY <4>1, <4>2, FS_Subset
    <3>4. LastClaim = Max(times)
      BY <2>1 DEF LastClaim
    <3> HIDE DEF times
    <3>5. Max(times) \in times /\ claim[b].began <= Max(times)
      BY <3>2, <3>3, MaxOfFinite
    <3>6. Max(times) \in Nat /\ claim[b].began \in Nat /\ claim[c].began \in Nat /\ Cooldown \in Nat
      BY <2>1, <3>1, <3>2, <3>5 DEF Paid, AirdropAssumption
    <3> QED BY <1>2, <2>1, <3>4, <3>5, <3>6
  <2> QED BY <1>1, <1>2, <1>3, <2>1 DEF ClaimsInTurn, Paid
<1>6. CooldownKept'
  BY <1>2, <1>3 DEF CooldownKept, Paid
<1>7. PaidFromInventory'
  <2>1. {b \in Paid : claim[b].began > season.start}' = {b \in Paid : claim[b].began > season.start}
    BY <1>1, <1>2, <1>3 DEF Paid
  <2> QED BY <1>1, <1>3, <2>1 DEF PaidFromInventory
<1>8. \A k \in Kinds : PointsDue(k)'
  BY <1>1, <1>3 DEF PointsDue, Activities, InHand
<1> QED BY <1>4, <1>5, <1>6, <1>7, <1>8

\* A claim is paid, with its points, or refused by the inventory.
LEMMA PayKeepsInv ==
    ASSUME AirdropAssumption, RefAssumption, AirdropIInv, NEW c \in Claims, PayClaim(c)
    PROVE  AirdropIInv'
<1> USE DEF AirdropIInv
<1>1. /\ UNCHANGED <<time, season, deposits, toAward, gaps, overlapped>> /\ claim[c].at = "checked"
      /\ c \in Refs /\ led \in Ledgers /\ {ClaimantWallet, FaucetWallet} \subseteq Wallets
  BY DEF PayClaim, AirdropAssumption, AirdropTypeOK
<1>2. c \notin Paid
  BY <1>1 DEF Paid
<1>3. CASE ~ AdmitsEach(Payout(c)) /\ Reaches(c, "refused") /\ UNCHANGED <<led, logged>>
  <2>1. claim' = [claim EXCEPT ![c].at = "refused"]
    BY <1>3 DEF Reaches
  <2>2. /\ claim'[c].at = "refused" /\ claim'[c].began = claim[c].began
        /\ \A b \in Claims \ {c} : claim'[b] = claim[b]
    BY <2>1 DEF AirdropTypeOK
  <2>3. Paid' = Paid
    BY <1>2, <2>2 DEF Paid
  <2>4. AirdropTypeOK'
    BY <1>1, <1>3, <2>1 DEF AirdropTypeOK
  <2>5. ClaimsInTurn'
    BY <1>1, <2>2 DEF ClaimsInTurn
  <2>6. CooldownKept'
    BY <2>2, <2>3 DEF CooldownKept, Paid
  <2>7. PaidFromInventory'
    <3>1. {b \in Paid : claim[b].began > season.start}' = {b \in Paid : claim[b].began > season.start}
      BY <1>1, <2>2, <2>3 DEF Paid
    <3> QED BY <1>1, <1>3, <2>3, <3>1 DEF PaidFromInventory
  <2>8. \A k \in Kinds : PointsDue(k)'
    BY <1>1, <1>3, <2>3 DEF PointsDue, Activities, InHand
  <2> QED BY <2>4, <2>5, <2>6, <2>7, <2>8
<1>4. CASE PostEach(Payout(c)) /\ Reaches(c, "paid") /\ Awarded("FAUCET_CLAIM")
  <2>1. claim' = [claim EXCEPT ![c].at = "paid"]
    BY <1>4 DEF Reaches
  <2>2. /\ claim'[c].at = "paid" /\ claim'[c].began = claim[c].began
        /\ \A b \in Claims \ {c} : claim'[b] = claim[b]
        /\ \A b \in Claims : claim[b].began \in Nat
    BY <2>1 DEF AirdropTypeOK
  <2>3. Paid' = Paid \cup {c}
    BY <2>2 DEF Paid
  <2>4. Cardinality(Paid') = Cardinality(Paid) + 1 /\ Cardinality(Paid) \in Nat /\ IsFiniteSet(Paid)
    BY <1>2, <2>3, PaidIsFinite, FS_AddElement
  <2>5. /\ logged' \in [Kinds -> Nat]
        /\ logged'["DEPOSIT_CONFIRMED"] = logged["DEPOSIT_CONFIRMED"]
        /\ logged'["FAUCET_CLAIM"] = IF season.on THEN logged["FAUCET_CLAIM"] + 1 ELSE logged["FAUCET_CLAIM"]
        /\ logged["FAUCET_CLAIM"] \in Nat
    BY <1>4 DEF Awarded, AirdropTypeOK, Kinds
  <2>6. PICK a, b : a = Entry(FaucetWallet, -FaucetReward, "FAUCET", c)
                    /\ b = Entry(ClaimantWallet, FaucetReward, "FAUCET", c)
    OBVIOUS
  <2>7. a \in Entries /\ b \in Entries
    BY <1>1, <2>6 DEF Entry, Entries, AirdropAssumption
  <2>8. PostAll(led, <<a, b>>).ok /\ led' = PostAll(led, <<a, b>>).ledger
    BY <1>4, <2>6, Zenon DEF PostEach, Payout
  <2>9. led' = Posted(Posted(led, a), b) /\ Admits(led, a)
    BY <1>1, <2>7, <2>8, PostAllTwo
  <2>10. /\ led' \in Ledgers
         /\ \A w \in Wallets : /\ led'.balance[w] = led.balance[w] + Effect(a, w) + Effect(b, w)
                               /\ led.balance[w] \in Int
    <3>1. /\ Posted(Posted(led, a), b) \in Ledgers
          /\ \A w \in Wallets :
                /\ Posted(Posted(led, a), b).balance[w] = led.balance[w] + Effect(a, w) + Effect(b, w)
                /\ led.balance[w] \in Int
      BY <1>1, <2>7, TransferBalances
    <3> QED BY <2>9, <3>1
  <2>11. /\ \A w \in Wallets : Effect(a, w) = IF w = FaucetWallet THEN -FaucetReward ELSE 0
         /\ \A w \in Wallets : Effect(b, w) = IF w = ClaimantWallet THEN FaucetReward ELSE 0
         /\ Covers(led, a) /\ a.wallet = FaucetWallet /\ a.amount = -FaucetReward
    BY <2>6, <2>9 DEF Effect, Entry, Admits
  <2>12. /\ led'.balance[FaucetWallet] = led.balance[FaucetWallet] - FaucetReward
         /\ led'.balance[ClaimantWallet] = led.balance[ClaimantWallet] + FaucetReward
         /\ FaucetReward \in Nat /\ led.balance[FaucetWallet] \in Int /\ led.balance[ClaimantWallet] \in Int
    BY <1>1, <2>10, <2>11 DEF AirdropAssumption
  <2>13. AirdropTypeOK'
    BY <1>1, <2>1, <2>5, <2>10 DEF AirdropTypeOK
  <2>14. ClaimsInTurn'
    BY <1>1, <2>2 DEF ClaimsInTurn
  <2>15. CooldownKept'
    <3>1. ASSUME NEW b2 \in Paid PROVE b2 # c /\ b2 \in Claims /\ claim[b2].at = "paid"
      BY <1>2, <3>1 DEF Paid
    <3>2. ASSUME NEW b2 \in Paid PROVE claim[b2].began + Cooldown <= claim[c].began
      BY <1>1, <3>1, <3>2 DEF ClaimsInTurn
    <3>3. Cooldown \in Nat
      BY DEF AirdropAssumption
    <3> QED BY <2>2, <2>3, <3>1, <3>2, <3>3 DEF CooldownKept
  <2>16. PaidFromInventory'
    <3>1. led'.balance[FaucetWallet] >= 0
      BY <2>11, <2>12 DEF Covers, PaidFromInventory
    <3>2. FaucetReward * (Cardinality(Paid) + 1) = FaucetReward * Cardinality(Paid) + FaucetReward
      BY <2>4, <2>12
    <3>3. led'.balance[ClaimantWallet] = FaucetBalance[ClaimantWallet] + FaucetReward * Cardinality(Paid')
      <4>1. FaucetBalance[ClaimantWallet] \in Int /\ FaucetReward * Cardinality(Paid) \in Int
        BY <1>1, <2>4, <2>12 DEF AirdropAssumption
      <4> QED BY <2>4, <2>12, <3>2, <4>1 DEF PaidFromInventory
    <3>4. ASSUME season.on
          PROVE  logged'["FAUCET_CLAIM"] >= Cardinality({b2 \in Paid' : claim'[b2].began > season.start})
      <4> DEFINE C == {b2 \in Paid : claim[b2].began > season.start}
                 D == {b2 \in Paid' : claim'[b2].began > season.start}
      <4>1. D = C \/ (D = C \cup {c} /\ c \notin C)
        BY <1>2, <2>2, <2>3 DEF Paid
      <4>2. IsFiniteSet(C) /\ Cardinality(C) \in Nat
        BY <2>4, FS_Subset, FS_CardinalityType
      <4>3. Cardinality(D) <= Cardinality(C) + 1
        <5> HIDE DEF C, D
        <5>1. CASE D = C
          BY <4>2, <5>1
        <5>2. CASE D = C \cup {c} /\ c \notin C
          <6>1. Cardinality(C \cup {c}) = Cardinality(C) + 1
            BY <4>2, <5>2, FS_AddElement
          <6> QED BY <4>2, <5>2, <6>1
        <5> QED BY <4>1, <5>1, <5>2
      <4>4. logged["FAUCET_CLAIM"] >= Cardinality(C)
        BY <3>4 DEF PaidFromInventory
      <4>5. Cardinality(D) \in Nat
        BY <4>1, <4>2, FS_AddElement, FS_CardinalityType
      <4> HIDE DEF C, D
      <4>6. logged'["FAUCET_CLAIM"] >= Cardinality(D)
        BY <2>5, <3>4, <4>2, <4>3, <4>4, <4>5
      <4> QED BY <4>6, Zenon DEF D
    <3>5. season' = season
      BY <1>1
    <3> QED BY <3>1, <3>3, <3>4, <3>5, Zenon DEF PaidFromInventory
  <2>17. ASSUME NEW k \in Kinds PROVE PointsDue(k)'
    <3>1. gaps \in [Boots -> [Kinds -> Nat \cup {NotListed}]]
      BY DEF AirdropTypeOK
    <3>2. \A b2 \in Boots : gaps[b2][k] \in Int
      BY <3>1 DEF NotListed
    <3>3. PointsDue(k)
      OBVIOUS
    <3>4. CASE k = "DEPOSIT_CONFIRMED"
      BY <1>1, <2>5, <3>3, <3>4 DEF PointsDue, Activities, InHand
    <3>5. CASE k = "FAUCET_CLAIM"
      BY <1>1, <2>4, <2>5, <3>2, <3>3, <3>5 DEF PointsDue, Activities, InHand
    <3> QED BY <3>4, <3>5 DEF Kinds
  <2> QED BY <2>13, <2>14, <2>15, <2>16, <2>17
<1> QED BY <1>3, <1>4 DEF PayClaim

\* A boot fills an empty inventory.
LEMMA FloorKeepsInv ==
    ASSUME AirdropAssumption, RefAssumption, AirdropIInv, EnsureFaucetFloor
    PROVE  AirdropIInv'
<1> USE DEF AirdropIInv
<1>1. /\ UNCHANGED <<time, claim, season, deposits, toAward, logged, gaps, overlapped>>
      /\ led \in Ledgers /\ {ClaimantWallet, FaucetWallet} \subseteq Wallets
  BY DEF EnsureFaucetFloor, AirdropAssumption, AirdropTypeOK
<1>2. PICK e : e = Entry(FaucetWallet, FaucetFloor, "ADJUSTMENT", NoRef)
  OBVIOUS
<1>3. e \in Entries /\ e.wallet = FaucetWallet /\ e.amount = FaucetFloor
  BY <1>1, <1>2 DEF Entry, Entries, AirdropAssumption
<1>4. led' = Posted(led, e)
  BY <1>2 DEF EnsureFaucetFloor, Post
<1>5. /\ led' \in Ledgers
      /\ led'.balance[FaucetWallet] = led.balance[FaucetWallet] + FaucetFloor
      /\ led'.balance[ClaimantWallet] = led.balance[ClaimantWallet]
  <2>1. /\ Posted(led, e) \in Ledgers
        /\ Posted(led, e).balance[e.wallet] = led.balance[e.wallet] + e.amount
        /\ \A w \in Wallets \ {e.wallet} : Posted(led, e).balance[w] = led.balance[w]
    BY <1>1, <1>3, PostedChanges
  <2> QED BY <1>1, <1>3, <1>4, <2>1 DEF AirdropAssumption
<1>6. FaucetFloor \in Nat /\ led.balance[FaucetWallet] \in Int
  BY <1>1 DEF Ledgers, AirdropAssumption
<1>7. Paid' = Paid
  BY <1>1 DEF Paid
<1>8. AirdropTypeOK'
  BY <1>1, <1>5 DEF AirdropTypeOK
<1>9. ClaimsInTurn' /\ CooldownKept'
  BY <1>1, <1>7 DEF ClaimsInTurn, CooldownKept
<1>10. PaidFromInventory'
  <2>1. {c \in Paid : claim[c].began > season.start}' = {c \in Paid : claim[c].began > season.start}
    BY <1>1, <1>7
  <2>2. led'.balance[FaucetWallet] >= 0
    BY <1>5, <1>6 DEF PaidFromInventory
  <2>3. /\ led.balance[ClaimantWallet] = FaucetBalance[ClaimantWallet] + FaucetReward * Cardinality(Paid)
        /\ season.on => logged["FAUCET_CLAIM"] >= Cardinality({c \in Paid : claim[c].began > season.start})
    BY DEF PaidFromInventory
  <2>4. led'.balance[ClaimantWallet] = FaucetBalance[ClaimantWallet] + FaucetReward * Cardinality(Paid')
    BY <1>5, <1>7, <2>3
  <2>5. season' = season /\ logged' = logged
    BY <1>1
  <2>6. season'.on => logged'["FAUCET_CLAIM"] >= Cardinality({c \in Paid : claim[c].began > season.start}')
    BY <2>1, <2>3, <2>5, Zenon
  <2>7. season'.on => logged'["FAUCET_CLAIM"] >= Cardinality({c \in Paid' : claim'[c].began > season'.start})
    BY <2>6
  <2> QED BY <2>2, <2>4, <2>7, Zenon DEF PaidFromInventory
<1>11. \A k \in Kinds : PointsDue(k)'
  BY <1>1, <1>7 DEF PointsDue, Activities, InHand
<1> QED BY <1>8, <1>9, <1>10, <1>11

\* A step that touches neither claims nor money, and gives points that were due.
LEMMA PointsStepKeepsInv ==
    ASSUME AirdropAssumption, AirdropIInv, UNCHANGED <<led, time, claim, season>>, AirdropTypeOK',
           logged'["FAUCET_CLAIM"] >= logged["FAUCET_CLAIM"],
           \A k \in Kinds : PointsDue(k)'
    PROVE  AirdropIInv'
<1> USE DEF AirdropIInv
<1>1. Paid' = Paid
  BY DEF Paid
<1>2. ClaimsInTurn' /\ CooldownKept'
  BY <1>1 DEF ClaimsInTurn, CooldownKept
<1>3. PaidFromInventory'
  <2>1. {c \in Paid : claim[c].began > season.start}' = {c \in Paid : claim[c].began > season.start}
    BY <1>1
  <2>2. logged["FAUCET_CLAIM"] \in Nat /\ logged'["FAUCET_CLAIM"] \in Nat
    BY DEF AirdropTypeOK, Kinds
  <2>3. PICK n : n = Cardinality({c \in Paid : claim[c].began > season.start})
    OBVIOUS
  <2>4. season.on => logged["FAUCET_CLAIM"] >= n
    BY <2>3, Zenon DEF AirdropIInv, PaidFromInventory
  <2>5. n \in Nat
    BY <2>3, DoneIsCounted
  <2>6. season'.on => logged'["FAUCET_CLAIM"] >= n
    BY <2>2, <2>4, <2>5
  <2>7. season'.on => logged'["FAUCET_CLAIM"] >= Cardinality({c \in Paid : claim[c].began > season.start}')
    BY <2>1, <2>3, <2>6, Zenon
  <2>8. season'.on => logged'["FAUCET_CLAIM"] >= Cardinality({c \in Paid' : claim'[c].began > season'.start})
    BY <2>7
  <2>9. /\ led'.balance[FaucetWallet] >= 0
        /\ led'.balance[ClaimantWallet] = FaucetBalance[ClaimantWallet] + FaucetReward * Cardinality(Paid')
    BY <1>1 DEF PaidFromInventory
  <2> QED BY <2>8, <2>9, Zenon DEF PaidFromInventory
<1> QED BY <1>2, <1>3

\* The numbers of points, of repairs and of what was done.
LEMMA PointNumbers ==
    ASSUME AirdropAssumption, AirdropTypeOK
    PROVE  /\ deposits \in Nat /\ toAward \in Nat /\ toAward <= deposits
           /\ \A k \in Kinds : logged[k] \in Nat /\ Activities(k) \in Nat
           /\ \A b \in Boots, k \in Kinds : gaps[b][k] \in Int
<1>1. deposits \in Nat /\ toAward \in Nat /\ toAward <= deposits
  BY DEF AirdropTypeOK, AirdropAssumption
<1>2. \A k \in Kinds : logged[k] \in Nat /\ Activities(k) \in Nat
  BY DoneIsBounded DEF AirdropTypeOK
<1>3. \A b \in Boots, k \in Kinds : gaps[b][k] \in Nat \cup {NotListed}
  BY DEF AirdropTypeOK
<1> QED BY <1>1, <1>2, <1>3 DEF NotListed

\* Deposits are credited, awarded by the watcher, or forgotten by it.
LEMMA DepositsKeepInv ==
    ASSUME AirdropAssumption, AirdropIInv, CreditDeposit \/ AwardDeposit \/ AwardLost
    PROVE  AirdropIInv'
<1> USE DEF AirdropIInv
<1>1. UNCHANGED <<led, time, claim, season, gaps, overlapped>>
  BY DEF CreditDeposit, AwardDeposit, AwardLost
<1>2. /\ deposits \in Nat /\ toAward \in Nat /\ toAward <= deposits
      /\ \A k \in Kinds : logged[k] \in Nat /\ Activities(k) \in Nat
      /\ \A b \in Boots, k \in Kinds : gaps[b][k] \in Int
  BY PointNumbers
<1>3. Paid' = Paid
  BY <1>1 DEF Paid
<1>4. "DEPOSIT_CONFIRMED" \in Kinds /\ "FAUCET_CLAIM" \in Kinds
  BY DEF Kinds
<1>5. /\ logged' \in [Kinds -> Nat] /\ logged'["FAUCET_CLAIM"] = logged["FAUCET_CLAIM"]
      /\ logged'["DEPOSIT_CONFIRMED"] \in Nat
      /\ \/ /\ deposits' = deposits + 1 /\ toAward' = toAward + 1 /\ deposits < MaxDeposits
            /\ logged'["DEPOSIT_CONFIRMED"] = logged["DEPOSIT_CONFIRMED"]
         \/ /\ deposits' = deposits /\ toAward > 0 /\ toAward' = toAward - 1
            /\ \/ logged'["DEPOSIT_CONFIRMED"] = logged["DEPOSIT_CONFIRMED"]
               \/ logged'["DEPOSIT_CONFIRMED"] = logged["DEPOSIT_CONFIRMED"] + 1
  <2> logged \in [Kinds -> Nat]
    BY DEF AirdropTypeOK
  <2>1. CASE CreditDeposit
    BY <1>4, <2>1 DEF CreditDeposit
  <2>2. CASE AwardDeposit
    BY <1>4, <2>2 DEF AwardDeposit, Awarded
  <2>3. CASE AwardLost
    BY <1>4, <2>3 DEF AwardLost
  <2> QED BY <2>1, <2>2, <2>3
<1>6. AirdropTypeOK'
  BY <1>1, <1>2, <1>5 DEF AirdropTypeOK, AirdropAssumption
<1>7. PointsDue("DEPOSIT_CONFIRMED")'
  BY <1>1, <1>2, <1>4, <1>5 DEF PointsDue, Activities, InHand
<1>8. PointsDue("FAUCET_CLAIM")'
  BY <1>1, <1>3, <1>4, <1>5 DEF PointsDue, Activities, InHand
<1>9. logged'["FAUCET_CLAIM"] >= logged["FAUCET_CLAIM"]
  BY <1>2, <1>4, <1>5
<1> QED BY <1>1, <1>6, <1>7, <1>8, <1>9, PointsStepKeepsInv DEF Kinds

\* A boot lists what is missing.
LEMMA ListKeepsInv ==
    ASSUME AirdropAssumption, AirdropIInv, NEW b \in Boots, NEW kind \in Kinds, ListGaps(b, kind)
    PROVE  AirdropIInv'
<1> USE DEF AirdropIInv
<1>1. /\ UNCHANGED <<led, time, claim, season, deposits, toAward, logged>>
      /\ gaps[b][kind] = NotListed /\ gaps' = [gaps EXCEPT ![b][kind] = Missing(kind)]
      /\ overlapped' = IF BeingAwarded(kind, b) THEN overlapped \cup {kind} ELSE overlapped
  BY DEF ListGaps
<1>2. /\ deposits \in Nat /\ toAward \in Nat /\ toAward <= deposits
      /\ \A k \in Kinds : logged[k] \in Nat /\ Activities(k) \in Nat
      /\ \A a \in Boots, k \in Kinds : gaps[a][k] \in Int
  BY PointNumbers
<1>3. AllDone(kind) \in Nat /\ AllDone(kind) <= Activities(kind)
  BY DoneIsBounded
<1>4. /\ Missing(kind) \in Nat
      /\ Missing(kind) > 0 => logged[kind] + Missing(kind) <= Activities(kind)
  BY <1>2, <1>3 DEF Missing
<1>5. /\ gaps' \in [Boots -> [Kinds -> Nat \cup {NotListed}]]
      /\ gaps'[b][kind] = Missing(kind)
      /\ \A a \in Boots, k \in Kinds : a # b \/ k # kind => gaps'[a][k] = gaps[a][k]
  <2> gaps \in [Boots -> [Kinds -> Nat \cup {NotListed}]]
    BY DEF AirdropTypeOK
  <2> QED BY <1>1, <1>4
<1>6. AirdropTypeOK'
  BY <1>1, <1>5 DEF AirdropTypeOK
<1>7. Paid' = Paid /\ \A k \in Kinds : Activities(k)' = Activities(k) /\ InHand(k)' = InHand(k)
  BY <1>1 DEF Paid, Activities, InHand
<1>8. ASSUME NEW k \in Kinds PROVE PointsDue(k)'
  <2>1. CASE k # kind
    BY <1>1, <1>5, <1>7, <2>1 DEF PointsDue
  <2>2. CASE k = kind /\ BeingAwarded(kind, b)
    BY <1>1, <2>2 DEF PointsDue
  <2>3. CASE k = kind /\ ~ BeingAwarded(kind, b)
    <3>1. InHand(kind) = 0 /\ \A o \in Boots \ {b} : ~ (gaps[o][kind] > 0)
      BY <1>2, <2>3 DEF BeingAwarded, InHand
    <3>2. \A o \in Boots \ {b} : ~ (gaps'[o][kind] > 0)
      BY <1>5, <3>1
    <3>3. kind \notin overlapped' => logged[kind] + InHand(kind) <= Activities(kind)
      BY <1>1, <2>3 DEF PointsDue
    <3> QED BY <1>1, <1>2, <1>4, <1>5, <1>7, <2>3, <3>1, <3>2, <3>3 DEF PointsDue
  <2> QED BY <2>1, <2>2, <2>3
<1>9. logged'["FAUCET_CLAIM"] >= logged["FAUCET_CLAIM"]
  BY <1>1, <1>2 DEF Kinds
<1> QED BY <1>1, <1>6, <1>8, <1>9, PointsStepKeepsInv

\* A boot awards a point that it listed, or goes down.
LEMMA RepairKeepsInv ==
    ASSUME AirdropAssumption, AirdropIInv, NEW b \in Boots,
           Reboot(b) \/ \E k \in Kinds : Backfill(b, k)
    PROVE  AirdropIInv'
<1> USE DEF AirdropIInv
<1>1. UNCHANGED <<led, time, claim, season, deposits, toAward, overlapped>>
  BY DEF Reboot, Backfill
<1>2. /\ deposits \in Nat /\ toAward \in Nat /\ toAward <= deposits
      /\ \A k \in Kinds : logged[k] \in Nat /\ Activities(k) \in Nat
      /\ \A a \in Boots, k \in Kinds : gaps[a][k] \in Int
  BY PointNumbers
<1>3. Paid' = Paid /\ \A k \in Kinds : Activities(k)' = Activities(k) /\ InHand(k)' = InHand(k) /\ InHand(k) \in Nat
  BY <1>1, <1>2 DEF Paid, Activities, InHand
<1> gaps \in [Boots -> [Kinds -> Nat \cup {NotListed}]] /\ logged \in [Kinds -> Nat]
  BY DEF AirdropTypeOK
<1>4. CASE Reboot(b)
  <2>1. logged' = logged /\ gaps' = [gaps EXCEPT ![b] = [k \in Kinds |-> NotListed]]
    BY <1>4 DEF Reboot
  <2>2. gaps' \in [Boots -> [Kinds -> Nat \cup {NotListed}]]
    BY <2>1
  <2>3. \A a \in Boots, k \in Kinds : gaps'[a][k] > 0 => a # b /\ gaps'[a][k] = gaps[a][k]
    BY <2>1 DEF NotListed
  <2>4. AirdropTypeOK'
    BY <1>1, <2>1, <2>2 DEF AirdropTypeOK
  <2>5. \A k \in Kinds : PointsDue(k)'
    BY <1>1, <1>3, <2>1, <2>3 DEF PointsDue
  <2> QED BY <1>1, <1>2, <2>1, <2>4, <2>5, PointsStepKeepsInv DEF Kinds
<1>5. ASSUME NEW kind \in Kinds, Backfill(b, kind) PROVE AirdropIInv'
  <2>1. gaps[b][kind] > 0 /\ gaps' = [gaps EXCEPT ![b][kind] = @ - 1]
    BY <1>5 DEF Backfill
  <2>2. /\ gaps' \in [Boots -> [Kinds -> Nat \cup {NotListed}]]
        /\ gaps'[b][kind] = gaps[b][kind] - 1
        /\ \A a \in Boots, k \in Kinds : a # b \/ k # kind => gaps'[a][k] = gaps[a][k]
    <3>1. gaps[b][kind] - 1 \in Nat
      BY <2>1 DEF NotListed
    <3> QED BY <2>1, <3>1
  <2>3. /\ logged' \in [Kinds -> Nat]
        /\ logged'[kind] = logged[kind] \/ logged'[kind] = logged[kind] + 1
        /\ \A k \in Kinds \ {kind} : logged'[k] = logged[k]
    BY <1>5 DEF Backfill, Awarded
  <2>4. AirdropTypeOK'
    BY <1>1, <2>2, <2>3 DEF AirdropTypeOK
  <2>5. ASSUME NEW k \in Kinds PROVE PointsDue(k)'
    <3>1. CASE k # kind
      BY <1>1, <1>3, <2>2, <2>3, <3>1 DEF PointsDue
    <3>2. CASE k = kind
      <4>1. ASSUME kind \notin overlapped
            PROVE  \A a \in Boots : gaps'[a][kind] > 0 => a = b
        <5>1. \A a \in Boots : gaps[a][kind] > 0 => a = b
          BY <2>1, <4>1 DEF PointsDue
        <5> QED BY <2>2, <5>1
      <4>2. ASSUME kind \notin overlapped
            PROVE  logged[kind] + InHand(kind) + gaps[b][kind] <= Activities(kind)
        BY <2>1, <4>2 DEF PointsDue
      <4> QED BY <1>1, <1>2, <1>3, <2>1, <2>2, <2>3, <3>2, <4>1, <4>2 DEF PointsDue
    <3> QED BY <3>1, <3>2
  <2>6. logged'["FAUCET_CLAIM"] >= logged["FAUCET_CLAIM"]
    BY <1>2, <2>3 DEF Kinds
  <2> QED BY <1>1, <2>4, <2>5, <2>6, PointsStepKeepsInv
<1> QED BY <1>4, <1>5

\* The season starts, of which no claim paid so far is younger, and time goes on.
LEMMA SeasonKeepsInv ==
    ASSUME AirdropAssumption, AirdropIInv, SeasonStarts \/ Elapse
    PROVE  AirdropIInv'
<1> USE DEF AirdropIInv
<1>1. UNCHANGED <<led, claim, deposits, toAward, logged, gaps, overlapped>>
  BY DEF SeasonStarts, Elapse
<1>2. /\ time \in Nat /\ time' \in 0..LastTime /\ time <= time'
      /\ \/ season' = season
         \/ season' = [on |-> TRUE, start |-> time] /\ time' = time
  BY DEF SeasonStarts, Elapse, AirdropTypeOK, AirdropAssumption
<1>3. Paid' = Paid
  BY <1>1 DEF Paid
<1>4. AirdropTypeOK'
  <2>1. season' \in [on : BOOLEAN, start : 0..LastTime]
    <3>1. time \in 0..LastTime
      BY DEF AirdropTypeOK
    <3>2. season \in [on : BOOLEAN, start : 0..LastTime]
      BY DEF AirdropTypeOK
    <3>3. [on |-> TRUE, start |-> time] \in [on : BOOLEAN, start : 0..LastTime]
      BY <3>1
    <3> QED BY <1>2, <3>2, <3>3, Zenon
  <2> QED BY <1>1, <1>2, <2>1 DEF AirdropTypeOK
<1>5. ClaimsInTurn'
  <2>1. \A c \in Claims : claim[c].began \in Nat
    BY DEF AirdropTypeOK, AirdropAssumption
  <2> QED BY <1>1, <1>2, <2>1 DEF ClaimsInTurn
<1>6. CooldownKept'
  BY <1>1, <1>3 DEF CooldownKept
<1>7. PaidFromInventory'
  <2>1. CASE season' = season
    <3>1. {c \in Paid : claim[c].began > season.start}' = {c \in Paid : claim[c].began > season.start}
      BY <1>1, <1>3, <2>1
    <3> QED BY <1>1, <1>3, <2>1, <3>1 DEF PaidFromInventory
  <2>2. CASE season' = [on |-> TRUE, start |-> time]
    <3>1. \A c \in Claims : claim[c].began \in Nat /\ claim[c].began <= time
      BY DEF AirdropTypeOK, AirdropAssumption, ClaimsInTurn
    <3>2. {c \in Paid : claim[c].began > season.start}' = {}
      BY <1>1, <1>2, <1>3, <2>2, <3>1 DEF Paid
    <3>3. logged["FAUCET_CLAIM"] >= 0
      BY PointNumbers DEF Kinds
    <3> QED BY <1>1, <1>3, <3>2, <3>3, FS_EmptySet DEF PaidFromInventory
  <2> QED BY <1>2, <2>1, <2>2
<1>8. \A k \in Kinds : PointsDue(k)'
  BY <1>1, <1>3 DEF PointsDue, Activities, InHand
<1> QED BY <1>4, <1>5, <1>6, <1>7, <1>8

(***************************************************************************)
(* Claims that race keep the cooldown and never overdraw the inventory;    *)
(* the points of a claim are in its transaction; and however often workers *)
(* boot and stop, an activity is awarded once, unless its gaps were listed *)
(* while another process was awarding them (faucet.rs:107, airdrop.rs:170).*)
(***************************************************************************)
THEOREM AirdropInvariant == AirdropSpec => []AirdropInv
<1>1. AirdropInit => AirdropIInv
  BY AirdropAssumption, AirdropStarts
<1>2. AirdropIInv /\ [AirdropNext]_airdropVars => AirdropIInv'
  <2> SUFFICES ASSUME AirdropIInv, [AirdropNext]_airdropVars PROVE AirdropIInv'
    OBVIOUS
  <2> USE AirdropAssumption, RefAssumption
  <2>1. ASSUME NEW c \in Claims, BeginClaim(c) \/ LockAndCheck(c) \/ PayClaim(c) PROVE AirdropIInv'
    BY <2>1, BeginKeepsInv, CheckKeepsInv, PayKeepsInv
  <2>2. CASE EnsureFaucetFloor
    BY <2>2, FloorKeepsInv
  <2>3. CASE CreditDeposit \/ AwardDeposit \/ AwardLost
    BY <2>3, DepositsKeepInv
  <2>4. ASSUME NEW b \in Boots, NEW k \in Kinds, ListGaps(b, k) PROVE AirdropIInv'
    BY <2>4, ListKeepsInv
  <2>5. ASSUME NEW b \in Boots, NEW k \in Kinds, Backfill(b, k) PROVE AirdropIInv'
    BY <2>5, RepairKeepsInv
  <2>6. ASSUME NEW b \in Boots, Reboot(b) PROVE AirdropIInv'
    BY <2>6, RepairKeepsInv
  <2>7. CASE SeasonStarts \/ Elapse
    BY <2>7, SeasonKeepsInv
  <2>8. CASE UNCHANGED airdropVars
    <3>1. Paid' = Paid
      BY <2>8 DEF airdropVars, Paid
    <3> QED BY <2>8, <3>1 DEF airdropVars, AirdropIInv, AirdropTypeOK, ClaimsInTurn, CooldownKept,
                PaidFromInventory, PointsDue, Activities, InHand
  <2> QED BY <2>1, <2>2, <2>3, <2>4, <2>5, <2>6, <2>7, <2>8 DEF AirdropNext
<1>3. AirdropIInv => AirdropInv
  <2> SUFFICES ASSUME AirdropIInv PROVE AwardedOnce
    BY DEF AirdropIInv, AirdropInv
  <2>1. \A k \in Kinds : k \notin overlapped => logged[k] + InHand(k) <= Activities(k)
    BY DEF AirdropIInv, PointsDue
  <2>2. \A k \in Kinds : logged[k] \in Nat /\ InHand(k) \in Nat /\ Activities(k) \in Nat
    BY AirdropAssumption, DoneIsBounded DEF AirdropIInv, AirdropTypeOK
  <2>3. \A k \in Kinds : k \notin overlapped => logged[k] <= Activities(k)
    BY <2>1, <2>2
  <2> QED BY <2>3 DEF AwardedOnce, Kinds, Activities
<1> QED BY <1>1, <1>2, <1>3, PTL DEF AirdropSpec

-----------------------------------------------------------------------------
(***************************************************************************)
(* HouseSwaps.                                                             *)
(***************************************************************************)
\* What a request that runs its transaction was quoted.
QuotesKept ==
    \A r \in SwapRequests : swapReq[r].at = "tx" =>
        LET to == ComputeSwap(AmountOf[r], swapReq[r].price) IN to > 0 /\ to >= MinimumOf[r]

\* A swap is what its request was quoted.
SwapsAsQuoted ==
    \A k \in SwapKeys : swaps[k] # NoSwap =>
        LET s == swaps[k] IN
        s.to = ComputeSwap(AmountOf[s.by], s.price) /\ s.to > 0 /\ s.to >= MinimumOf[s.by]

\* What was answered, was found, and stays.
AnswersHold ==
    \A r \in SwapRequests :
        \/ swapReq[r].at \in {"found", "created", "done"}
        \/ swapReq[r].at = "refused" /\ swapReq[r].made
        => swaps[KeyOf[r]] # NoSwap

\* Of each coin, nothing is made or lost.
SwapBooks ==
    /\ led.balance[UserFrom] + led.balance[CaixaFrom] + led.balance[HouseFrom]
          = SwapBalance[UserFrom] + SwapBalance[CaixaFrom] + SwapBalance[HouseFrom]
    /\ led.balance[UserTo] - SwapBalance[UserTo]
          = SumFunctionOnSet([k \in SwapKeys |-> swaps[k].to], SwapKeys)

\* One boot at a time has not seen a reversal, unless two met.
SeedOnce ==
    ~ bootsMet =>
        /\ reversals <= 1
        /\ \A b \in SwapBoots : boot[b] = "reverses" =>
              reversals = 0 /\ \A o \in SwapBoots \ {b} : boot[o] # "reverses"

HouseIInv ==
    /\ HouseTypeOK /\ QuotesKept /\ SwapsAsQuoted /\ AnswersHold /\ SwapBooks
    /\ RetriesAnswered /\ SwapsAwarded /\ SeedOnce

\* The invariant says what the run checks.
LEMMA HouseIInvIsEnough == HouseIInv => HouseInv
  BY DEF HouseIInv, HouseInv, ConvertedOnce, AnswersHold, SwapBooks, MinimumKept, SwapsAsQuoted,
         SeedReversedOnce, SeedOnce

\* What a swap pays is an integer.
LEMMA ToAmountIsInt ==
    ASSUME HouseAssumption
    PROVE  \A a, p \in Nat : ComputeSwap(a, p) \in Int
<1> SUFFICES ASSUME NEW a \in Nat, NEW p \in Nat PROVE ComputeSwap(a, p) \in Int
  OBVIOUS
<1>1. PICK g : g = a * p
  OBVIOUS
<1>2. g \in Nat /\ SwapFeeBps \in Nat
  BY <1>1 DEF HouseAssumption
<1>3. PICK f : f = g * SwapFeeBps
  OBVIOUS
<1>4. f \in Nat
  BY <1>2, <1>3
<1>5. f \div 10000 \in Int
  BY <1>4
<1> QED BY <1>1, <1>2, <1>3, <1>5 DEF ComputeSwap, Fee

\* The fields of the requests and of the swaps.
LEMMA HouseFields ==
    ASSUME HouseAssumption, HouseTypeOK
    PROVE  /\ \A r \in SwapRequests :
                 /\ KeyOf[r] \in SwapKeys /\ AmountOf[r] \in Nat /\ MinimumOf[r] \in Nat
                 /\ swapReq[r].at \in {"tx", "found", "created", "failed"} => swapReq[r].price \in Prices
                 /\ swapReq[r].at = "tx" => swapReq[r] \in InTx
                 /\ swapReq[r].at \in {"created", "found"} => swapReq[r] \in InTx \cup Before
                 /\ swapReq[r].at = "created" => swapReq[r] \in InTx
           /\ \A k \in SwapKeys : swaps[k].to \in Nat /\ (swaps[k] # NoSwap => swaps[k] \in Swaps)
           /\ Prices \subseteq Nat
<1>1. \A r \in SwapRequests : KeyOf[r] \in SwapKeys /\ AmountOf[r] \in Nat /\ MinimumOf[r] \in Nat
  BY DEF HouseAssumption
<1>2. ASSUME NEW r \in SwapRequests
      PROVE  /\ swapReq[r].at \in {"tx", "found", "created", "failed"} => swapReq[r].price \in Prices
             /\ swapReq[r].at = "tx" => swapReq[r] \in InTx
             /\ swapReq[r].at \in {"created", "found"} => swapReq[r] \in InTx \cup Before
             /\ swapReq[r].at = "created" => swapReq[r] \in InTx
  <2>1. swapReq[r] = Fresh0 \/ swapReq[r] \in InTx \/ swapReq[r] \in Before
    BY DEF HouseTypeOK
  <2>2. Fresh0.at = "new"
    BY DEF Fresh0
  <2>3. \A q \in InTx : q.price \in Prices
    BY DEF InTx
  <2>4. \A q \in Before : q.price \in Prices /\ q.at \in {"refused", "found", "done", "lost"}
    BY DEF Before
  <2> QED BY <2>1, <2>2, <2>3, <2>4
<1>3. \A k \in SwapKeys : swaps[k].to \in Nat /\ (swaps[k] # NoSwap => swaps[k] \in Swaps)
  <2>1. \A k \in SwapKeys : swaps[k] = NoSwap \/ swaps[k] \in Swaps
    BY DEF HouseTypeOK
  <2>2. NoSwap.to = 0 /\ \A s \in Swaps : s.to \in Nat
    BY DEF NoSwap, Swaps
  <2> QED BY <2>1, <2>2
<1> QED BY <1>1, <1>2, <1>3 DEF HouseAssumption

\* No swap is made yet.
LEMMA HouseStarts == ASSUME HouseAssumption, HouseInit PROVE HouseIInv
<1>1. \A k \in SwapKeys : swaps[k] = NoSwap /\ NoSwap.to = 0
  BY DEF HouseInit, NoSwap
<1>2. \A r \in SwapRequests : swapReq[r].at = "new"
  BY DEF HouseInit, Fresh0
<1>3. HouseTypeOK
  BY DEF HouseInit, HouseTypeOK, HouseAssumption, Ledgers, Keys
<1>4. SwapBooks
  <2>1. SumFunctionOnSet([k \in SwapKeys |-> swaps[k].to], SwapKeys) = 0
    BY <1>1, SumZero DEF HouseAssumption
  <2> QED BY <2>1 DEF SwapBooks, HouseInit, HouseAssumption
<1> QED BY <1>1, <1>2, <1>3, <1>4 DEF HouseIInv, HouseInit, QuotesKept, SwapsAsQuoted, AnswersHold, RetriesAnswered,
           SwapsAwarded, SeedOnce

\* A request moves on, and the swaps, the ledger and the boots stay.
LEMMA RequestMoves ==
    ASSUME HouseAssumption, HouseIInv, NEW r \in SwapRequests, NEW q \in InTx \cup Before,
           swapReq' = [swapReq EXCEPT ![r] = q],
           UNCHANGED <<led, price, swaps, boot, reversals, bootsMet>>,
           points' \in [SwapKeys -> Nat], cutShort' \subseteq SwapKeys,
           \A k \in SwapKeys \ {KeyOf[r]} : points'[k] = points[k] /\ (k \in cutShort => k \in cutShort'),
           q.at = "tx" => /\ ComputeSwap(AmountOf[r], q.price) > 0
                          /\ ComputeSwap(AmountOf[r], q.price) >= MinimumOf[r],
           q.at \in {"found", "created", "done"} \/ (q.at = "refused" /\ q.made) => swaps[KeyOf[r]] # NoSwap,
           q.at = "refused" /\ q.made =>
               \/ AmountOf[r] # AmountOf[swaps[KeyOf[r]].by]
               \/ q.price # swaps[KeyOf[r]].price
               \/ MinimumOf[r] > MinimumOf[swaps[KeyOf[r]].by],
           \/ q.at \in {"found", "created"}
           \/ points'[KeyOf[r]] # 0
           \/ KeyOf[r] \in cutShort'
           \/ ~ Answered(r) /\ points'[KeyOf[r]] = points[KeyOf[r]] /\ cutShort' = cutShort
    PROVE  HouseIInv'
<1> USE DEF HouseIInv
<1>1. swapReq'[r] = q /\ \A s \in SwapRequests \ {r} : swapReq'[s] = swapReq[s]
  BY DEF HouseTypeOK
<1>2. HouseTypeOK'
  BY DEF HouseTypeOK
<1>3. QuotesKept'
  BY <1>1 DEF QuotesKept
<1>4. SwapsAsQuoted' /\ SwapBooks' /\ SeedOnce'
  BY DEF SwapsAsQuoted, SwapBooks, SeedOnce
<1>5. AnswersHold'
  BY <1>1 DEF AnswersHold
<1>6. RetriesAnswered'
  BY <1>1 DEF RetriesAnswered
<1>7. SwapsAwarded'
  <2> SUFFICES ASSUME NEW k \in SwapKeys, swaps'[k] # NoSwap, points'[k] = 0, k \notin cutShort'
               PROVE  \E s \in SwapRequests : KeyOf[s] = k /\ Answered(s)'
    BY DEF SwapsAwarded
  <2>1. CASE k # KeyOf[r]
    <3>1. PICK s \in SwapRequests : KeyOf[s] = k /\ Answered(s)
      BY <2>1 DEF SwapsAwarded
    <3> QED BY <1>1, <2>1, <3>1 DEF Answered
  <2>2. CASE k = KeyOf[r] /\ q.at \in {"found", "created"}
    BY <1>1, <2>2 DEF Answered
  <2>3. CASE k = KeyOf[r] /\ ~ Answered(r) /\ points'[KeyOf[r]] = points[KeyOf[r]] /\ cutShort' = cutShort
    <3>1. PICK s \in SwapRequests : KeyOf[s] = k /\ Answered(s)
      BY <2>3 DEF SwapsAwarded
    <3> QED BY <1>1, <2>3, <3>1 DEF Answered
  <2> QED BY <2>1, <2>2, <2>3
<1> QED BY <1>2, <1>3, <1>4, <1>5, <1>6, <1>7

\* The quote, and the look-up of the key.
LEMMA QuoteKeepsInv ==
    ASSUME HouseAssumption, HouseIInv, NEW r \in SwapRequests, QuoteAndFind(r)
    PROVE  HouseIInv'
<1> DEFINE k == KeyOf[r]
           made == swaps[k] # NoSwap
<1>1. /\ UNCHANGED <<led, price, swaps, boot, reversals, bootsMet>> /\ UNCHANGED <<points, cutShort>>
      /\ swapReq[r].at = "new" /\ price \in Prices /\ k \in SwapKeys
  BY HouseFields DEF QuoteAndFind, Fresh0, HouseIInv, HouseTypeOK
<1>2. points' \in [SwapKeys -> Nat] /\ cutShort' \subseteq SwapKeys /\ ~ Answered(r)
  BY <1>1 DEF HouseIInv, HouseTypeOK, Answered
<1>3. CASE ~ QuoteHolds(r)
  <2>1. PICK q : q = [at |-> "refused", made |-> made, price |-> price]
    OBVIOUS
  <2>2. swapReq' = [swapReq EXCEPT ![r] = q]
    BY <1>3, <2>1 DEF QuoteAndFind, Answer
  <2>3. q \in InTx \cup Before /\ q.at = "refused" /\ (q.made <=> made) /\ q.price = price
    BY <1>1, <2>1 DEF Before
  <2>4. ASSUME made, AmountOf[r] = AmountOf[swaps[k].by], price = swaps[k].price
        PROVE  MinimumOf[r] > MinimumOf[swaps[k].by]
    <3>1. PICK to : to = ComputeSwap(AmountOf[r], price)
      OBVIOUS
    <3>2. to > 0 /\ to >= MinimumOf[swaps[k].by]
      BY <1>1, <2>4, <3>1 DEF HouseIInv, SwapsAsQuoted
    <3>3. ~ (to > 0 /\ to >= MinimumOf[r])
      BY <1>3, <3>1 DEF QuoteHolds
    <3>4. swaps[k].by \in SwapRequests
      BY <1>1, <2>4, HouseFields DEF HouseIInv, Swaps
    <3>5. to \in Int /\ MinimumOf[r] \in Nat /\ MinimumOf[swaps[k].by] \in Nat
      BY <1>1, <3>1, <3>4, HouseFields, ToAmountIsInt DEF HouseIInv
    <3> QED BY <3>2, <3>3, <3>5
  <2> QED BY <1>1, <1>2, <2>2, <2>3, <2>4, RequestMoves
<1>4. CASE QuoteHolds(r) /\ made
  <2>1. PICK q : q = [at |-> "found", made |-> made, price |-> price]
    OBVIOUS
  <2>2. swapReq' = [swapReq EXCEPT ![r] = q]
    BY <1>4, <2>1 DEF QuoteAndFind, Answer
  <2>3. q \in InTx \cup Before /\ q.at = "found"
    BY <1>1, <2>1 DEF Before
  <2> QED BY <1>1, <1>2, <1>4, <2>2, <2>3, RequestMoves
<1>5. CASE QuoteHolds(r) /\ ~ made
  <2>1. PICK q : q = [at |-> "tx", price |-> price]
    OBVIOUS
  <2>2. swapReq' = [swapReq EXCEPT ![r] = q]
    BY <1>5, <2>1 DEF QuoteAndFind
  <2>3. q \in InTx \cup Before /\ q.at = "tx" /\ q.price = price
    BY <1>1, <2>1 DEF InTx
  <2> QED BY <1>1, <1>2, <1>5, <2>2, <2>3, RequestMoves DEF QuoteHolds
<1> QED BY <1>3, <1>4, <1>5

\* A record of a request with another outcome.
LEMMA MovedAt ==
    ASSUME NEW q
    PROVE  /\ q \in InTx => \A what \in {"found", "created", "failed", "done", "lost"} :
                 [q EXCEPT !.at = what] \in InTx /\ [q EXCEPT !.at = what].at = what
           /\ q \in Before => \A what \in {"done", "lost"} :
                 [q EXCEPT !.at = what] \in Before /\ [q EXCEPT !.at = what].at = what
  BY DEF InTx, Before

\* A key that is taken, or a failure.
LEMMA ExecuteOldKeepsInv ==
    ASSUME HouseAssumption, HouseIInv, NEW r \in SwapRequests, swapReq[r].at = "tx",
           NEW what \in {"found", "failed"}, what = "found" => swaps[KeyOf[r]] # NoSwap,
           swapReq' = [swapReq EXCEPT ![r].at = what],
           UNCHANGED <<led, price, swaps, boot, reversals, bootsMet>>, UNCHANGED <<points, cutShort>>
    PROVE  HouseIInv'
<1>1. PICK q : q = [swapReq[r] EXCEPT !.at = what]
  OBVIOUS
<1>2. swapReq' = [swapReq EXCEPT ![r] = q]
  BY <1>1
<1>3. q \in InTx /\ q.at = what
  <2>1. swapReq[r] \in InTx
    BY HouseFields DEF HouseIInv
  <2> QED BY <1>1, <2>1 DEF InTx
<1>4. points' \in [SwapKeys -> Nat] /\ cutShort' \subseteq SwapKeys /\ ~ Answered(r)
  BY DEF HouseIInv, HouseTypeOK, Answered
<1> QED BY <1>2, <1>3, <1>4, RequestMoves

\* Points and commission.
LEMMA AwardKeepsInv ==
    ASSUME HouseAssumption, HouseIInv, NEW r \in SwapRequests, AwardSwap(r)
    PROVE  HouseIInv'
<1>1. PICK q : q = [swapReq[r] EXCEPT !.at = "done"]
  OBVIOUS
<1>2. swapReq' = [swapReq EXCEPT ![r] = q] /\ UNCHANGED <<led, price, swaps, cutShort, boot, reversals, bootsMet>>
  BY <1>1 DEF AwardSwap
<1>3. swapReq[r].at \in {"found", "created"} /\ KeyOf[r] \in SwapKeys
  BY HouseFields DEF AwardSwap, Answered, HouseIInv
<1>4. q \in InTx \cup Before /\ q.at = "done"
  BY <1>1, <1>3, HouseFields, MovedAt DEF HouseIInv
<1>5. /\ points' \in [SwapKeys -> Nat] /\ cutShort' \subseteq SwapKeys /\ points'[KeyOf[r]] # 0
      /\ \A k \in SwapKeys \ {KeyOf[r]} : points'[k] = points[k]
  BY <1>2, <1>3 DEF HouseIInv, HouseTypeOK, AwardSwap
<1>6. swaps[KeyOf[r]] # NoSwap
  BY <1>3 DEF HouseIInv, AnswersHold
<1> QED BY <1>2, <1>4, <1>5, <1>6, RequestMoves

\* A handler that dies.
LEMMA DeathKeepsInv ==
    ASSUME HouseAssumption, HouseIInv, NEW r \in SwapRequests, HandlerDies(r)
    PROVE  HouseIInv'
<1>1. PICK q : q = [swapReq[r] EXCEPT !.at = "lost"]
  OBVIOUS
<1>2. swapReq' = [swapReq EXCEPT ![r] = q] /\ UNCHANGED <<led, price, swaps, points, boot, reversals, bootsMet>>
  BY <1>1 DEF HandlerDies
<1>3. swapReq[r].at \in {"tx", "found", "created"} /\ KeyOf[r] \in SwapKeys
  BY HouseFields DEF HandlerDies, HouseIInv
<1>4. q \in InTx \cup Before /\ q.at = "lost"
  BY <1>1, <1>3, HouseFields, MovedAt DEF HouseIInv
<1>5. /\ points' \in [SwapKeys -> Nat] /\ cutShort' \subseteq SwapKeys /\ KeyOf[r] \in cutShort'
      /\ \A k \in SwapKeys : k \in cutShort => k \in cutShort'
  BY <1>2, <1>3 DEF HouseIInv, HouseTypeOK, HandlerDies
<1> QED BY <1>2, <1>4, <1>5, RequestMoves

-----------------------------------------------------------------------------
\* The four entries of a swap keep the books.
LEMMA ConversionBalances ==
    ASSUME HouseAssumption, HouseIInv, NEW r \in SwapRequests, swapReq[r].at = "tx",
           PostEach(Conversion(r)),
           NEW out, out = ComputeSwap(AmountOf[r], swapReq[r].price)
    PROVE  /\ led' \in Ledgers /\ out \in Nat
           /\ led'.balance[UserFrom] + led'.balance[CaixaFrom] + led'.balance[HouseFrom]
                 = led.balance[UserFrom] + led.balance[CaixaFrom] + led.balance[HouseFrom]
           /\ led'.balance[UserTo] = led.balance[UserTo] + out
<1>1. /\ KeyOf[r] \in Refs /\ AmountOf[r] \in Nat /\ swapReq[r].price \in Nat /\ led \in Ledgers
      /\ out > 0 /\ out \in Int
  BY HouseFields, ToAmountIsInt DEF HouseAssumption, HouseIInv, HouseTypeOK, QuotesKept
<1>2. PICK k, n : k = KeyOf[r] /\ n = AmountOf[r]
  OBVIOUS
<1>3. PICK a, b, c, d : /\ a = Entry(UserFrom, -n, "SWAP_OUT", k)
                        /\ b = Entry(HouseFrom, n, "SWAP_IN", k)
                        /\ c = Entry(HouseTo, -out, "SWAP_OUT", k)
                        /\ d = Entry(UserTo, out, "SWAP_IN", k)
  OBVIOUS
<1>4. Conversion(r) = <<a, b, c, d>>
  BY <1>2, <1>3, Zenon DEF Conversion
<1>5. a \in Entries /\ b \in Entries /\ c \in Entries /\ d \in Entries
  BY <1>1, <1>2, <1>3 DEF Entry, Entries, HouseAssumption
<1>6. PostAll(led, <<a, b, c, d>>).ok /\ led' = PostAll(led, <<a, b, c, d>>).ledger
  BY <1>4, Zenon DEF PostEach
<1>7. led' = Posted(Posted(Posted(Posted(led, a), b), c), d)
  BY <1>1, <1>5, <1>6, PostAllFour
<1>8. /\ led' \in Ledgers
      /\ \A w \in Wallets :
            /\ led'.balance[w] = (led.balance[w] + Effect(a, w) + Effect(b, w)) + Effect(c, w) + Effect(d, w)
            /\ led.balance[w] \in Int
  <2>1. PICK m : m = led'
    OBVIOUS
  <2>2. m = Posted(Posted(Posted(Posted(led, a), b), c), d)
    BY <1>7, <2>1
  <2>3. /\ Posted(Posted(Posted(Posted(led, a), b), c), d) \in Ledgers
        /\ \A w \in Wallets :
              /\ Posted(Posted(Posted(Posted(led, a), b), c), d).balance[w]
                    = (led.balance[w] + Effect(a, w) + Effect(b, w)) + Effect(c, w) + Effect(d, w)
              /\ led.balance[w] \in Int
    BY <1>1, <1>5, SwapBalances
  <2> QED BY <2>1, <2>2, <2>3
<1>9. /\ Effect(a, UserFrom) = -n /\ Effect(a, HouseFrom) = 0 /\ Effect(a, CaixaFrom) = 0 /\ Effect(a, UserTo) = 0
      /\ Effect(b, UserFrom) = 0 /\ Effect(b, HouseFrom) = n /\ Effect(b, CaixaFrom) = 0 /\ Effect(b, UserTo) = 0
      /\ Effect(c, UserFrom) = 0 /\ Effect(c, HouseFrom) = 0 /\ Effect(c, CaixaFrom) = 0 /\ Effect(c, UserTo) = 0
      /\ Effect(d, UserFrom) = 0 /\ Effect(d, HouseFrom) = 0 /\ Effect(d, CaixaFrom) = 0 /\ Effect(d, UserTo) = out
  BY <1>3 DEF Effect, Entry, HouseAssumption
<1>10. {UserFrom, CaixaFrom, HouseFrom, UserTo} \subseteq Wallets /\ n \in Nat
  BY <1>1, <1>2 DEF HouseAssumption
<1>11. /\ led'.balance[UserFrom] = led.balance[UserFrom] - n
       /\ led'.balance[HouseFrom] = led.balance[HouseFrom] + n
       /\ led'.balance[CaixaFrom] = led.balance[CaixaFrom]
       /\ led'.balance[UserTo] = led.balance[UserTo] + out
  BY <1>1, <1>8, <1>9, <1>10
<1> QED BY <1>1, <1>8, <1>10, <1>11

\* A swap is made.
LEMMA ExecuteNewKeepsInv ==
    ASSUME HouseAssumption, HouseIInv, NEW r \in SwapRequests, swapReq[r].at = "tx",
           swaps[KeyOf[r]] = NoSwap, PostEach(Conversion(r)),
           swaps' = [swaps EXCEPT ![KeyOf[r]] = [by |-> r, price |-> swapReq[r].price,
                                                 to |-> ComputeSwap(AmountOf[r], swapReq[r].price)]],
           swapReq' = [swapReq EXCEPT ![r].at = "created"],
           UNCHANGED <<price, points, cutShort, boot, reversals, bootsMet>>
    PROVE  HouseIInv'
<1> USE DEF HouseIInv
<1>1. PICK k, out : k = KeyOf[r] /\ out = ComputeSwap(AmountOf[r], swapReq[r].price)
  OBVIOUS
<1>2. k \in SwapKeys /\ swapReq[r].price \in Prices /\ swapReq[r] \in InTx /\ out > 0 /\ out >= MinimumOf[r]
  BY <1>1, HouseFields DEF QuotesKept
<1>3. /\ led' \in Ledgers /\ out \in Nat
      /\ led'.balance[UserFrom] + led'.balance[CaixaFrom] + led'.balance[HouseFrom]
            = led.balance[UserFrom] + led.balance[CaixaFrom] + led.balance[HouseFrom]
      /\ led'.balance[UserTo] = led.balance[UserTo] + out
  BY <1>1, ConversionBalances
<1>4. PICK s : s = [by |-> r, price |-> swapReq[r].price, to |-> out]
  OBVIOUS
<1>5. s \in Swaps /\ s.by = r /\ s.price = swapReq[r].price /\ s.to = out /\ s # NoSwap
  BY <1>2, <1>3, <1>4 DEF Swaps, NoSwap
<1>6. swaps'[k] = s /\ \A o \in SwapKeys \ {k} : swaps'[o] = swaps[o]
  BY <1>1, <1>2, <1>4 DEF HouseTypeOK
<1>7. PICK q : q = [swapReq[r] EXCEPT !.at = "created"]
  OBVIOUS
<1>8. q \in InTx /\ q.at = "created"
  BY <1>2, <1>7, MovedAt
<1>9. swapReq'[r] = q /\ \A o \in SwapRequests \ {r} : swapReq'[o] = swapReq[o]
  BY <1>7 DEF HouseTypeOK
<1>10. HouseTypeOK'
  <2>1. swaps' \in [SwapKeys -> {NoSwap} \cup Swaps]
    BY <1>1, <1>4, <1>5 DEF HouseTypeOK
  <2>2. swapReq' \in [SwapRequests -> {Fresh0} \cup InTx \cup Before]
    BY <1>7, <1>8 DEF HouseTypeOK
  <2> QED BY <1>3, <2>1, <2>2 DEF HouseTypeOK
<1>11. QuotesKept'
  BY <1>8, <1>9 DEF QuotesKept
<1>12. SwapsAsQuoted'
  BY <1>1, <1>2, <1>5, <1>6 DEF SwapsAsQuoted
<1>13. \A o \in SwapKeys : swaps[o] # NoSwap => o # k /\ swaps'[o] = swaps[o]
  BY <1>1, <1>6
<1>14. AnswersHold'
  BY <1>1, <1>5, <1>6, <1>8, <1>9, <1>13, HouseFields DEF AnswersHold
<1>15. SwapBooks'
  <2> DEFINE f == [o \in SwapKeys |-> swaps[o].to]
             h == [o \in SwapKeys |-> swaps'[o].to]
  <2>1. \A o \in SwapKeys : f[o] = swaps[o].to /\ h[o] = swaps'[o].to /\ swaps[o].to \in Nat
    BY HouseFields
  <2>2. f[k] = 0 /\ h[k] = out /\ \A o \in SwapKeys \ {k} : h[o] = f[o]
    BY <1>1, <1>2, <1>5, <1>6, <2>1 DEF NoSwap
  <2>3. SwapBooks' <=> /\ led'.balance[UserFrom] + led'.balance[CaixaFrom] + led'.balance[HouseFrom]
                              = SwapBalance[UserFrom] + SwapBalance[CaixaFrom] + SwapBalance[HouseFrom]
                       /\ led'.balance[UserTo] - SwapBalance[UserTo] = SumFunctionOnSet(h, SwapKeys)
    BY DEF SwapBooks
  <2>4. led.balance[UserTo] - SwapBalance[UserTo] = SumFunctionOnSet(f, SwapKeys)
    BY DEF SwapBooks
  <2> HIDE DEF f, h
  <2>5. Summands(f, SwapKeys) /\ Summands(h, SwapKeys)
    <3>1. \A o \in SwapKeys : f[o] \in Int
      BY <2>1
    <3>2. \A o \in SwapKeys : h[o] \in Int
      BY <1>3, <2>2, <3>1
    <3> QED BY <3>1, <3>2 DEF Summands, HouseAssumption
  <2>6. SumFunctionOnSet(h, SwapKeys) = SumFunctionOnSet(f, SwapKeys) - f[k] + h[k]
    BY <1>2, <2>2, <2>5, SumChange
  <2>7. SumFunctionOnSet(f, SwapKeys) \in Int
    BY <2>5, SumType
  <2>8. led.balance[UserTo] \in Int /\ SwapBalance[UserTo] \in Int
    BY DEF HouseTypeOK, HouseAssumption, Ledgers
  <2>9. led'.balance[UserTo] - SwapBalance[UserTo] = SumFunctionOnSet(h, SwapKeys)
    BY <1>3, <2>2, <2>4, <2>6, <2>7, <2>8
  <2> QED BY <1>3, <2>3, <2>9 DEF SwapBooks
<1>16. RetriesAnswered'
  BY <1>8, <1>9, <1>13, HouseFields DEF RetriesAnswered, AnswersHold
<1>17. SwapsAwarded'
  <2> SUFFICES ASSUME NEW o \in SwapKeys, swaps'[o] # NoSwap, points[o] = 0, o \notin cutShort
               PROVE  \E t \in SwapRequests : KeyOf[t] = o /\ Answered(t)'
    BY DEF SwapsAwarded
  <2>1. CASE o = k
    BY <1>1, <1>8, <1>9, <2>1 DEF Answered
  <2>2. CASE o # k
    <3>1. PICK t \in SwapRequests : KeyOf[t] = o /\ Answered(t)
      BY <1>6, <2>2 DEF SwapsAwarded
    <3> QED BY <1>1, <1>9, <2>2, <3>1 DEF Answered
  <2> QED BY <2>1, <2>2
<1>18. SeedOnce'
  BY DEF SeedOnce
<1> QED BY <1>10, <1>11, <1>12, <1>14, <1>15, <1>16, <1>17, <1>18

\* Outside of the requests: prices, transfers of the user and boots.
LEMMA AsideKeepsInv ==
    ASSUME HouseAssumption, HouseIInv, UNCHANGED <<swapReq, swaps, points, cutShort>>,
           price' \in Prices, led' \in Ledgers,
           led'.balance[UserFrom] + led'.balance[CaixaFrom] + led'.balance[HouseFrom]
              = led.balance[UserFrom] + led.balance[CaixaFrom] + led.balance[HouseFrom],
           led'.balance[UserTo] = led.balance[UserTo],
           boot' \in [SwapBoots -> {"down", "reverses", "up"}], reversals' \in Nat, bootsMet' \in BOOLEAN,
           SeedOnce'
    PROVE  HouseIInv'
  BY DEF HouseIInv, HouseTypeOK, QuotesKept, SwapsAsQuoted, AnswersHold, SwapBooks, RetriesAnswered,
         SwapsAwarded, Answered

\* A transfer between two wallets of the user.
LEMMA TransferKeepsInv ==
    ASSUME HouseAssumption, HouseIInv, NEW from, NEW to,
           {from, to} = {UserFrom, CaixaFrom}, from # to, TransferBetweenKinds(from, to, 1)
    PROVE  HouseIInv'
<1>1. /\ led \in Ledgers /\ {from, to, UserFrom, CaixaFrom, HouseFrom, UserTo} \subseteq Wallets
      /\ from \in {UserFrom, CaixaFrom} /\ to \in {UserFrom, CaixaFrom}
  BY DEF HouseIInv, HouseTypeOK, HouseAssumption
<1>2. PICK a, b : a = Entry(from, -1, "TRANSFER_OUT", NoRef) /\ b = Entry(to, 1, "TRANSFER_IN", NoRef)
  OBVIOUS
<1>3. a \in Entries /\ b \in Entries
  BY <1>1, <1>2 DEF Entry, Entries, HouseAssumption
<1>4. PostAll(led, <<a, b>>).ok /\ led' = PostAll(led, <<a, b>>).ledger
  BY <1>2, Zenon DEF TransferBetweenKinds, PostEach
<1>5. led' = Posted(Posted(led, a), b)
  BY <1>1, <1>3, <1>4, PostAllTwo
<1>6. /\ led' \in Ledgers
      /\ \A w \in Wallets : /\ led'.balance[w] = led.balance[w] + Effect(a, w) + Effect(b, w)
                            /\ led.balance[w] \in Int
  <2>1. /\ Posted(Posted(led, a), b) \in Ledgers
        /\ \A w \in Wallets :
              /\ Posted(Posted(led, a), b).balance[w] = led.balance[w] + Effect(a, w) + Effect(b, w)
              /\ led.balance[w] \in Int
    BY <1>1, <1>3, TransferBalances
  <2> QED BY <1>5, <2>1
<1>7. /\ \A w \in Wallets : Effect(a, w) = IF w = from THEN -1 ELSE 0
      /\ \A w \in Wallets : Effect(b, w) = IF w = to THEN 1 ELSE 0
  BY <1>2 DEF Effect, Entry
<1>8. UserTo \notin {from, to} /\ HouseFrom \notin {from, to}
  BY <1>1 DEF HouseAssumption
<1>9. /\ led'.balance[from] = led.balance[from] - 1 /\ led'.balance[to] = led.balance[to] + 1
      /\ led'.balance[HouseFrom] = led.balance[HouseFrom] /\ led'.balance[UserTo] = led.balance[UserTo]
      /\ led.balance[from] \in Int /\ led.balance[to] \in Int /\ led.balance[HouseFrom] \in Int
  BY <1>1, <1>6, <1>7, <1>8
<1>10. led'.balance[UserFrom] + led'.balance[CaixaFrom] + led'.balance[HouseFrom]
          = led.balance[UserFrom] + led.balance[CaixaFrom] + led.balance[HouseFrom]
  <2>1. CASE from = UserFrom /\ to = CaixaFrom
    BY <1>9, <2>1
  <2>2. CASE from = CaixaFrom /\ to = UserFrom
    BY <1>9, <2>2
  <2> QED BY <1>1, <2>1, <2>2
<1>11. UNCHANGED <<price, swapReq, swaps, points, cutShort, boot, reversals, bootsMet>>
  BY DEF TransferBetweenKinds
<1> QED BY <1>6, <1>9, <1>10, <1>11, AsideKeepsInv DEF HouseIInv, HouseTypeOK, SeedOnce

\* A boot looks for the reversal of the seed.
LEMMA SeeKeepsInv ==
    ASSUME HouseAssumption, HouseIInv, NEW b \in SwapBoots, SeeSeed(b)
    PROVE  HouseIInv'
<1>1. /\ UNCHANGED <<led, price, swapReq, swaps, points, cutShort, reversals>>
      /\ boot \in [SwapBoots -> {"down", "reverses", "up"}] /\ reversals \in Nat /\ bootsMet \in BOOLEAN
      /\ led \in Ledgers /\ price \in Prices
  BY DEF SeeSeed, HouseIInv, HouseTypeOK
<1>2. /\ boot' \in [SwapBoots -> {"down", "reverses", "up"}]
      /\ boot'[b] = IF reversals = 0 THEN "reverses" ELSE "up"
      /\ \A o \in SwapBoots \ {b} : boot'[o] = boot[o]
      /\ boot[b] = "down"
  BY <1>1 DEF SeeSeed
<1>3. bootsMet' \in BOOLEAN
      /\ (~ bootsMet' => ~ bootsMet /\ ~ (reversals = 0 /\ \E o \in SwapBoots : boot[o] = "reverses"))
  BY <1>1 DEF SeeSeed
<1>4. SeedOnce'
  BY <1>1, <1>2, <1>3 DEF HouseIInv, SeedOnce
<1> QED BY <1>1, <1>2, <1>3, <1>4, AsideKeepsInv

\* ... and reverses it.
LEMMA ReverseKeepsInv ==
    ASSUME HouseAssumption, HouseIInv, NEW b \in SwapBoots, ReverseSeed(b)
    PROVE  HouseIInv'
<1>1. /\ UNCHANGED <<price, swapReq, swaps, points, cutShort, bootsMet>> /\ reversals' = reversals + 1
      /\ boot \in [SwapBoots -> {"down", "reverses", "up"}] /\ reversals \in Nat /\ bootsMet \in BOOLEAN
      /\ led \in Ledgers /\ price \in Prices
  BY DEF ReverseSeed, HouseIInv, HouseTypeOK
<1>2. /\ boot' \in [SwapBoots -> {"down", "reverses", "up"}] /\ boot'[b] = "up"
      /\ \A o \in SwapBoots \ {b} : boot'[o] = boot[o]
      /\ boot[b] = "reverses"
  BY <1>1 DEF ReverseSeed
<1>3. SeedOnce'
  BY <1>1, <1>2 DEF HouseIInv, SeedOnce
<1>4. PICK e : e = Entry(HouseTo, -LegacySeed, "ADJUSTMENT", NoRef)
  OBVIOUS
<1>5. e \in Entries /\ e.wallet = HouseTo
  BY <1>4 DEF Entry, Entries, HouseAssumption
<1>6. led' = Posted(led, e)
  BY <1>4 DEF ReverseSeed
<1>7. Posted(led, e) \in Ledgers /\ \A w \in Wallets \ {e.wallet} : Posted(led, e).balance[w] = led.balance[w]
  BY <1>1, <1>5, PostedChanges
<1>8. {UserFrom, CaixaFrom, HouseFrom, UserTo} \subseteq Wallets \ {HouseTo}
  BY DEF HouseAssumption
<1>9. led' \in Ledgers /\ \A w \in {UserFrom, CaixaFrom, HouseFrom, UserTo} : led'.balance[w] = led.balance[w]
  BY <1>5, <1>6, <1>7, <1>8
<1> QED BY <1>1, <1>2, <1>3, <1>9, AsideKeepsInv

\* A key converts once, at what was quoted and no less than the minimum, and is
\* awarded or cut short (db/swap.rs), for any requests, keys, prices and boots.
THEOREM HouseInvariant == HouseSpec => []HouseInv
<1>1. HouseInit => HouseIInv
  BY HouseAssumption, HouseStarts
<1>2. HouseIInv /\ [HouseNext]_houseVars => HouseIInv'
  <2> SUFFICES ASSUME HouseIInv, [HouseNext]_houseVars PROVE HouseIInv'
    OBVIOUS
  <2> USE HouseAssumption
  <2>1. ASSUME NEW r \in SwapRequests, QuoteAndFind(r) PROVE HouseIInv'
    BY <2>1, QuoteKeepsInv
  <2>2. ASSUME NEW r \in SwapRequests, ExecuteSwap(r) PROVE HouseIInv'
    <3>1. swapReq[r].at = "tx" /\ UNCHANGED <<price, points, cutShort, boot, reversals, bootsMet>>
      BY <2>2 DEF ExecuteSwap
    <3>2. CASE swaps[KeyOf[r]] # NoSwap /\ swapReq' = [swapReq EXCEPT ![r].at = "found"] /\ UNCHANGED <<led, swaps>>
      BY <3>1, <3>2, ExecuteOldKeepsInv
    <3>3. CASE swapReq' = [swapReq EXCEPT ![r].at = "failed"] /\ UNCHANGED <<led, swaps>>
      BY <3>1, <3>3, ExecuteOldKeepsInv
    <3>4. CASE /\ swaps[KeyOf[r]] = NoSwap /\ PostEach(Conversion(r))
               /\ swaps' = [swaps EXCEPT ![KeyOf[r]] = [by |-> r, price |-> swapReq[r].price,
                                                        to |-> ComputeSwap(AmountOf[r], swapReq[r].price)]]
               /\ swapReq' = [swapReq EXCEPT ![r].at = "created"]
      BY <3>1, <3>4, ExecuteNewKeepsInv
    <3> QED BY <2>2, <3>2, <3>3, <3>4, Zenon DEF ExecuteSwap
  <2>3. ASSUME NEW r \in SwapRequests, AwardSwap(r) PROVE HouseIInv'
    BY <2>3, AwardKeepsInv
  <2>4. ASSUME NEW r \in SwapRequests, HandlerDies(r) PROVE HouseIInv'
    BY <2>4, DeathKeepsInv
  <2>5. CASE PriceMoves
    BY <2>5, AsideKeepsInv DEF PriceMoves, HouseIInv, HouseTypeOK, SeedOnce
  <2>6. CASE TransferBetweenKinds(UserFrom, CaixaFrom, 1) \/ TransferBetweenKinds(CaixaFrom, UserFrom, 1)
    <3>1. UserFrom # CaixaFrom
      BY DEF HouseAssumption
    <3> QED BY <2>6, <3>1, TransferKeepsInv
  <2>7. ASSUME NEW b \in SwapBoots, SeeSeed(b) PROVE HouseIInv'
    BY <2>7, SeeKeepsInv
  <2>8. ASSUME NEW b \in SwapBoots, ReverseSeed(b) PROVE HouseIInv'
    BY <2>8, ReverseKeepsInv
  <2>9. CASE UNCHANGED houseVars
    BY <2>9 DEF houseVars, HouseIInv, HouseTypeOK, QuotesKept, SwapsAsQuoted, AnswersHold, SwapBooks,
                RetriesAnswered, SwapsAwarded, Answered, SeedOnce
  <2> QED BY <2>1, <2>2, <2>3, <2>4, <2>5, <2>6, <2>7, <2>8, <2>9 DEF HouseNext
<1> QED BY <1>1, <1>2, HouseIInvIsEnough, PTL DEF HouseSpec
-----------------------------------------------------------------------------
(***************************************************************************)
(* Reward programs.                                                        *)
(***************************************************************************)
-----------------------------------------------------------------------------
\* What the types say of a worker.
LEMMA TickFields ==
    ASSUME RewardTypeOK, NEW w \in Workers
    PROVE  /\ tick[w] \in Ticks /\ tick[w].left \subseteq Programs
           /\ Distributing(w) => /\ tick[w].program \in Programs /\ tick[w].now \in 0..Horizon
                                 /\ tick[w].finished \in BOOLEAN
           /\ tick[w].at = "weigh" => tick[w].emission \in Nat
           /\ tick[w].at = "pay" => tick[w].shares \in [Users -> Nat]
<1>1. tick[w] \in Ticks
  BY DEF RewardTypeOK
<1> DEFINE t == tick[w]
<1>2. CASE t \in [at : {"idle", "listed"}, left : SUBSET Programs]
  BY <1>1, <1>2 DEF Distributing
<1>3. CASE t \in [at : {"weigh"}, left : SUBSET Programs, program : Programs, now : 0..Horizon,
                  finished : BOOLEAN, emission : Nat]
  BY <1>1, <1>3 DEF Distributing
<1>4. CASE t \in [at : {"pay"}, left : SUBSET Programs, program : Programs, now : 0..Horizon,
                  finished : BOOLEAN, shares : [Users -> Nat]]
  BY <1>1, <1>4 DEF Distributing
<1> QED BY <1>1, <1>2, <1>3, <1>4 DEF Ticks

\* A program has covered more, the later it is.
LEMMA CoveredGrows ==
    ASSUME RewardAssumption, NEW p \in Programs, NEW a \in Nat, NEW b \in Nat, a <= b
    PROVE  /\ Covered(p, a) \in Nat /\ Covered(p, b) \in Nat /\ Covered(p, a) <= Covered(p, b)
           /\ Emission[p] * Covered(p, a) \in Nat /\ Emission[p] * Covered(p, b) \in Nat
           /\ Emission[p] * Covered(p, a) <= Emission[p] * Covered(p, b)
<1>1. StartAt[p] \in Nat /\ EndAt[p] \in Nat /\ Emission[p] \in Nat
  BY DEF RewardAssumption
<1>2. Covered(p, a) \in Nat /\ Covered(p, b) \in Nat /\ Covered(p, a) <= Covered(p, b)
  BY <1>1 DEF Covered
<1> QED BY <1>1, <1>2, MulNat, MulMono

\* What is due is no more than the rate for what will be covered.
LEMMA DueIsCovered ==
    ASSUME RewardAssumption, RewardTypeOK, NEW p \in Programs
    PROVE  Due(p) \in Nat /\ Due(p) <= Emission[p] * Covered(p, clock)
<1>1. /\ StartAt[p] \in Nat /\ EndAt[p] \in Nat /\ Emission[p] \in Nat
      /\ clock \in Nat /\ program[p].last \in Nat
  BY DEF RewardAssumption, RewardTypeOK
<1>2. From(p) \in Nat /\ From(p) >= StartAt[p] /\ UntilEnd(p) \in Nat
  BY <1>1 DEF From, UntilEnd
<1>3. Covered(p, clock) \in Nat
  BY <1>1, CoveredGrows
<1>4. CASE UntilEnd(p) > From(p)
  <2>1. UntilEnd(p) - From(p) \in Nat /\ UntilEnd(p) - From(p) <= Covered(p, clock)
    BY <1>1, <1>2, <1>4 DEF UntilEnd, Covered
  <2>2. /\ Emission[p] * (UntilEnd(p) - From(p)) \in Nat
        /\ Emission[p] * (UntilEnd(p) - From(p)) <= Emission[p] * Covered(p, clock)
    BY <1>1, <1>3, <2>1, MulNat, MulMono
  <2> QED BY <1>4, <2>2 DEF Due
<1>5. CASE ~ UntilEnd(p) > From(p)
  <2>1. Due(p) = 0
    BY <1>5 DEF Due
  <2>2. Emission[p] * Covered(p, clock) \in Nat
    BY <1>1, <1>3, MulNat
  <2> QED BY <2>1, <2>2
<1> QED BY <1>4, <1>5

\* Payments and books stay as they are while the ledger and the accruals do.
LEMMA QuietBooks ==
    ASSUME RewardInv, UNCHANGED <<led, accrued, brought>>
    PROVE  OnePayment' /\ RewardsBacked' /\ \A p \in Programs : PaidBy(p)' = PaidBy(p)
  BY DEF RewardInv, OnePayment, RewardsBacked, PaidBy, Recorded, Funds

\* A program whose clock moves on without a payment stays within its rate.
LEMMA QuietEmission ==
    ASSUME RewardAssumption, RewardInv, UNCHANGED accrued,
           \A p \in Programs : /\ program'[p].last \in Nat
                               /\ program[p].last <= program'[p].last
    PROVE  WithinEmission'
<1> SUFFICES ASSUME NEW p \in Programs
             PROVE  PaidBy(p)' <= Emission[p] * Covered(p, program'[p].last)
  BY DEF WithinEmission, Covered
<1>1. PaidBy(p)' = PaidBy(p)
  BY DEF PaidBy
<1>2. PaidBy(p) <= Emission[p] * Covered(p, program[p].last)
  BY DEF RewardInv, WithinEmission
<1>3. PaidBy(p) \in Nat
  <2>1. accrued[p] \in [Users -> Nat]
    BY DEF RewardInv, RewardTypeOK
  <2> QED BY <2>1, SumNat DEF PaidBy, RewardAssumption
<1>4. program[p].last \in Nat
  BY DEF RewardInv, RewardTypeOK
<1>5. /\ Emission[p] * Covered(p, program[p].last) \in Nat
      /\ Emission[p] * Covered(p, program'[p].last) \in Nat
      /\ Emission[p] * Covered(p, program[p].last) <= Emission[p] * Covered(p, program'[p].last)
  BY <1>4, CoveredGrows
<1>6. \A a, b, c \in Nat : a <= b /\ b <= c => a <= c
  OBVIOUS
<1> QED BY <1>1, <1>2, <1>3, <1>5, <1>6

\* The distributions under way stand when no worker moves and no program does.
LEMMA DistributionsStay ==
    ASSUME RewardTypeOK, DistributionsStand, UNCHANGED tick, clock' \in Nat, clock <= clock',
           \A p \in Programs : program'[p].last = program[p].last
    PROVE  DistributionsStand'
<1>1. clock \in Nat
  BY DEF RewardTypeOK
<1>2. ASSUME NEW w \in Workers, Distributing(w)' PROVE DistributionStands(w)'
  <2>1. Distributing(w) /\ tick[w].program \in Programs /\ tick[w].now \in Nat
    BY <1>2, TickFields DEF Distributing
  <2>2. DistributionStands(w)
    BY <2>1 DEF DistributionsStand
  <2>3. program'[tick[w].program].last = program[tick[w].program].last
    BY <2>1
  <2> QED BY <1>1, <2>1, <2>2, <2>3 DEF DistributionStands, Distributing, Covered
<1>3. ASSUME NEW p \in Programs PROVE (program[p].last <= clock \/ program[p].last = StartAt[p])'
  <2>1. program[p].last \in Nat
    BY DEF RewardTypeOK
  <2> QED BY <1>1, <2>1 DEF DistributionsStand
<1> QED BY <1>2, <1>3 DEF DistributionsStand

\* ... and when one worker moves, with a program that is nobody else's.
LEMMA OneDistributionMoves ==
    ASSUME RewardTypeOK, DistributionsStand, UNCHANGED clock, NEW w \in Workers, NEW p \in Programs,
           \A v \in Workers \ {w} : tick'[v] = tick[v] /\ (Distributing(v) => tick[v].program # p),
           \A q \in Programs \ {p} : program'[q] = program[q],
           program'[p].last <= clock \/ program'[p].last = program[p].last,
           Distributing(w)' => tick'[w].program = p /\ DistributionStands(w)'
    PROVE  DistributionsStand'
<1>1. ASSUME NEW v \in Workers, Distributing(v)' PROVE DistributionStands(v)'
  <2>1. CASE v = w
    BY <1>1, <2>1
  <2>2. CASE v # w
    <3>1. tick'[v] = tick[v] /\ Distributing(v) /\ tick[v].program # p
      BY <1>1, <2>2 DEF Distributing
    <3>2. tick[v].program \in Programs /\ DistributionStands(v)
      BY <3>1, TickFields DEF DistributionsStand
    <3>3. program'[tick[v].program] = program[tick[v].program]
      BY <3>1, <3>2
    <3>4. ASSUME NEW u \in Workers \ {v}, Distributing(u)' PROVE tick'[u].program # tick'[v].program
      BY <3>1, <3>2, <3>4 DEF DistributionStands, Distributing
    <3> QED BY <3>1, <3>2, <3>3, <3>4 DEF DistributionStands, Covered
  <2> QED BY <2>1, <2>2
<1>2. ASSUME NEW q \in Programs PROVE (program[q].last <= clock \/ program[q].last = StartAt[q])'
  BY DEF DistributionsStand
<1> QED BY <1>1, <1>2 DEF DistributionsStand

\* Nothing is accrued, and nothing has come in.
LEMMA RewardStarts == ASSUME RewardAssumption, RewardInit PROVE RewardInv
<1>1. RewardTypeOK
  <2>1. led \in Ledgers
    BY DEF RewardInit, RewardAssumption, Ledgers
  <2>2. tick \in [Workers -> Ticks]
    BY DEF RewardInit, Resting, Ticks
  <2> QED BY <2>1, <2>2 DEF RewardInit, RewardTypeOK, RewardAssumption
<1>2. DistributionsStand
  BY DEF RewardInit, Resting, DistributionsStand, Distributing
<1>3. \A p \in Programs : PaidBy(p) = 0
  <2> SUFFICES ASSUME NEW p \in Programs PROVE PaidBy(p) = 0
    OBVIOUS
  <2>1. \A u \in Users : accrued[p][u] = 0
    BY DEF RewardInit
  <2> QED BY <2>1, SumZero DEF PaidBy, RewardAssumption
<1>4. WithinEmission
  <2> SUFFICES ASSUME NEW p \in Programs PROVE 0 <= Emission[p] * Covered(p, program[p].last)
    BY <1>3 DEF WithinEmission
  <2>1. program[p].last \in Nat
    BY <1>1 DEF RewardTypeOK
  <2>2. program[p].last <= program[p].last
    BY <2>1
  <2>3. Emission[p] * Covered(p, program[p].last) \in Nat
    BY <2>1, <2>2, CoveredGrows
  <2> QED BY <2>3
<1>5. OnePayment
  BY <1>3 DEF OnePayment, RewardInit, Recorded
<1>6. RewardsBacked
  <2>1. Funds(RewardBalance) \in Int
    <3> DEFINE f == [u \in Users |-> RewardBalance[WalletOf[u]]]
    <3>1. Summands(f, Users) /\ RewardBalance[RewardsWallet] \in Int
      BY DEF Summands, RewardAssumption
    <3> QED BY <3>1, SumType DEF Funds
  <2> QED BY <2>1 DEF RewardsBacked, RewardInit
<1> QED BY <1>1, <1>2, <1>4, <1>5, <1>6 DEF RewardInv

\* A worker that holds nothing lists, ends, gives up or goes on: no program moves.
LEMMA WorkerMoves ==
    ASSUME RewardAssumption, RewardInv, UNCHANGED <<led, clock, program, accrued, brought>>,
           NEW w \in Workers, NEW t \in Ticks, t.at \in {"idle", "listed"},
           tick' = [tick EXCEPT ![w] = t]
    PROVE  RewardInv'
<1>1. RewardTypeOK'
  BY DEF RewardInv, RewardTypeOK
<1>2. ~ Distributing(w)' /\ \A v \in Workers \ {w} : tick'[v] = tick[v]
  BY DEF Distributing, RewardInv, RewardTypeOK
<1>3. DistributionsStand'
  <2>1. ASSUME NEW v \in Workers, Distributing(v)' PROVE DistributionStands(v)'
    <3>1. v # w /\ tick'[v] = tick[v] /\ Distributing(v)
      BY <1>2, <2>1 DEF Distributing
    <3>2. DistributionStands(v)
      BY <3>1 DEF RewardInv, DistributionsStand
    <3>3. ASSUME NEW u \in Workers \ {v}, Distributing(u)' PROVE tick'[u].program # tick'[v].program
      BY <1>2, <3>1, <3>2, <3>3 DEF DistributionStands, Distributing
    <3> QED BY <3>1, <3>2, <3>3 DEF DistributionStands
  <2> QED BY <2>1 DEF RewardInv, DistributionsStand
<1>4. OnePayment' /\ RewardsBacked'
  BY QuietBooks
<1>5. WithinEmission'
  BY DEF RewardInv, WithinEmission, PaidBy
<1> QED BY <1>1, <1>3, <1>4, <1>5 DEF RewardInv

\* A worker on its way between two programs.
LEMMA ListedIsATick ==
    ASSUME RewardTypeOK, NEW w \in Workers, NEW p
    PROVE  [at |-> "listed", left |-> tick[w].left \ {p}] \in Ticks
  BY TickFields DEF Ticks

\* A tick begins, and ends.
LEMMA ListKeepsRewards ==
    ASSUME RewardAssumption, RewardInv, NEW w \in Workers, ListPrograms(w) \/ TickEnds(w)
    PROVE  RewardInv'
<1>1. CASE ListPrograms(w)
  <2>1. PICK t : t = [at |-> "listed", left |-> {p \in Programs : program[p].active}]
    OBVIOUS
  <2>2. t \in Ticks /\ t.at = "listed"
    BY <2>1 DEF Ticks
  <2> QED BY <1>1, <2>1, <2>2, WorkerMoves DEF ListPrograms
<1>2. CASE TickEnds(w)
  <2>1. Resting \in Ticks /\ Resting.at = "idle"
    BY DEF Resting, Ticks
  <2> QED BY <1>2, <2>1, WorkerMoves DEF TickEnds
<1> QED BY <1>1, <1>2

\* A distribution that fails has changed nothing.
LEMMA FailureKeepsRewards ==
    ASSUME RewardAssumption, RewardInv, NEW w \in Workers, DistributionFails(w)
    PROVE  RewardInv'
<1>1. PICK t : t = [at |-> "listed", left |-> tick[w].left \ {tick[w].program}]
  OBVIOUS
<1>2. t \in Ticks /\ t.at = "listed"
  BY <1>1, ListedIsATick DEF RewardInv
<1> QED BY <1>1, <1>2, WorkerMoves DEF DistributionFails, NextProgram

\* The clock of a program that a worker has to itself moves on to a moment
\* that has come, and nothing is paid.
LEMMA AdvanceKeepsRewards ==
    ASSUME RewardAssumption, RewardInv, UNCHANGED <<led, clock, accrued, brought>>,
           NEW w \in Workers, NEW p \in Programs, NEW now \in Nat, NEW finished \in BOOLEAN,
           \A v \in Workers \ {w} : Distributing(v) => tick[v].program # p,
           program[p].last <= now, now <= clock, Advance(p, now, finished), NextProgram(w, p)
    PROVE  RewardInv'
<1>1. /\ program \in [Programs -> [active : BOOLEAN, last : Nat]]
      /\ tick \in [Workers -> Ticks]
  BY DEF RewardInv, RewardTypeOK
<1>2. /\ program'[p].last = now /\ \A q \in Programs \ {p} : program'[q] = program[q]
      /\ program' \in [Programs -> [active : BOOLEAN, last : Nat]]
  BY <1>1 DEF Advance
<1>3. PICK t : t = [at |-> "listed", left |-> tick[w].left \ {p}]
  OBVIOUS
<1>4. t \in Ticks /\ t.at = "listed" /\ tick' = [tick EXCEPT ![w] = t]
  BY <1>3, ListedIsATick DEF RewardInv, NextProgram
<1>5. /\ tick' \in [Workers -> Ticks] /\ ~ Distributing(w)'
      /\ \A v \in Workers \ {w} : tick'[v] = tick[v]
  BY <1>1, <1>4 DEF Distributing
<1>6. RewardTypeOK'
  BY <1>2, <1>5 DEF RewardInv, RewardTypeOK
<1>7. DistributionsStand'
  <2>1. RewardTypeOK /\ DistributionsStand
    BY DEF RewardInv
  <2> QED BY <1>2, <1>5, <2>1, OneDistributionMoves
<1>8. OnePayment' /\ RewardsBacked'
  BY QuietBooks
<1>9. WithinEmission'
  <2>1. \A q \in Programs : program'[q].last \in Nat /\ program[q].last <= program'[q].last
    BY <1>1, <1>2
  <2> QED BY <2>1, QuietEmission
<1> QED BY <1>6, <1>7, <1>8, <1>9 DEF RewardInv

\* The row of a program is locked and read: it has nothing to pay, or the
\* emission of a window that nobody else will close.
LEMMA LockKeepsRewards ==
    ASSUME RewardAssumption, RewardInv, NEW w \in Workers, NEW p \in Programs, LockProgram(w, p)
    PROVE  RewardInv'
<1>1. /\ UNCHANGED <<led, clock, accrued, brought>>
      /\ \A v \in Workers \ {w} : Distributing(v) => tick[v].program # p
  BY DEF LockProgram, RowFree
<1>2. /\ clock \in Nat /\ clock \in 0..Horizon /\ program[p].last \in Nat /\ StartAt[p] \in Nat
      /\ tick \in [Workers -> Ticks] /\ led.balance[RewardsWallet] \in Int
      /\ Finished(p) \in BOOLEAN
  BY DEF RewardInv, RewardTypeOK, RewardAssumption, Ledgers, Finished
<1>3. clock >= StartAt[p] => program[p].last <= clock
  BY <1>2 DEF RewardInv, DistributionsStand
<1>4. CASE NextProgram(w, p) /\ UNCHANGED program
  <2>1. PICK t : t = [at |-> "listed", left |-> tick[w].left \ {p}]
    OBVIOUS
  <2>2. t \in Ticks /\ t.at = "listed"
    BY <2>1, ListedIsATick DEF RewardInv
  <2> QED BY <1>1, <1>4, <2>1, <2>2, WorkerMoves DEF NextProgram
<1>5. CASE clock >= StartAt[p] /\ NextProgram(w, p) /\ Advance(p, clock, Finished(p))
  BY <1>1, <1>2, <1>3, <1>5, AdvanceKeepsRewards
<1>6. CASE /\ clock >= StartAt[p] /\ Due(p) > 0 /\ led.balance[RewardsWallet] > 0
           /\ tick' = [tick EXCEPT ![w] =
                 [at |-> "weigh", left |-> @.left, program |-> p, now |-> clock, finished |-> Finished(p),
                  emission |-> IF Due(p) > led.balance[RewardsWallet] THEN led.balance[RewardsWallet]
                                                                      ELSE Due(p)]]
           /\ UNCHANGED program
  <2>1. PICK e : e = IF Due(p) > led.balance[RewardsWallet] THEN led.balance[RewardsWallet] ELSE Due(p)
    OBVIOUS
  <2>2. Due(p) \in Nat /\ Due(p) <= Emission[p] * Covered(p, clock)
    BY DueIsCovered DEF RewardInv
  <2>3. Emission[p] * Covered(p, clock) \in Nat
    <3>1. clock <= clock
      BY <1>2
    <3> QED BY <1>2, <3>1, CoveredGrows
  <2>4. e \in Nat /\ e <= Emission[p] * Covered(p, clock)
    BY <1>2, <1>6, <2>1, <2>2, <2>3
  <2>5. PICK t : t = [at |-> "weigh", left |-> tick[w].left, program |-> p, now |-> clock,
                      finished |-> Finished(p), emission |-> e]
    OBVIOUS
  <2>6. tick' = [tick EXCEPT ![w] = t]
    BY <1>6, <2>1, <2>5
  <2>7. t \in Ticks
    <3>1. tick[w].left \subseteq Programs
      BY TickFields DEF RewardInv
    <3> QED BY <1>2, <2>4, <2>5, <3>1 DEF Ticks
  <2>8. /\ tick' \in [Workers -> Ticks] /\ tick'[w] = t
        /\ \A v \in Workers \ {w} : tick'[v] = tick[v]
    BY <1>2, <2>6, <2>7
  <2>9. RewardTypeOK'
    BY <1>1, <1>6, <2>8 DEF RewardInv, RewardTypeOK
  <2>10. DistributionStands(w)'
    <3>1. t.at = "weigh" /\ t.program = p /\ t.now = clock /\ t.emission = e
      BY <2>5
    <3>2. program'[p].last <= clock /\ clock' = clock /\ clock <= clock
      BY <1>1, <1>2, <1>3, <1>6
    <3>3. \A v \in Workers \ {w} : Distributing(v)' => tick'[v].program # p
      BY <1>1, <2>8 DEF Distributing
    <3> QED BY <2>4, <2>8, <3>1, <3>2, <3>3 DEF DistributionStands, Covered
  <2>11. DistributionsStand'
    <3>1. tick'[w].program = p
      BY <2>5, <2>8
    <3>2. RewardTypeOK /\ DistributionsStand
      BY DEF RewardInv
    <3> QED BY <1>1, <1>6, <2>8, <2>10, <3>1, <3>2, OneDistributionMoves
  <2>12. WithinEmission'
    BY <1>1, <1>6 DEF RewardInv, WithinEmission, PaidBy
  <2>13. OnePayment' /\ RewardsBacked'
    BY <1>1, QuietBooks
  <2> QED BY <2>9, <2>11, <2>12, <2>13 DEF RewardInv
<1> QED BY <1>4, <1>5, <1>6 DEF LockProgram

\* The users are weighed: what they are to share is no more than the emission.
LEMMA WeighKeepsRewards ==
    ASSUME RewardAssumption, RewardInv, NEW w \in Workers, WeighUsers(w)
    PROVE  RewardInv'
<1> DEFINE p == tick[w].program
<1>1. UNCHANGED <<led, clock, accrued, brought>> /\ tick[w].at = "weigh" /\ Distributing(w)
  BY DEF WeighUsers, Distributing
<1>2. /\ RewardTypeOK /\ DistributionsStand /\ tick \in [Workers -> Ticks]
      /\ program[p].last \in Nat /\ clock \in Nat
  <2>1. p \in Programs
    BY <1>1, TickFields DEF RewardInv
  <2> QED BY <2>1 DEF RewardInv, RewardTypeOK
<1>3. /\ p \in Programs /\ tick[w].now \in 0..Horizon /\ tick[w].now \in Nat
      /\ tick[w].finished \in BOOLEAN /\ tick[w].emission \in Nat /\ tick[w].left \subseteq Programs
  BY <1>1, <1>2, TickFields
<1>4. /\ program[p].last <= tick[w].now /\ tick[w].now <= clock
      /\ \A v \in Workers \ {w} : Distributing(v) => tick[v].program # p
      /\ tick[w].emission <= Emission[p] * Covered(p, tick[w].now)
  BY <1>1, <1>2 DEF DistributionsStand, DistributionStands
<1>5. PICK shares : shares = [u \in Users |-> Share(u, tick[w].emission)]
  OBVIOUS
<1>6. /\ shares \in [Users -> Nat] /\ SumFunctionOnSet(shares, Users) \in Nat
      /\ SumFunctionOnSet(shares, Users) <= tick[w].emission
  <2>1. IsFiniteSet(Users) /\ \A u \in Users : Weights[u] \in Nat
    <3>1. ASSUME NEW u \in Users PROVE Weights[u] \in Nat
      <4>1. led.balance[WalletOf[u]] \in Int /\ Staked[u] \in Nat
        BY DEF RewardInv, RewardTypeOK, Ledgers, RewardAssumption
      <4> QED BY <4>1 DEF Weights
    <3> QED BY <3>1 DEF RewardAssumption
  <2>2. CASE TotalWeight = 0
    <3>1. \A u \in Users : shares[u] = 0
      BY <1>5, <2>2 DEF Share
    <3>2. SumFunctionOnSet(shares, Users) = 0
      BY <2>1, <3>1, SumZero
    <3> QED BY <1>3, <1>5, <2>2, <3>2 DEF Share
  <2>3. CASE TotalWeight # 0
    <3>1. \A u \in Users : shares[u] = (tick[w].emission * Weights[u]) \div TotalWeight
      BY <1>5, <2>3 DEF Share
    <3>2. TotalWeight = SumFunctionOnSet(Weights, Users)
      BY DEF TotalWeight
    <3>3. /\ \A u \in Users : shares[u] \in Nat
          /\ SumFunctionOnSet(shares, Users) <= tick[w].emission
      BY <1>3, <2>1, <2>3, <3>1, <3>2, SharesAtMost
    <3>4. SumFunctionOnSet(shares, Users) \in Nat
      BY <2>1, <3>3, SumNat
    <3> QED BY <1>5, <3>3, <3>4
  <2> QED BY <2>2, <2>3
<1>7. CASE NextProgram(w, p) /\ Advance(p, tick[w].now, tick[w].finished)
  BY <1>1, <1>3, <1>4, <1>7, AdvanceKeepsRewards
<1>8. CASE /\ \E u \in Users : shares[u] > 0
           /\ tick' = [tick EXCEPT ![w] =
                 [at |-> "pay", left |-> tick[w].left, program |-> p, now |-> tick[w].now,
                  finished |-> tick[w].finished, shares |-> shares]]
           /\ UNCHANGED program
  <2>1. PICK t : t = [at |-> "pay", left |-> tick[w].left, program |-> p, now |-> tick[w].now,
                      finished |-> tick[w].finished, shares |-> shares]
    OBVIOUS
  <2>2. t \in Ticks
    BY <1>3, <1>6, <2>1 DEF Ticks
  <2>3. tick' = [tick EXCEPT ![w] = t]
    BY <1>8, <2>1
  <2>4. /\ tick' \in [Workers -> Ticks] /\ tick'[w] = t
        /\ \A v \in Workers \ {w} : tick'[v] = tick[v]
    BY <1>2, <2>2, <2>3
  <2>5. RewardTypeOK'
    BY <1>1, <1>2, <1>8, <2>4 DEF RewardTypeOK
  <2>6. t.at = "pay" /\ t.program = p /\ t.now = tick[w].now /\ t.shares = shares
    BY <2>1
  <2>7. DistributionStands(w)'
    <3>1. program'[p].last <= tick[w].now /\ tick[w].now <= clock'
      BY <1>1, <1>4, <1>8
    <3>2. \A v \in Workers \ {w} : Distributing(v)' => tick'[v].program # p
      BY <1>4, <2>4 DEF Distributing
    <3>3. SumFunctionOnSet(shares, Users) <= Emission[p] * Covered(p, tick[w].now)
      <4>1. Emission[p] * Covered(p, tick[w].now) \in Nat
        <5>1. tick[w].now <= tick[w].now
          BY <1>3
        <5> QED BY <1>3, <5>1, CoveredGrows
      <4>2. \A a, b, c \in Nat : a <= b /\ b <= c => a <= c
        OBVIOUS
      <4> QED BY <1>3, <1>4, <1>6, <4>1, <4>2
    <3> QED BY <1>8, <2>4, <2>6, <3>1, <3>2, <3>3 DEF DistributionStands, Covered
  <2>8. DistributionsStand'
    <3>1. tick'[w].program = p
      BY <2>4, <2>6
    <3> QED BY <1>1, <1>2, <1>3, <1>4, <1>8, <2>4, <2>7, <3>1, OneDistributionMoves
  <2>9. WithinEmission'
    BY <1>1, <1>8 DEF RewardInv, WithinEmission, PaidBy
  <2>10. OnePayment' /\ RewardsBacked'
    BY <1>1, QuietBooks
  <2> QED BY <2>5, <2>8, <2>9, <2>10 DEF RewardInv
<1> QED BY <1>5, <1>7, <1>8 DEF WeighUsers

\* An administrator switches a program off, or on again.
LEMMA SetActiveKeepsRewards ==
    ASSUME RewardAssumption, RewardInv, NEW p \in Programs, SetActive(p)
    PROVE  RewardInv'
<1>1. /\ RewardTypeOK /\ DistributionsStand
      /\ program \in [Programs -> [active : BOOLEAN, last : Nat]] /\ clock \in Nat
  BY DEF RewardInv, RewardTypeOK
<1>2. /\ UNCHANGED <<led, clock, accrued, tick, brought>>
      /\ program' = [program EXCEPT ![p].active = ~ @]
  BY DEF SetActive
<1>3. /\ program' \in [Programs -> [active : BOOLEAN, last : Nat]]
      /\ \A q \in Programs : program'[q].last = program[q].last
  <2>1. program[p].active \in BOOLEAN /\ program[p].last \in Nat
    BY <1>1
  <2>2. PICK r : r = [program[p] EXCEPT !.active = ~ program[p].active]
    OBVIOUS
  <2>3. r \in [active : BOOLEAN, last : Nat] /\ r.last = program[p].last
    BY <1>1, <2>1, <2>2
  <2>4. program' = [program EXCEPT ![p] = r]
    BY <1>2, <2>2
  <2> QED BY <1>1, <2>3, <2>4
<1>4. RewardTypeOK'
  BY <1>2, <1>3 DEF RewardInv, RewardTypeOK
<1>5. DistributionsStand'
  <2>1. clock' \in Nat /\ clock <= clock'
    BY <1>1, <1>2
  <2> QED BY <1>1, <1>2, <1>3, <2>1, DistributionsStay
<1>6. WithinEmission'
  BY <1>2, <1>3 DEF RewardInv, WithinEmission, PaidBy
<1>7. OnePayment' /\ RewardsBacked'
  BY <1>2, QuietBooks
<1> QED BY <1>4, <1>5, <1>6, <1>7 DEF RewardInv

\* Time passes under the distributions.
LEMMA TimeKeepsRewards ==
    ASSUME RewardAssumption, RewardInv, TimePasses
    PROVE  RewardInv'
<1>1. RewardTypeOK /\ DistributionsStand /\ clock \in 0..Horizon /\ Horizon \in Nat
  BY DEF RewardInv, RewardTypeOK, RewardAssumption
<1>2. /\ UNCHANGED <<led, program, accrued, tick, brought>>
      /\ clock' \in 0..Horizon /\ clock' \in Nat /\ clock <= clock'
  BY <1>1 DEF TimePasses
<1>3. RewardTypeOK'
  BY <1>2 DEF RewardInv, RewardTypeOK
<1>4. DistributionsStand'
  BY <1>1, <1>2, DistributionsStay
<1>5. WithinEmission'
  BY <1>2 DEF RewardInv, WithinEmission, PaidBy
<1>6. OnePayment' /\ RewardsBacked'
  BY <1>2, QuietBooks
<1> QED BY <1>3, <1>4, <1>5, <1>6 DEF RewardInv

\* What an entry of the house or of a user does to the funds.
LEMMA FundsOfOne ==
    ASSUME RewardAssumption, NEW l \in Ledgers, NEW e \in Entries,
           e.wallet = RewardsWallet \/ \E u \in Users : e.wallet = WalletOf[u]
    PROVE  /\ Funds(l.balance) \in Int
           /\ Funds(Posted(l, e).balance) = Funds(l.balance) + e.amount
<1> DEFINE f == [u \in Users |-> l.balance[WalletOf[u]]]
           h == [u \in Users |-> Posted(l, e).balance[WalletOf[u]]]
<1>1. /\ Posted(l, e) \in Ledgers
      /\ Posted(l, e).balance[e.wallet] = l.balance[e.wallet] + e.amount
      /\ \A w \in Wallets \ {e.wallet} : Posted(l, e).balance[w] = l.balance[w]
  BY PostedChanges
<1>2. /\ RewardsWallet \in Wallets /\ \A u \in Users : WalletOf[u] \in Wallets \ {RewardsWallet}
      /\ \A u, v \in Users : WalletOf[u] = WalletOf[v] => u = v
  BY DEF RewardAssumption
<1>3. Summands(f, Users) /\ Summands(h, Users)
  BY <1>1, <1>2 DEF Summands, Ledgers, RewardAssumption
<1>4. SumFunctionOnSet(f, Users) \in Int /\ SumFunctionOnSet(h, Users) \in Int
  BY <1>3, SumType
<1>5. /\ l.balance[RewardsWallet] \in Int /\ Posted(l, e).balance[RewardsWallet] \in Int
      /\ e.amount \in Int
  BY <1>1, <1>2 DEF Ledgers, Entries
<1>6. CASE e.wallet = RewardsWallet
  <2>1. \A u \in Users : f[u] = h[u]
    BY <1>1, <1>2, <1>6
  <2>2. SumFunctionOnSet(f, Users) = SumFunctionOnSet(h, Users)
    BY <1>3, <2>1, SumSame
  <2> QED BY <1>1, <1>4, <1>5, <1>6, <2>2 DEF Funds
<1>7. CASE \E u \in Users : e.wallet = WalletOf[u]
  <2>1. PICK u \in Users : e.wallet = WalletOf[u]
    BY <1>7
  <2>2. \A v \in Users \ {u} : h[v] = f[v]
    BY <1>1, <1>2, <2>1
  <2>3. SumFunctionOnSet(h, Users) = SumFunctionOnSet(f, Users) - f[u] + h[u]
    BY <1>3, <2>2, SumChange
  <2>4. f[u] \in Int /\ h[u] = f[u] + e.amount
    BY <1>1, <1>3, <2>1 DEF Summands
  <2>5. Posted(l, e).balance[RewardsWallet] = l.balance[RewardsWallet]
    BY <1>1, <1>2, <2>1
  <2> QED BY <1>4, <1>5, <2>3, <2>4, <2>5 DEF Funds
<1> QED BY <1>6, <1>7

\* Money that moves without a reference is nobody's reward.
LEMMA MoneyMoves ==
    ASSUME RewardAssumption, RewardInv, UNCHANGED <<clock, program, accrued, tick>>,
           led' \in Ledgers, led'.keys = led.keys, brought' \in 0..MaxBrought,
           Funds(led'.balance) = Funds(led.balance) + (brought' - brought)
    PROVE  RewardInv'
<1>1. /\ RewardTypeOK /\ DistributionsStand /\ clock \in Nat
      /\ clock' \in Nat /\ clock <= clock'
  BY DEF RewardInv, RewardTypeOK
<1>2. RewardTypeOK'
  BY DEF RewardInv, RewardTypeOK
<1>3. DistributionsStand'
  BY <1>1, DistributionsStay
<1>4. WithinEmission'
  BY DEF RewardInv, WithinEmission, PaidBy
<1>5. OnePayment'
  BY DEF RewardInv, OnePayment, PaidBy, Recorded
<1>6. RewardsBacked'
  <2>1. Funds(RewardBalance) \in Int
    <3> DEFINE f == [u \in Users |-> RewardBalance[WalletOf[u]]]
    <3>1. Summands(f, Users) /\ RewardBalance[RewardsWallet] \in Int
      BY DEF Summands, RewardAssumption
    <3> QED BY <3>1, SumType DEF Funds
  <2>2. Funds(led.balance) = Funds(RewardBalance) + brought /\ brought \in Nat /\ brought' \in Nat
    BY DEF RewardInv, RewardsBacked, RewardTypeOK, RewardAssumption
  <2>3. \A a, b, c, d \in Int : c = a + b => c + (d - b) = a + d
    OBVIOUS
  <2>4. Funds(led.balance) \in Int
    BY <2>1, <2>2
  <2>5. Funds(led'.balance) = Funds(RewardBalance) + brought'
    BY <2>1, <2>2, <2>3, <2>4
  <2> QED BY <2>5 DEF RewardsBacked, Funds
<1> QED BY <1>2, <1>3, <1>4, <1>5, <1>6 DEF RewardInv

\* A user or the house receives from outside.
LEMMA ReceiveKeepsRewards ==
    ASSUME RewardAssumption, RewardInv, NEW wallet, Receive(wallet),
           wallet = RewardsWallet \/ \E u \in Users : wallet = WalletOf[u]
    PROVE  RewardInv'
<1>1. PICK e : e = Entry(wallet, 1, "ADJUSTMENT", NoRef)
  OBVIOUS
<1>2. e \in Entries /\ e.wallet = wallet /\ e.amount = 1 /\ KeysOf(e) = {}
  <2>1. wallet \in Wallets /\ "ADJUSTMENT" \in Types
    BY DEF RewardAssumption
  <2> QED BY <1>1, <2>1 DEF Entry, Entries, KeysOf
<1>3. led \in Ledgers /\ led' = Posted(led, e) /\ UNCHANGED <<clock, program, accrued, tick>>
  BY <1>1 DEF Receive, Post, RewardInv, RewardTypeOK
<1>4. brought \in 0..MaxBrought /\ brought' = brought + 1 /\ brought' \in 0..MaxBrought
  BY DEF Receive, RewardInv, RewardTypeOK, RewardAssumption
<1>5. led' \in Ledgers /\ led'.keys = led.keys
  <2>1. led'.keys = led.keys \cup KeysOf(e)
    BY <1>3 DEF Posted
  <2> QED BY <1>2, <1>3, <2>1, PostedChanges
<1>6. Funds(led'.balance) = Funds(led.balance) + 1
  BY <1>2, <1>3, FundsOfOne
<1>7. brought' - brought = 1
  BY <1>4
<1> QED BY <1>3, <1>4, <1>5, <1>6, <1>7, MoneyMoves

\* The house pays a user.
LEMMA HousePaysKeepsRewards ==
    ASSUME RewardAssumption, RewardInv, NEW u \in Users, HousePays(u)
    PROVE  RewardInv'
<1>1. PICK a : a = Entry(RewardsWallet, -1, "SWAP_OUT", NoRef)
  OBVIOUS
<1>2. PICK b : b = Entry(WalletOf[u], 1, "SWAP_IN", NoRef)
  OBVIOUS
<1>3. /\ a \in Entries /\ a.wallet = RewardsWallet /\ a.amount = -1 /\ KeysOf(a) = {}
      /\ b \in Entries /\ b.wallet = WalletOf[u] /\ b.amount = 1 /\ KeysOf(b) = {}
  <2>1. RewardsWallet \in Wallets /\ WalletOf[u] \in Wallets /\ {"SWAP_OUT", "SWAP_IN"} \subseteq Types
    BY DEF RewardAssumption
  <2> QED BY <1>1, <1>2, <2>1 DEF Entry, Entries, KeysOf
<1>4. led \in Ledgers /\ UNCHANGED <<clock, program, accrued, tick, brought>>
  BY DEF HousePays, RewardInv, RewardTypeOK
<1>5. led' = Posted(Posted(led, a), b)
  <2>1. PostAll(led, <<a, b>>).ok /\ led' = PostAll(led, <<a, b>>).ledger
    BY <1>1, <1>2 DEF HousePays, PostEach
  <2> QED BY <1>3, <1>4, <2>1, PostAllTwo
<1>6. Posted(led, a) \in Ledgers /\ Posted(Posted(led, a), b) \in Ledgers
  BY <1>3, <1>4, PostedIsALedger
<1>7. led' \in Ledgers /\ led'.keys = led.keys
  <2>1. led'.keys = (led.keys \cup KeysOf(a)) \cup KeysOf(b)
    BY <1>5 DEF Posted
  <2> QED BY <1>3, <1>5, <1>6, <2>1
<1>8. Funds(led.balance) \in Int /\ Funds(Posted(led, a).balance) = Funds(led.balance) + (-1)
  BY <1>3, <1>4, FundsOfOne
<1>9. Funds(led'.balance) = Funds(Posted(led, a).balance) + 1
  BY <1>3, <1>5, <1>6, FundsOfOne
<1>10. brought \in 0..MaxBrought /\ brought' \in 0..MaxBrought /\ brought' - brought = 0
  BY <1>4 DEF RewardInv, RewardTypeOK, RewardAssumption
<1>11. Funds(led'.balance) = Funds(led.balance) + (brought' - brought)
  <2>1. PICK x, y, z : /\ x = Funds(Posted(led, a).balance) /\ y = Funds(led.balance)
                       /\ z = Funds(led'.balance)
    OBVIOUS
  <2>2. y \in Int /\ x = y + (-1) /\ z = x + 1
    BY <1>8, <1>9, <2>1
  <2>3. z = y + 0
    BY <2>2
  <2> QED BY <1>10, <2>1, <2>3
<1> QED BY <1>4, <1>7, <1>10, <1>11, MoneyMoves

\* What a distribution takes from the house, and gives to a user.
OfHouse(p, shares) ==
    Entry(RewardsWallet, - SumFunctionOnSet(shares, {u \in Users : shares[u] > 0}), "REWARD", p)
ToUser(p, shares, u) == Entry(WalletOf[u], shares[u], "REWARD", p)

Lists(es, p, shares) ==
    /\ es \in Seq(Entries) /\ Len(es) \in Nat
    /\ \A i, j \in 1..Len(es) : es[i].wallet = es[j].wallet => i = j
    /\ \A i \in 1..Len(es) :
          es[i] = OfHouse(p, shares) \/ \E u \in Users : shares[u] > 0 /\ es[i] = ToUser(p, shares, u)
    /\ \E i \in 1..Len(es) : es[i] = OfHouse(p, shares)
    /\ \A u \in Users : shares[u] > 0 => \E i \in 1..Len(es) : es[i] = ToUser(p, shares, u)

\* What a distribution credits, and the wallets it touches, each once.
LEMMA DistributionLists ==
    ASSUME RewardAssumption, NEW p \in Programs, NEW shares \in [Users -> Nat]
    PROVE  Lists(Distribution(p, shares), p, shares)
<1> DEFINE house == OfHouse(p, shares)
           es == Distribution(p, shares)
           To(u) == Entry(WalletOf[u], shares[u], "REWARD", p)
           paid == {u \in Users : shares[u] > 0}
           S == {To(u) : u \in paid}
           q == SetToSeq(S)
<1>1. /\ RewardsWallet \in Wallets /\ \A u \in Users : WalletOf[u] \in Wallets \ {RewardsWallet}
      /\ \A u, v \in Users : WalletOf[u] = WalletOf[v] => u = v
      /\ "REWARD" \in Types /\ p \in Refs /\ IsFiniteSet(Users)
  BY DEF RewardAssumption
<1>2. IsFiniteSet(paid) /\ IsFiniteSet(S)
  <2>1. IsFiniteSet(paid)
    BY <1>1, FS_Subset
  <2> DEFINE to == [u \in paid |-> To(u)]
  <2>2. to \in Surjection(paid, S)
    <3> HIDE DEF paid, To
    <3> QED BY DEF Surjection
  <2> HIDE DEF paid, S, to
  <2> QED BY <2>1, <2>2, FS_Surjection
<1>3. SumFunctionOnSet(shares, paid) \in Int
  <2>1. \A u \in paid : shares[u] \in Nat
    OBVIOUS
  <2> HIDE DEF paid
  <2>2. SumFunctionOnSet(shares, paid) \in Nat
    BY <1>2, <2>1, SumNat
  <2> QED BY <2>2
<1>4. /\ house \in Entries /\ house.wallet = RewardsWallet
      /\ \A u \in Users : To(u) \in Entries /\ To(u).wallet = WalletOf[u]
  BY <1>1, <1>3 DEF Entry, Entries, OfHouse
<1>5. /\ q \in Seq(S) /\ Len(q) = Cardinality(S) /\ Cardinality(S) \in Nat
      /\ \A i, j \in 1..Len(q) : q[i] = q[j] => i = j
      /\ \A x \in S : \E i \in 1..Len(q) : q[i] = x
  <2> HIDE DEF S
  <2> QED BY <1>2, SetToSeqLists, FS_CardinalityType
<1>6. es = <<house>> \o q
  BY DEF Distribution, OfHouse
<1>7. \A i \in 1..Len(q) : \E u \in Users : shares[u] > 0 /\ q[i] = To(u)
  <2> SUFFICES ASSUME NEW i \in 1..Len(q) PROVE \E u \in Users : shares[u] > 0 /\ q[i] = To(u)
    OBVIOUS
  <2>1. q[i] \in S
    <3> HIDE DEF q, S
    <3> QED BY <1>5
  <2> HIDE DEF q, To
  <2> QED BY <2>1
<1>8. q \in Seq(Entries)
  <2>1. S \subseteq Entries
    BY <1>4
  <2> HIDE DEF S, q
  <2> QED BY <1>5, <2>1
<1> HIDE DEF es, q, To, S, house
<1>9. /\ es \in Seq(Entries) /\ Len(es) = 1 + Len(q) /\ Len(q) \in Nat
      /\ es[1] = house /\ \A i \in 1..Len(q) : es[i + 1] = q[i]
  BY <1>4, <1>6, <1>8
<1>10. \A i \in 1..Len(es) : i = 1 \/ (i - 1 \in 1..Len(q) /\ es[i] = q[i - 1])
  <2> SUFFICES ASSUME NEW i \in 1..Len(es), i # 1
               PROVE  i - 1 \in 1..Len(q) /\ es[i] = q[i - 1]
    OBVIOUS
  <2>1. i - 1 \in 1..Len(q) /\ (i - 1) + 1 = i
    BY <1>9
  <2> QED BY <1>9, <2>1
<1>11. ASSUME NEW i \in 1..Len(es), NEW j \in 1..Len(es), es[i].wallet = es[j].wallet PROVE i = j
  <2>1. ASSUME NEW k \in 1..Len(es), k # 1
        PROVE  \E u \in Users : es[k] = To(u) /\ es[k].wallet = WalletOf[u]
    <3>1. PICK u \in Users : shares[u] > 0 /\ q[k - 1] = To(u)
      BY <1>7, <1>10, <2>1
    <3>2. es[k] = To(u)
      BY <1>10, <2>1, <3>1
    <3> QED BY <1>4, <3>2
  <2>2. CASE i = 1 \/ j = 1
    BY <1>1, <1>4, <1>9, <1>11, <2>1, <2>2
  <2>3. CASE i # 1 /\ j # 1
    <3>1. PICK u \in Users : es[i] = To(u) /\ es[i].wallet = WalletOf[u]
      BY <2>1, <2>3
    <3>2. PICK v \in Users : es[j] = To(v) /\ es[j].wallet = WalletOf[v]
      BY <2>1, <2>3
    <3>3. u = v
      BY <1>1, <1>11, <3>1, <3>2
    <3>4. q[i - 1] = q[j - 1]
      BY <1>10, <2>3, <3>1, <3>2, <3>3
    <3>5. i - 1 = j - 1 /\ i \in Int /\ j \in Int
      BY <1>5, <1>10, <2>3, <3>4
    <3> QED BY <3>5
  <2> QED BY <2>2, <2>3
<1>12. ASSUME NEW i \in 1..Len(es)
       PROVE  es[i] = house \/ \E u \in Users : shares[u] > 0 /\ es[i] = To(u)
  <2>1. CASE i = 1
    BY <1>9, <2>1
  <2>2. CASE i # 1
    <3>1. PICK u \in Users : shares[u] > 0 /\ q[i - 1] = To(u)
      BY <1>7, <1>10, <2>2
    <3>2. es[i] = To(u)
      BY <1>10, <2>2, <3>1
    <3> QED BY <3>1, <3>2
  <2> QED BY <2>1, <2>2
<1>13. \E i \in 1..Len(es) : es[i] = house
  <2>1. 1 \in 1..Len(es)
    BY <1>9
  <2> QED BY <1>9, <2>1
<1>14. ASSUME NEW u \in Users, shares[u] > 0 PROVE \E i \in 1..Len(es) : es[i] = To(u)
  <2>1. To(u) \in S
    BY <1>14 DEF S
  <2>2. PICK i \in 1..Len(q) : q[i] = To(u)
    BY <1>5, <2>1
  <2>3. i + 1 \in 1..Len(es)
    BY <1>9
  <2> QED BY <1>9, <2>2, <2>3
<1>15. Len(es) \in Nat
  BY <1>9
<1> QED BY <1>9, <1>11, <1>12, <1>13, <1>14, <1>15 DEF es, To, house, Lists, ToUser

Leaves(l, m, p, shares) ==
    /\ m \in Ledgers /\ SumFunctionOnSet(shares, Users) \in Nat
    /\ m.balance[RewardsWallet] = l.balance[RewardsWallet] - SumFunctionOnSet(shares, Users)
    /\ \A u \in Users : m.balance[WalletOf[u]] = l.balance[WalletOf[u]] + shares[u]
    /\ <<RewardsWallet, "REWARD", p>> \notin l.keys
    /\ \A key : key \in m.keys <=>
          \/ key \in l.keys
          \/ key = <<RewardsWallet, "REWARD", p>>
          \/ \E u \in Users : shares[u] > 0 /\ key = <<WalletOf[u], "REWARD", p>>

\* What an admitted distribution leaves: the shares with the users, and with
\* the house what it had less their sum; it is the first of its program.
LEMMA DistributionPosts ==
    ASSUME RewardAssumption, NEW l \in Ledgers, NEW p \in Programs, NEW shares \in [Users -> Nat],
           PostAll(l, Distribution(p, shares)).ok
    PROVE  Leaves(l, PostAll(l, Distribution(p, shares)).ledger, p, shares)
<1> DEFINE es == Distribution(p, shares)
           paid == {u \in Users : shares[u] > 0}
           To(u) == ToUser(p, shares, u)
           house == OfHouse(p, shares)
           m == PostAll(l, es).ledger
<1>2. /\ es \in Seq(Entries) /\ Len(es) \in Nat
      /\ \A i, j \in 1..Len(es) : es[i].wallet = es[j].wallet => i = j
      /\ \A i \in 1..Len(es) : es[i] = house \/ \E u \in Users : shares[u] > 0 /\ es[i] = To(u)
      /\ \E i \in 1..Len(es) : es[i] = house
      /\ \A u \in Users : shares[u] > 0 => \E i \in 1..Len(es) : es[i] = To(u)
  BY DistributionLists DEF Lists
<1>3. /\ RewardsWallet \in Wallets /\ \A u \in Users : WalletOf[u] \in Wallets \ {RewardsWallet}
      /\ \A u, v \in Users : WalletOf[u] = WalletOf[v] => u = v
      /\ p \in Refs /\ p # NoRef /\ IsFiniteSet(Users)
  BY RefAssumption DEF RewardAssumption
<1>4. /\ house.wallet = RewardsWallet /\ house.amount = - SumFunctionOnSet(shares, paid)
      /\ KeysOf(house) = {<<RewardsWallet, "REWARD", p>>}
  BY <1>3 DEF Entry, KeysOf, OfHouse
<1>5. \A u \in Users : /\ To(u).wallet = WalletOf[u] /\ To(u).amount = shares[u]
                       /\ KeysOf(To(u)) = {<<WalletOf[u], "REWARD", p>>}
  BY <1>3 DEF Entry, KeysOf, ToUser
<1> HIDE DEF es, To, house
<1>6. PostAll(l, es).ok
  BY DEF es
<1>7. /\ m \in Ledgers
      /\ \A i \in 1..Len(es) : m.balance[es[i].wallet] = l.balance[es[i].wallet] + es[i].amount /\ Fresh(l, es[i])
      /\ \A w \in Wallets : (\A i \in 1..Len(es) : es[i].wallet # w) => m.balance[w] = l.balance[w]
      /\ \A key : key \in m.keys <=> key \in l.keys \/ \E i \in 1..Len(es) : key \in KeysOf(es[i])
  BY <1>2, <1>6, PostAllDistinct
<1> HIDE DEF m
<1>8. /\ SumFunctionOnSet(shares, Users) \in Nat
      /\ SumFunctionOnSet(shares, paid) = SumFunctionOnSet(shares, Users)
  <2>1. \A u \in Users : shares[u] \in Nat
    OBVIOUS
  <2>2. Summands(shares, Users) /\ paid \in SUBSET Users /\ \A u \in Users \ paid : shares[u] = 0
    BY <1>3, <2>1 DEF Summands
  <2> HIDE DEF paid
  <2>3. SumFunctionOnSet(shares, paid) = SumFunctionOnSet(shares, Users)
    BY <2>2, SumSupport
  <2> QED BY <1>3, <2>1, <2>3, SumNat
<1>9. PICK i \in 1..Len(es) : es[i] = house
  BY <1>2
<1>10. m.balance[RewardsWallet] = l.balance[RewardsWallet] - SumFunctionOnSet(shares, Users)
  <2>1. m.balance[RewardsWallet] = l.balance[RewardsWallet] + (- SumFunctionOnSet(shares, Users))
    BY <1>4, <1>7, <1>8, <1>9
  <2>2. l.balance[RewardsWallet] \in Int
    BY <1>3 DEF Ledgers
  <2> QED BY <1>8, <2>1, <2>2
<1>11. <<RewardsWallet, "REWARD", p>> \notin l.keys
  BY <1>4, <1>7, <1>9 DEF Fresh
<1>12. ASSUME NEW u \in Users PROVE m.balance[WalletOf[u]] = l.balance[WalletOf[u]] + shares[u]
  <2>1. CASE shares[u] > 0
    <3>1. PICK j \in 1..Len(es) : es[j] = To(u)
      BY <1>2, <2>1
    <3>2. es[j].wallet = WalletOf[u] /\ es[j].amount = shares[u]
      BY <1>5, <3>1
    <3>3. m.balance[es[j].wallet] = l.balance[es[j].wallet] + es[j].amount
      BY <1>7
    <3> QED BY <3>2, <3>3
  <2>2. CASE ~ shares[u] > 0
    <3>1. shares[u] = 0 /\ WalletOf[u] \in Wallets /\ l.balance[WalletOf[u]] \in Int
      BY <1>3, <2>2 DEF Ledgers
    <3>2. ASSUME NEW j \in 1..Len(es), es[j].wallet = WalletOf[u] PROVE FALSE
      <4>1. es[j] # house
        BY <1>3, <1>4, <3>2
      <4>2. PICK v \in Users : shares[v] > 0 /\ es[j] = To(v)
        BY <1>2, <4>1
      <4>3. v = u
        BY <1>3, <1>5, <3>2, <4>2
      <4> QED BY <2>2, <4>2, <4>3
    <3>3. m.balance[WalletOf[u]] = l.balance[WalletOf[u]]
      BY <1>7, <3>1, <3>2
    <3> QED BY <3>1, <3>3
  <2> QED BY <2>1, <2>2
<1>13. ASSUME NEW key
       PROVE  (\E j \in 1..Len(es) : key \in KeysOf(es[j])) <=>
                  \/ key = <<RewardsWallet, "REWARD", p>>
                  \/ \E u \in Users : shares[u] > 0 /\ key = <<WalletOf[u], "REWARD", p>>
  <2>1. ASSUME NEW j \in 1..Len(es), key \in KeysOf(es[j])
        PROVE  \/ key = <<RewardsWallet, "REWARD", p>>
               \/ \E u \in Users : shares[u] > 0 /\ key = <<WalletOf[u], "REWARD", p>>
    <3>1. CASE es[j] = house
      BY <1>4, <2>1, <3>1
    <3>2. CASE es[j] # house
      <4>1. PICK u \in Users : shares[u] > 0 /\ es[j] = To(u)
        BY <1>2, <3>2
      <4> QED BY <1>5, <2>1, <4>1
    <3> QED BY <3>1, <3>2
  <2>2. ASSUME key = <<RewardsWallet, "REWARD", p>> PROVE \E j \in 1..Len(es) : key \in KeysOf(es[j])
    BY <1>4, <1>9, <2>2
  <2>3. ASSUME NEW u \in Users, shares[u] > 0, key = <<WalletOf[u], "REWARD", p>>
        PROVE  \E j \in 1..Len(es) : key \in KeysOf(es[j])
    <3>1. PICK j \in 1..Len(es) : es[j] = To(u)
      BY <1>2, <2>3
    <3> QED BY <1>5, <2>3, <3>1
  <2> QED BY <2>1, <2>2, <2>3
<1> QED BY <1>7, <1>8, <1>10, <1>11, <1>12, <1>13 DEF Leaves, m, es

\* A distribution pays the shares it computed, once in the life of its program.
LEMMA PayKeepsRewards ==
    ASSUME RewardAssumption, RewardInv, NEW w \in Workers, PayShares(w)
    PROVE  RewardInv'
<1> DEFINE p == tick[w].program
           shares == tick[w].shares
           now == tick[w].now
<1>1. tick[w].at = "pay" /\ Distributing(w) /\ UNCHANGED <<clock, brought>> /\ NextProgram(w, p)
  BY DEF PayShares, Distributing
<1>2. RewardTypeOK /\ DistributionsStand /\ tick \in [Workers -> Ticks] /\ led \in Ledgers
  BY DEF RewardInv, RewardTypeOK
<1>3. /\ p \in Programs /\ now \in 0..Horizon /\ now \in Nat /\ tick[w].finished \in BOOLEAN
      /\ shares \in [Users -> Nat] /\ tick[w].left \subseteq Programs
  BY <1>1, <1>2, TickFields
<1>4. /\ program[p].last <= now /\ now <= clock
      /\ \A v \in Workers \ {w} : Distributing(v) => tick[v].program # p
      /\ \E u \in Users : shares[u] > 0
      /\ SumFunctionOnSet(shares, Users) <= Emission[p] * Covered(p, now)
  BY <1>1, <1>2 DEF DistributionsStand, DistributionStands
<1>5. /\ program \in [Programs -> [active : BOOLEAN, last : Nat]] /\ clock \in Nat
      /\ accrued \in [Programs -> [Users -> Nat]]
  BY <1>2 DEF RewardTypeOK
<1>6. PICK t : t = [at |-> "listed", left |-> tick[w].left \ {p}]
  OBVIOUS
<1>7. t \in Ticks /\ t.at = "listed" /\ tick' = [tick EXCEPT ![w] = t]
  BY <1>1, <1>2, <1>6, ListedIsATick DEF NextProgram
<1>8. CASE UNCHANGED <<led, accrued, program>>
  BY <1>1, <1>7, <1>8, WorkerMoves
<1>9. CASE /\ PostEach(Distribution(p, shares))
           /\ accrued' = [accrued EXCEPT ![p] = [u \in Users |-> @[u] + shares[u]]]
           /\ Advance(p, now, tick[w].finished)
  <2> DEFINE f == [u \in Users |-> led.balance[WalletOf[u]]]
             h == [u \in Users |-> led'.balance[WalletOf[u]]]
             key == <<RewardsWallet, "REWARD", p>>
  <2>1. PICK m : m = PostAll(led, Distribution(p, shares)).ledger
    OBVIOUS
  <2>2. m = led' /\ PostAll(led, Distribution(p, shares)).ok
    BY <1>9, <2>1 DEF PostEach
  <2>3. /\ m \in Ledgers /\ SumFunctionOnSet(shares, Users) \in Nat
        /\ m.balance[RewardsWallet] = led.balance[RewardsWallet] - SumFunctionOnSet(shares, Users)
        /\ \A u \in Users : m.balance[WalletOf[u]] = led.balance[WalletOf[u]] + shares[u]
        /\ key \notin led.keys
        /\ \A k : k \in m.keys <=>
              \/ k \in led.keys \/ k = key
              \/ \E u \in Users : shares[u] > 0 /\ k = <<WalletOf[u], "REWARD", p>>
    <3>1. p \in Programs /\ shares \in [Users -> Nat] /\ led \in Ledgers
      BY <1>2, <1>3
    <3> HIDE DEF p, shares
    <3>2. Leaves(led, m, p, shares)
      BY <2>1, <2>2, <3>1, DistributionPosts
    <3> QED BY <3>2 DEF Leaves
  <2>4. PaidBy(p) = 0 /\ \A u \in Users : accrued[p][u] = 0
    <3>1. ~ PaidBy(p) > 0
      BY <1>3, <2>3 DEF RewardInv, OnePayment, Recorded
    <3>2. IsFiniteSet(Users) /\ \A u \in Users : accrued[p][u] \in Nat
      BY <1>3, <1>5 DEF RewardAssumption
    <3>3. PaidBy(p) \in Nat /\ \A u \in Users : accrued[p][u] <= PaidBy(p)
      BY <3>2, SumNat DEF PaidBy
    <3> QED BY <3>1, <3>2, <3>3
  <2>5. /\ accrued'[p] = shares /\ \A q \in Programs \ {p} : accrued'[q] = accrued[q]
        /\ accrued' \in [Programs -> [Users -> Nat]]
    <3>1. [u \in Users |-> accrued[p][u] + shares[u]] = [u \in Users |-> shares[u]]
      BY <1>3, <2>4
    <3>2. [u \in Users |-> shares[u]] = shares
      BY <1>3
    <3>3. accrued' = [accrued EXCEPT ![p] = shares]
      BY <1>9, <3>1, <3>2
    <3> QED BY <1>3, <1>5, <3>3
  <2>6. /\ program'[p].last = now /\ \A q \in Programs \ {p} : program'[q] = program[q]
        /\ program' \in [Programs -> [active : BOOLEAN, last : Nat]]
    BY <1>3, <1>5, <1>9 DEF Advance
  <2>7. /\ tick' \in [Workers -> Ticks] /\ ~ Distributing(w)'
        /\ \A v \in Workers \ {w} : tick'[v] = tick[v]
    BY <1>2, <1>7 DEF Distributing
  <2>8. RewardTypeOK'
    BY <1>1, <1>2, <2>2, <2>3, <2>5, <2>6, <2>7 DEF RewardTypeOK
  <2>9. DistributionsStand'
    BY <1>1, <1>2, <1>3, <1>4, <2>6, <2>7, OneDistributionMoves
  <2>10. WithinEmission'
    <3>1. ASSUME NEW q \in Programs
          PROVE  SumFunctionOnSet(accrued'[q], Users) <= Emission[q] * Covered(q, program'[q].last)
      <4>1. CASE q = p
        BY <1>4, <2>5, <2>6, <4>1
      <4>2. CASE q # p
        BY <2>5, <2>6, <4>2 DEF RewardInv, WithinEmission, PaidBy
      <4> QED BY <4>1, <4>2
    <3> QED BY <3>1 DEF WithinEmission, PaidBy, Covered
  <2>11. /\ RewardsWallet \in Wallets /\ \A u \in Users : WalletOf[u] \in Wallets \ {RewardsWallet}
         /\ \A u, v \in Users : WalletOf[u] = WalletOf[v] => u = v
         /\ IsFiniteSet(Users)
    BY DEF RewardAssumption
  <2>12. ASSUME NEW q \in Programs
         PROVE  /\ SumFunctionOnSet(accrued'[q], Users) > 0 <=> <<RewardsWallet, "REWARD", q>> \in m.keys
                /\ \A u \in Users : accrued'[q][u] > 0 <=> <<WalletOf[u], "REWARD", q>> \in m.keys
    <3>1. CASE q = p
      <4>1. SumFunctionOnSet(shares, Users) > 0
        <5>1. PICK u \in Users : shares[u] > 0
          BY <1>4
        <5>2. shares[u] <= SumFunctionOnSet(shares, Users) /\ shares[u] \in Nat
          <6>1. \A v \in Users : shares[v] \in Nat
            BY <1>3
          <6> HIDE DEF shares
          <6> QED BY <2>11, <6>1, SumNat
        <5> QED BY <2>3, <5>1, <5>2
      <4>2. ASSUME NEW u \in Users
            PROVE  shares[u] > 0 <=> <<WalletOf[u], "REWARD", p>> \in m.keys
        <5>1. <<WalletOf[u], "REWARD", p>> \notin led.keys
          <6>1. ~ accrued[p][u] > 0
            BY <2>4
          <6>2. accrued[p][u] > 0 <=> Recorded(WalletOf[u], "REWARD", p)
            BY <1>3 DEF RewardInv, OnePayment
          <6> QED BY <6>1, <6>2 DEF Recorded
        <5>2. <<WalletOf[u], "REWARD", p>> # key
          BY <2>11
        <5>3. \A v \in Users : <<WalletOf[u], "REWARD", p>> = <<WalletOf[v], "REWARD", p>> => v = u
          BY <2>11
        <5> QED BY <2>3, <5>1, <5>2, <5>3
      <4> QED BY <2>3, <2>5, <3>1, <4>1, <4>2
    <3>2. CASE q # p
      <4>1. \A x : <<x, "REWARD", q>> \in m.keys <=> <<x, "REWARD", q>> \in led.keys
        BY <2>3, <3>2
      <4>2. accrued'[q] = accrued[q]
        BY <2>5, <3>2
      <4> QED BY <4>1, <4>2 DEF RewardInv, OnePayment, PaidBy, Recorded
    <3> QED BY <3>1, <3>2
  <2>13. OnePayment'
    BY <2>2, <2>12 DEF OnePayment, PaidBy, Recorded
  <2>14. Funds(led'.balance) = Funds(led.balance)
    <3>1. Summands(f, Users) /\ Summands(shares, Users)
      BY <1>2, <1>3, <2>11 DEF Summands, Ledgers
    <3>2. \A u \in Users : h[u] = f[u] + shares[u]
      BY <2>2, <2>3
    <3> HIDE DEF shares, f, h
    <3>3. SumFunctionOnSet(h, Users) = SumFunctionOnSet(f, Users) + SumFunctionOnSet(shares, Users)
      BY <3>1, <3>2, SumPlus
    <3>4. SumFunctionOnSet(f, Users) \in Int
      BY <3>1, SumType
    <3>5. led.balance[RewardsWallet] \in Int
      BY <1>2, <2>11 DEF Ledgers
    <3>6. led'.balance[RewardsWallet] = led.balance[RewardsWallet] - SumFunctionOnSet(shares, Users)
      BY <2>2, <2>3
    <3>7. \A a, b, c \in Int : (a - c) + (b + c) = a + b
      OBVIOUS
    <3>8. SumFunctionOnSet(shares, Users) \in Int
      BY <2>3
    <3> QED BY <3>3, <3>4, <3>5, <3>6, <3>7, <3>8 DEF Funds, f, h
  <2>15. RewardsBacked'
    BY <1>1, <2>14 DEF RewardInv, RewardsBacked, Funds
  <2> QED BY <2>8, <2>9, <2>10, <2>13, <2>15 DEF RewardInv
<1> QED BY <1>8, <1>9 DEF PayShares

\* However workers, users and administrators interleave, a program pays in one
\* distribution, at most its rate for the time its clock has covered, out of
\* what the house has (db/rewards.rs): for any programs, users and balances.
THEOREM RewardProgramsSafe == RewardSpec => []RewardInv
<1>1. RewardInit => RewardInv
  BY RewardAssumption, RewardStarts
<1>2. RewardInv /\ [RewardNext]_rewardVars => RewardInv'
  <2> SUFFICES ASSUME RewardInv, [RewardNext]_rewardVars PROVE RewardInv'
    OBVIOUS
  <2> USE RewardAssumption
  <2>1. ASSUME NEW w \in Workers, ListPrograms(w) \/ TickEnds(w) PROVE RewardInv'
    BY <2>1, ListKeepsRewards
  <2>2. ASSUME NEW w \in Workers, WeighUsers(w) PROVE RewardInv'
    BY <2>2, WeighKeepsRewards
  <2>3. ASSUME NEW w \in Workers, PayShares(w) PROVE RewardInv'
    BY <2>3, PayKeepsRewards
  <2>4. ASSUME NEW w \in Workers, DistributionFails(w) PROVE RewardInv'
    BY <2>4, FailureKeepsRewards
  <2>5. ASSUME NEW w \in Workers, NEW p \in Programs, LockProgram(w, p) PROVE RewardInv'
    BY <2>5, LockKeepsRewards
  <2>6. ASSUME NEW p \in Programs, SetActive(p) PROVE RewardInv'
    BY <2>6, SetActiveKeepsRewards
  <2>7. CASE Receive(RewardsWallet)
    BY <2>7, ReceiveKeepsRewards
  <2>8. ASSUME NEW u \in Users, Receive(WalletOf[u]) PROVE RewardInv'
    BY <2>8, ReceiveKeepsRewards
  <2>9. ASSUME NEW u \in Users, HousePays(u) PROVE RewardInv'
    BY <2>9, HousePaysKeepsRewards
  <2>10. CASE TimePasses
    BY <2>10, TimeKeepsRewards
  <2>11. CASE UNCHANGED rewardVars
    BY <2>11 DEF rewardVars, RewardInv, RewardTypeOK, DistributionsStand, DistributionStands, Distributing,
                 Covered, WithinEmission, OnePayment, RewardsBacked, PaidBy, Recorded, Funds
  <2> QED BY <2>1, <2>2, <2>3, <2>4, <2>5, <2>6, <2>7, <2>8, <2>9, <2>10, <2>11 DEF RewardNext
<1> QED BY <1>1, <1>2, PTL DEF RewardSpec

-----------------------------------------------------------------------------
(***************************************************************************)
(* Lending. The arithmetic of units, rates and indexes: what is rounded,   *)
(* and by how much.                                                        *)
(***************************************************************************)

\* Rounding down, from both sides.
LEMMA DivBounds == \A a \in Int, b \in Nat \ {0} : b * (a \div b) <= a /\ a < b * (a \div b) + b
  OBVIOUS

\* A quotient is the largest of its kind.
LEMMA DivLargest == \A a, q \in Int, b \in Nat \ {0} : b * q <= a => q <= a \div b
<1> SUFFICES ASSUME NEW a \in Int, NEW q \in Int, NEW b \in Nat \ {0}, b * q <= a, q > a \div b PROVE FALSE
  OBVIOUS
<1>1. PICK n : n = a \div b
  OBVIOUS
<1>2. n \in Int /\ a < b * n + b
  BY <1>1, DivBounds
<1>3. q - (n + 1) \in Nat
  BY <1>1, <1>2
<1>4. b * (q - (n + 1)) \in Nat
  BY <1>3, MulNat
<1>5. b * q = (b * n + b) + b * (q - (n + 1))
  BY <1>2
<1> QED BY <1>2, <1>4, <1>5

\* Rates and factors are parts of ten thousand.
LEMMA BpsIsNat == Bps \in Nat \ {0}
  BY DEF Bps

\* Parts in ten thousand, and products that keep the order.
LEMMA PartOfAll == \A q, k, d \in Nat : Bps * q <= k /\ k <= d * Bps => q <= d
  BY DEF Bps

\* Less is at most the same part.
LEMMA PartBelow == \A a, q, k \in Nat : Bps * q <= k /\ a <= q => a * Bps <= k
  BY DEF Bps

\* Less of a part is within it.
LEMMA PartLess == \A a, b, k \in Nat : a <= b /\ b * Bps <= k => a * Bps <= k
  BY DEF Bps

\* Less, as often, is no more.
LEMMA LessTimes == \A a, b, n \in Nat : a <= b => a * n <= b * n
  OBVIOUS

\* Amounts and scaled units, at an index.
LEMMA ScaledNat ==
    ASSUME LendAssumption, NEW s \in Nat, NEW i \in Nat
    PROVE  ScaledToAmount(s, i) \in Nat /\ Ray * ScaledToAmount(s, i) <= s * i /\ s * i < Ray * ScaledToAmount(s, i) + Ray
<1>1. s * i \in Nat /\ Ray \in Nat \ {0}
  BY MulNat DEF LendAssumption
<1> QED BY <1>1, DivNat, DivBounds DEF ScaledToAmount

\* The units an amount is worth, to within one.
LEMMA UnitsNat ==
    ASSUME LendAssumption, NEW a \in Nat, NEW i \in Nat \ {0}
    PROVE  AmountToScaled(a, i) \in Nat /\ i * AmountToScaled(a, i) <= a * Ray /\ a * Ray < i * AmountToScaled(a, i) + i
<1>1. a * Ray \in Nat
  BY MulNat DEF LendAssumption
<1> QED BY <1>1, DivNat, DivBounds DEF AmountToScaled

\* What is worth no more than some units takes no more than these.
LEMMA UnitsWithin ==
    ASSUME LendAssumption, NEW s \in Nat, NEW i \in Nat \ {0}, NEW a \in Nat, a <= ScaledToAmount(s, i)
    PROVE  AmountToScaled(a, i) <= s
<1>1. PICK q : q = AmountToScaled(a, i)
  OBVIOUS
<1>2. PICK x : x = ScaledToAmount(s, i)
  OBVIOUS
<1>3. q \in Nat /\ i * q <= a * Ray
  BY <1>1, UnitsNat
<1>4. x \in Nat /\ Ray * x <= s * i /\ Ray \in Nat /\ a <= x
  BY <1>2, ScaledNat DEF LendAssumption
<1>5. Ray * a <= Ray * x
  BY <1>4, MulMono
<1>6. i * q <= i * s
  BY <1>3, <1>4, <1>5
<1> QED BY <1>1, <1>3, <1>6, Cancels

\* Units withdrawn take away no more than their amount ...
LEMMA LessAfter ==
    ASSUME LendAssumption, NEW s \in Nat, NEW i \in Nat \ {0}, NEW a \in Nat, a <= ScaledToAmount(s, i)
    PROVE  ScaledToAmount(s - AmountToScaled(a, i), i) >= ScaledToAmount(s, i) - a
<1>1. PICK q : q = AmountToScaled(a, i)
  OBVIOUS
<1>2. PICK x : x = ScaledToAmount(s, i)
  OBVIOUS
<1>3. q \in Nat /\ i * q <= a * Ray /\ q <= s
  BY <1>1, UnitsNat, UnitsWithin
<1>4. x \in Nat /\ Ray * x <= s * i /\ Ray \in Nat \ {0} /\ a <= x
  BY <1>2, ScaledNat DEF LendAssumption
<1>5. Ray * (x - a) <= (s - q) * i
  BY <1>3, <1>4
<1>6. x - a \in Int /\ (s - q) * i \in Int
  BY <1>3, <1>4
<1>7. x - a <= ((s - q) * i) \div Ray
  BY <1>4, <1>5, <1>6, DivLargest
<1> QED BY <1>1, <1>2, <1>7 DEF ScaledToAmount

\* ... and units borrowed add no more than theirs.
LEMMA MoreAfter ==
    ASSUME LendAssumption, NEW s \in Nat, NEW i \in Nat \ {0}, NEW a \in Nat
    PROVE  ScaledToAmount(s + AmountToScaled(a, i), i) <= ScaledToAmount(s, i) + a
<1>1. PICK q : q = AmountToScaled(a, i)
  OBVIOUS
<1>2. PICK x : x = ScaledToAmount(s, i)
  OBVIOUS
<1>3. q \in Nat /\ i * q <= a * Ray
  BY <1>1, UnitsNat
<1>4. x \in Nat /\ s * i < Ray * x + Ray /\ Ray \in Nat \ {0}
  BY <1>2, ScaledNat DEF LendAssumption
<1>5. PICK y : y = ScaledToAmount(s + q, i)
  OBVIOUS
<1>6. y \in Nat /\ Ray * y <= (s + q) * i
  <2>1. s + q \in Nat
    BY <1>3
  <2> QED BY <1>5, <2>1, ScaledNat
<1>7. (s + q) * i = s * i + i * q
  BY <1>3
<1>8. Ray * y < Ray * (x + a + 1)
  BY <1>3, <1>4, <1>6, <1>7
<1>9. y < x + a + 1
  <2> SUFFICES ASSUME x + a + 1 <= y PROVE FALSE
    BY <1>4, <1>6
  <2>1. Ray * (x + a + 1) <= Ray * y
    BY <1>4, <1>6, MulMono
  <2> QED BY <1>4, <1>6, <1>8, <2>1, MulNat
<1> QED BY <1>1, <1>2, <1>4, <1>5, <1>6, <1>9

-----------------------------------------------------------------------------
\* Rates.
LEMMA UsedBounds ==
    ASSUME NEW d \in Nat, NEW a \in Nat
    PROVE  /\ Utilization(d, a) \in 0 .. Bps
           /\ Utilization(d, a) * (d + a) <= d * Bps
<1>1. CASE d + a = 0
  BY <1>1, BpsIsNat DEF Utilization
<1>2. CASE d + a # 0
  <2>1. PICK u : u = Utilization(d, a)
    OBVIOUS
  <2>2. d * Bps \in Nat /\ d + a \in Nat \ {0} /\ u = (d * Bps) \div (d + a)
    BY <1>2, <2>1, MulNat, BpsIsNat DEF Utilization
  <2>3. u \in Nat /\ (d + a) * u <= d * Bps
    <3>1. PICK n \in Nat, b \in Nat \ {0} : n = d * Bps /\ b = d + a
      BY <2>2
    <3>2. n \div b \in Nat /\ b * (n \div b) <= n
      BY DivNat, DivBounds
    <3> QED BY <2>2, <3>1, <3>2
  <2>4. d * Bps <= (d + a) * Bps
    <3>1. Bps * d <= Bps * (d + a)
      BY BpsIsNat, MulMono
    <3> QED BY <3>1, BpsIsNat
  <2>5. (d + a) * u <= (d + a) * Bps
    BY <2>2, <2>3, <2>4, BpsIsNat
  <2>6. u <= Bps
    BY <2>2, <2>3, <2>5, BpsIsNat, Cancels
  <2> QED BY <2>1, <2>2, <2>3, <2>6, BpsIsNat
<1> QED BY <1>1, <1>2

IsMarket(m) ==
    /\ m.optimal \in 1..Bps /\ m.slope1 \in Nat /\ m.slope2 \in Nat /\ m.reserveFactor \in 0..Bps

\* Rounding to the nearest leaves a natural.
LEMMA RoundedNat == \A n \in Nat, d \in Nat \ {0} : Rounded(n, d) \in Nat
<1> SUFFICES ASSUME NEW n \in Nat, NEW d \in Nat \ {0} PROVE Rounded(n, d) \in Nat
  OBVIOUS
<1>1. 2 * n + d \in Nat /\ 2 * d \in Nat \ {0}
  OBVIOUS
<1> QED BY <1>1, DivNat DEF Rounded

\* What is borrowed bears a rate, below and above the optimum.
LEMMA RateNat ==
    ASSUME NEW u \in 0 .. Bps, NEW m, IsMarket(m)
    PROVE  BorrowRate(u, m) \in Nat
<1>1. CASE u <= m.optimal
  <2>1. m.slope1 * u \in Nat /\ m.optimal \in Nat \ {0}
    BY MulNat, BpsIsNat DEF IsMarket
  <2> QED BY <1>1, <2>1, RoundedNat DEF BorrowRate
<1>2. CASE ~ u <= m.optimal
  <2>1. u - m.optimal \in Nat /\ Bps - m.optimal \in Nat \ {0}
    BY <1>2, BpsIsNat DEF IsMarket
  <2>2. m.slope2 * (u - m.optimal) \in Nat
    BY <2>1, MulNat DEF IsMarket
  <2>3. Rounded(m.slope2 * (u - m.optimal), Bps - m.optimal) \in Nat
    BY <2>1, <2>2, RoundedNat
  <2> QED BY <1>2, <2>3 DEF BorrowRate, IsMarket
<1> QED BY <1>1, <1>2

\* Suppliers get no more than the used part of what borrowers pay.
LEMMA SupplyRateSmaller ==
    ASSUME NEW rate \in Nat, NEW u \in 0 .. Bps, NEW m, IsMarket(m)
    PROVE  /\ SupplyRate(rate, u, m) \in Nat
           /\ Bps * SupplyRate(rate, u, m) <= rate * u
           /\ SupplyRate(rate, u, m) <= rate
<1>1. PICK g : g = (rate * u) \div Bps
  OBVIOUS
<1>2. PICK f : f = Bps - m.reserveFactor
  OBVIOUS
<1>3. PICK x : x = SupplyRate(rate, u, m)
  OBVIOUS
<1>4. f \in Nat /\ f <= Bps /\ u \in Nat /\ u <= Bps
  BY <1>2, BpsIsNat DEF IsMarket
<1>5. g \in Nat /\ Bps * g <= rate * u
  <2>1. rate * u \in Nat
    BY <1>4, MulNat
  <2> QED BY <1>1, <2>1, DivNat, DivBounds, BpsIsNat
<1>6. g * f \in Nat /\ g * f <= g * Bps
  BY <1>4, <1>5, MulNat, MulMono, BpsIsNat
<1>7. x \in Nat /\ Bps * x <= g * f
  <2>1. PICK n \in Nat : n = g * f
    BY <1>6
  <2>2. x = n \div Bps
    BY <1>1, <1>2, <1>3, <2>1 DEF SupplyRate
  <2> QED BY <2>1, <2>2, DivNat, DivBounds, BpsIsNat
<1>8. Bps * x <= Bps * g
  BY <1>5, <1>6, <1>7, BpsIsNat
<1>9. x <= g
  BY <1>5, <1>7, <1>8, BpsIsNat, Cancels
<1>10. rate * u <= rate * Bps
  BY <1>4, MulMono, BpsIsNat
<1>11. Bps * x <= rate * u
  BY <1>4, <1>5, <1>7, <1>8, BpsIsNat, MulNat
<1>12. Bps * x <= Bps * rate
  BY <1>4, <1>7, <1>10, <1>11, BpsIsNat, MulNat
<1> QED BY <1>3, <1>7, <1>11, <1>12, BpsIsNat, Cancels

\* Indexes grow; the larger one, and at the higher rate, by more.
LEMMA IndexGrows ==
    ASSUME LendAssumption, NEW i \in Nat, NEW rate \in Nat, NEW e \in Nat
    PROVE  AccrueIndex(i, rate, e) \in Nat /\ AccrueIndex(i, rate, e) >= i
<1>1. (i * rate) * e \in Nat /\ Bps * LendYear \in Nat \ {0}
  BY MulNat, BpsIsNat DEF LendAssumption
<1>2. (i * rate * e) \div (Bps * LendYear) \in Nat
  BY <1>1, DivNat
<1> QED BY <1>2 DEF AccrueIndex

\* At no less of a rate, a larger index stays the larger.
LEMMA IndexGrowsMore ==
    ASSUME LendAssumption, NEW i \in Nat, NEW j \in Nat, i <= j, NEW x \in Nat, NEW y \in Nat, x <= y, NEW e \in Nat
    PROVE  AccrueIndex(i, x, e) <= AccrueIndex(j, y, e)
<1>1. i * x <= j * y /\ i * x \in Nat /\ j * y \in Nat
  <2>1. i * x <= i * y /\ y * i <= y * j
    BY MulMono
  <2> QED BY <2>1, MulNat
<1>2. e * (i * x) <= e * (j * y)
  BY <1>1, MulMono
<1>3. i * x * e <= j * y * e /\ i * x * e \in Nat /\ j * y * e \in Nat
  BY <1>1, <1>2, MulNat
<1>4. PICK b \in Nat \ {0} : b = Bps * LendYear
  BY BpsIsNat DEF LendAssumption
<1>5. PICK m \in Nat, n \in Nat : m = i * x * e /\ n = j * y * e
  BY <1>3
<1>6. m \div b <= n \div b /\ m \div b \in Nat /\ n \div b \in Nat
  <2>1. m <= n /\ m \in Int /\ n \in Int /\ b \in Nat \ {0}
    BY <1>3, <1>4, <1>5
  <2>2. m \div b <= n \div b
    BY <2>1, DivMono
  <2>3. m \div b \in Nat /\ n \div b \in Nat
    BY <2>1, <1>5, DivNat
  <2> QED BY <2>2, <2>3
<1>7. AccrueIndex(i, x, e) = i + m \div b /\ AccrueIndex(j, y, e) = j + n \div b
  BY <1>4, <1>5 DEF AccrueIndex
<1> QED BY <1>6, <1>7

\* What suppliers earn is paid by what borrowers owe more, but for roundings: of
\* a supply s at index l, a debt d at index b, and a pool p that lacks at most x.
LEMMA InterestCovered ==
    ASSUME LendAssumption, NEW s \in Nat, NEW l \in Nat, NEW d \in Nat, NEW b \in Nat, NEW p \in Nat, NEW x \in Nat,
           s * l <= p * Ray + d * b + x,
           NEW u, u = Utilization(ScaledToAmount(d, b), p),
           NEW rate \in Nat, NEW rest \in Nat, Bps * rest <= rate * u, NEW e \in Nat
    PROVE  s * AccrueIndex(l, rest, e) - s * l
              <= d * AccrueIndex(b, rate, e) - d * b + d + AccrueIndex(x + Ray, rate, e) - (x + Ray)
<1>1. PICK a : a = ScaledToAmount(d, b)
  OBVIOUS
<1>2. a \in Nat /\ Ray * a <= d * b /\ d * b < Ray * a + Ray /\ Ray \in Nat \ {0}
  BY <1>1, ScaledNat DEF LendAssumption
<1>3. u \in Nat /\ u <= Bps /\ u * (a + p) <= a * Bps /\ Bps \in Nat \ {0}
  BY <1>1, <1>2, UsedBounds, BpsIsNat
<1>4. PICK v \in Nat : v = s * l
  BY MulNat
<1>5. PICK w \in Nat : w = d * b
  BY MulNat
<1>6. v <= Ray * (a + p) + (Ray + x)
  BY <1>2, <1>4, <1>5
<1>7. u * v <= (w + Ray + x) * Bps
  <2>1. u * v <= u * (Ray * (a + p) + (Ray + x))
    BY <1>2, <1>3, <1>4, <1>6, MulMono, MulNat
  <2>2. u * (Ray * (a + p) + (Ray + x)) = Ray * (u * (a + p)) + u * (Ray + x)
    BY <1>2, <1>3
  <2>3. Ray * (u * (a + p)) <= Ray * (a * Bps)
    BY <1>2, <1>3, MulMono, MulNat
  <2>4. Ray * (a * Bps) = Bps * (Ray * a)
    BY <1>2, <1>3
  <2>5. Bps * (Ray * a) <= Bps * w
    BY <1>2, <1>3, <1>5, MulMono, MulNat
  <2>6. (Ray + x) * u <= (Ray + x) * Bps
    BY <1>2, <1>3, MulMono
  <2>7. u * (Ray + x) = (Ray + x) * u /\ (w + Ray + x) * Bps = Bps * w + (Ray + x) * Bps
    BY <1>2, <1>3, <1>5
  <2>8. PICK k \in Nat, m \in Nat, n \in Nat, o \in Nat :
           /\ k = Ray * (u * (a + p)) /\ m = Bps * (Ray * a) /\ n = Bps * w /\ o = u * (Ray + x)
    <3>1. a + p \in Nat /\ Ray + x \in Nat /\ Ray \in Nat /\ Bps \in Nat
      BY <1>2, <1>3
    <3>2. u * (a + p) \in Nat /\ Ray * a \in Nat
      BY <1>2, <1>3, <3>1, MulNat
    <3>3. Ray * (u * (a + p)) \in Nat /\ Bps * (Ray * a) \in Nat /\ Bps * w \in Nat /\ u * (Ray + x) \in Nat
      BY <1>3, <1>5, <3>1, <3>2, MulNat
    <3> QED BY <3>3
  <2>9. u * v \in Nat /\ (Ray + x) * Bps \in Nat
    BY <1>2, <1>3, <1>4, MulNat
  <2>10. u * v <= k + o /\ k <= m /\ m <= n /\ o <= (Ray + x) * Bps
    BY <2>1, <2>2, <2>3, <2>4, <2>5, <2>6, <2>7, <2>8
  <2>11. u * v <= n + (Ray + x) * Bps
    BY <2>8, <2>9, <2>10
  <2> QED BY <2>7, <2>8, <2>11
<1>8. v * rest <= rate * (w + Ray + x)
  <2>1. v * (Bps * rest) <= v * (rate * u)
    BY <1>3, <1>4, MulMono, MulNat
  <2>2. rate * (u * v) <= rate * ((w + Ray + x) * Bps)
    BY <1>2, <1>3, <1>4, <1>5, <1>7, MulMono, MulNat
  <2>3. v * (Bps * rest) = Bps * (v * rest) /\ v * (rate * u) = rate * (u * v)
    BY <1>3, <1>4
  <2>4. rate * ((w + Ray + x) * Bps) = Bps * (rate * (w + Ray + x))
    BY <1>2, <1>3, <1>5
  <2>5. v * rest \in Nat /\ w + Ray + x \in Nat /\ rate * (w + Ray + x) \in Nat
    BY <1>2, <1>4, <1>5, MulNat
  <2>6. Bps * (v * rest) <= Bps * (rate * (w + Ray + x))
    <3>1. v * (rate * u) \in Nat /\ Bps * (v * rest) \in Nat /\ Bps * (rate * (w + Ray + x)) \in Nat
      BY <1>3, <1>4, <2>5, MulNat
    <3>2. Bps * (v * rest) <= rate * (u * v)
      BY <2>1, <2>3
    <3>3. rate * (u * v) <= Bps * (rate * (w + Ray + x))
      BY <2>2, <2>4
    <3> QED BY <2>3, <3>1, <3>2, <3>3
  <2> QED BY <1>3, <2>5, <2>6, Cancels
<1>9. PICK y \in Nat \ {0} : y = Bps * LendYear
  BY <1>3 DEF LendAssumption
<1>22. y \in Nat \ {0}
  BY <1>9
<1>10. PICK f \in Nat : f = (l * rest * e) \div y
  BY <1>9, MulNat, DivNat
<1>11. PICK g \in Nat : g = (b * rate * e) \div y
  BY <1>9, MulNat, DivNat
<1>12. PICK h \in Nat : h = ((x + Ray) * rate * e) \div y
  BY <1>2, <1>9, MulNat, DivNat
<1>13. /\ AccrueIndex(l, rest, e) = l + f
       /\ AccrueIndex(b, rate, e) = b + g
       /\ AccrueIndex(x + Ray, rate, e) = x + Ray + h
  BY <1>9, <1>10, <1>11, <1>12 DEF AccrueIndex
<1>14. y * (s * f) <= e * (rate * (w + Ray + x))
  <2>1. l * rest * e \in Nat
    BY MulNat
  <2>2. y * f <= l * rest * e
    <3>1. PICK n \in Nat : n = l * rest * e
      BY <2>1
    <3>2. f = n \div y
      BY <1>10, <3>1
    <3>3. n \in Int /\ y * (n \div y) <= n
      BY <1>22, <3>1, DivBounds
    <3> QED BY <3>1, <3>2, <3>3
  <2>3. s * (y * f) <= s * (l * rest * e)
    BY <1>9, <2>1, <2>2, MulMono, MulNat
  <2>4. s * (y * f) = y * (s * f) /\ s * (l * rest * e) = e * (v * rest)
    BY <1>4, <1>9
  <2>5. e * (v * rest) <= e * (rate * (w + Ray + x))
    BY <1>2, <1>4, <1>5, <1>8, MulMono, MulNat
  <2>6. y * (s * f) \in Nat /\ e * (v * rest) \in Nat /\ e * (rate * (w + Ray + x)) \in Nat
    BY <1>2, <1>4, <1>5, <1>9, MulNat
  <2> QED BY <2>3, <2>4, <2>5, <2>6
<1>15. e * (rate * w) <= y * (d * g) + y * d
  <2>1. b * rate * e \in Nat
    BY MulNat
  <2>2. b * rate * e <= y * g + y
    <3>1. PICK n \in Nat : n = b * rate * e
      BY <2>1
    <3>2. g = n \div y
      BY <1>11, <3>1
    <3>3. n \in Int /\ n <= y * (n \div y) + y
      BY <1>22, <3>1, DivBounds
    <3> QED BY <3>1, <3>2, <3>3
  <2>3. d * (b * rate * e) <= d * (y * g + y)
    BY <1>9, <2>1, <2>2, MulMono, MulNat
  <2>4. d * (b * rate * e) = e * (rate * w) /\ d * (y * g + y) = y * (d * g) + y * d
    BY <1>5, <1>9
  <2> QED BY <2>3, <2>4
<1>16. PICK m \in Nat : m = (x + Ray) * rate * e
  BY <1>2, MulNat
<1>17. e * (rate * (w + Ray + x)) = e * (rate * w) + m
  BY <1>2, <1>16
<1>18. PICK i \in Nat, j \in Nat : i = s * f /\ j = d * g
  BY MulNat
<1>19. y * (i - (j + d)) <= m
  <2>1. y * (i - (j + d)) = y * i - (y * j + y * d)
    BY <1>9
  <2>2. y * i \in Nat /\ y * j \in Nat /\ y * d \in Nat /\ e * (rate * w) \in Nat
    BY <1>9, MulNat
  <2> QED BY <1>14, <1>15, <1>17, <1>18, <2>1, <2>2
<1>20. i - (j + d) <= h
  <2>1. PICK q \in Int : q = i - (j + d)
    BY <1>18
  <2>2. h = m \div y /\ y * q <= m
    BY <1>12, <1>16, <1>19, <2>1
  <2>3. q <= m \div y
    <3>1. m \in Int /\ q \in Int
      BY <1>16, <2>1
    <3> QED BY <1>22, <2>2, <3>1, DivLargest
  <2> QED BY <2>1, <2>2, <2>3
<1>21. s * (l + f) = s * l + s * f /\ d * (b + g) = d * b + d * g
  OBVIOUS
<1> QED BY <1>2, <1>4, <1>5, <1>13, <1>18, <1>20, <1>21

\* What an amount at price p is worth at price q, with a bonus of n, and back.
SeizedFor(a, p, n, q) == ((a * p * n) \div Bps) \div q
PaidFor(a, q, n, p) == ((a * q * Bps) \div n) \div p

\* A liquidation seizes what the debt paid is worth with the bonus; when that is
\* more than there is, all there is, and the debt paid is scaled down.
LEMMA SeizedFairly ==
    ASSUME NEW asked \in Nat, NEW coll \in Nat, NEW p \in Nat \ {0}, NEW q \in Nat \ {0}, NEW n \in Nat \ {0},
           NEW out, NEW seized,
           \/ SeizedFor(asked, p, n, q) <= coll /\ out = asked /\ seized = SeizedFor(asked, p, n, q)
           \/ SeizedFor(asked, p, n, q) > coll /\ out = PaidFor(coll, q, n, p) /\ seized = coll
    PROVE  /\ out \in Nat /\ out <= asked /\ seized \in Nat /\ seized <= coll
           /\ seized * q + q > (out * p * n) \div Bps
           /\ seized * q <= ((out * p + p) * n) \div Bps
<1>1. PICK v \in Nat : v = asked * p * n
  BY MulNat
<1>2. Bps \in Nat \ {0}
  BY BpsIsNat
<1>3. PICK x : x = v \div Bps
  OBVIOUS
<1>4. x \in Nat /\ Bps * x <= v /\ v < Bps * x + Bps
  BY <1>1, <1>2, <1>3, DivNat, DivBounds
<1>0. PICK wanted : wanted = SeizedFor(asked, p, n, q)
  OBVIOUS
<1>5. wanted = x \div q
  BY <1>0, <1>1, <1>3 DEF SeizedFor
<1>6. wanted \in Nat /\ q * wanted <= x /\ x < q * wanted + q
  <2>1. x \in Nat /\ x \in Int
    BY <1>4
  <2>2. x \div q \in Nat
    BY <2>1, DivNat
  <2>3. q * (x \div q) <= x /\ x < q * (x \div q) + q
    BY <2>1, DivBounds
  <2> QED BY <1>5, <2>2, <2>3
<1>7. CASE wanted <= coll /\ out = asked /\ seized = wanted
  <2>1. seized * q + q > (out * p * n) \div Bps
    BY <1>1, <1>3, <1>6, <1>7
  <2>2. PICK w \in Nat : w = (out * p + p) * n
    BY <1>7, MulNat
  <2>3. v <= w
    <3>1. n * (asked * p) <= n * (asked * p + p)
      BY MulMono, MulNat
    <3> QED BY <1>1, <1>7, <2>2, <3>1
  <2>4. x <= w \div Bps
    BY <1>1, <1>2, <1>3, <2>2, <2>3, DivMono
  <2>5. w \div Bps \in Nat
    BY <1>2, <2>2, DivNat
  <2> QED BY <1>4, <1>6, <1>7, <2>1, <2>2, <2>4, <2>5
<1>8. CASE wanted > coll /\ out = PaidFor(coll, q, n, p) /\ seized = coll
  <2>1. PICK y \in Nat : y = coll * q * Bps
    BY <1>2, MulNat
  <2>2. PICK z : z = y \div n
    OBVIOUS
  <2>3. z \in Nat /\ n * z <= y /\ y < n * z + n
    <3>1. y \in Nat /\ y \in Int
      BY <2>1
    <3>2. y \div n \in Nat
      BY <3>1, DivNat
    <3>3. n * (y \div n) <= y /\ y < n * (y \div n) + n
      BY <3>1, DivBounds
    <3> QED BY <2>2, <3>2, <3>3
  <2>4. out = z \div p
    BY <1>8, <2>1, <2>2 DEF PaidFor
  <2>5. out \in Nat /\ p * out <= z /\ z < p * out + p
    BY <2>3, <2>4, DivNat, DivBounds
  <2>6. out <= asked
    <3>1. q * (coll + 1) <= q * wanted
      BY <1>6, <1>8, MulMono
    <3>2. coll * q < x
      BY <1>4, <1>6, <3>1
    <3>3. Bps * (coll * q) <= Bps * x
      BY <1>2, <1>4, <3>2, MulMono, MulNat
    <3>4. Bps * (coll * q) = y
      BY <1>2, <2>1
    <3>5. n * z <= v
      BY <1>1, <1>2, <1>4, <2>1, <2>3, <3>3, <3>4, MulNat
    <3>6. v = n * (asked * p)
      BY <1>1
    <3>7. z <= asked * p
      BY <2>3, <3>5, <3>6, Cancels, MulNat
    <3>8. p * out <= p * asked
      BY <2>3, <2>5, <3>7, MulNat
    <3> QED BY <2>5, <3>8, Cancels
  <2>7. seized * q + q > (out * p * n) \div Bps
    <3>1. n * (p * out) <= n * z
      BY <2>3, <2>5, MulMono, MulNat
    <3>2. PICK w \in Nat : w = out * p * n
      BY <2>5, MulNat
    <3>3. w <= y
      <4>1. w = n * (p * out)
        BY <2>5, <3>2
      <4>2. n * z \in Nat
        BY <2>3, MulNat
      <4> QED BY <2>1, <2>3, <3>1, <3>2, <4>1, <4>2
    <3>4. PICK g : g = w \div Bps
      OBVIOUS
    <3>5. g \in Nat /\ Bps * g <= w
      <4>1. w \in Nat /\ w \in Int
        BY <3>2
      <4>2. w \div Bps \in Nat
        BY <1>2, <4>1, DivNat
      <4>3. Bps * (w \div Bps) <= w
        BY <1>2, <4>1, DivBounds
      <4> QED BY <3>4, <4>2, <4>3
    <3>6. y = Bps * (coll * q) /\ coll * q \in Nat
      BY <1>2, <2>1, MulNat
    <3>7. Bps * g <= Bps * (coll * q)
      BY <1>2, <2>1, <3>2, <3>3, <3>5, <3>6, MulNat
    <3>8. g <= coll * q
      BY <1>2, <3>5, <3>6, <3>7, Cancels
    <3>9. (out * p * n) \div Bps = g
      BY <3>2, <3>4
    <3> QED BY <1>8, <3>5, <3>6, <3>8, <3>9
  <2>8. seized * q <= ((out * p + p) * n) \div Bps
    <3>1. PICK w \in Nat : w = (out * p + p) * n
      BY <2>5, MulNat
    <3>2. n * (z + 1) <= n * (out * p + p)
      BY <2>3, <2>5, MulMono, MulNat
    <3>3. n * (z + 1) = n * z + n /\ n * (out * p + p) = w
      BY <2>3, <2>5, <3>1
    <3>4. y <= w
      BY <2>1, <2>3, <3>1, <3>2, <3>3, MulNat
    <3>5. y = Bps * (coll * q)
      BY <1>2, <2>1
    <3>6. coll * q <= w \div Bps
      <4>1. w \in Int /\ coll * q \in Int
        BY <3>1
      <4>2. Bps * (coll * q) <= w
        BY <3>4, <3>5
      <4> QED BY <1>2, <4>1, <4>2, DivLargest
    <3> QED BY <1>8, <3>1, <3>6
  <2> QED BY <1>8, <2>5, <2>6, <2>7, <2>8
<1> QED BY <1>0, <1>7, <1>8

-----------------------------------------------------------------------------
(***************************************************************************)
(* Lending: the inductive invariant. A row that is locked is as it was     *)
(* read; what was found in it is still there; and a check stands as long   *)
(* as no other operation on the same positions is past its own.            *)
(***************************************************************************)

\* A reserve, whose pool is p and market m, when its interest was accrued at tick t.
UsedOf(row, p) == Utilization(ScaledToAmount(row.debt, row.bi), p)
RateOf(row, p, m) == BorrowRate(UsedOf(row, p), m)
AccruedAt(row, p, m, t) ==
    [row EXCEPT !.li = AccrueIndex(@, SupplyRate(RateOf(row, p, m), UsedOf(row, p), m), t - row.at),
                !.bi = AccrueIndex(@, RateOf(row, p, m), t - row.at),
                !.at = t]

\* The coins whose rows an operation holds while it runs.
AtWork == {"debt", "locked", "checked"}
NeededAt(r, at) == IF at = "debt" \/ r.op # "liquidate" THEN {r.coin} ELSE {r.coin, r.of.coin}
Needed(r) == NeededAt(r, lend[r].at)

Reserves == [li : Nat, bi : Nat, supply : Nat, debt : Nat, at : Nat]

LendRows ==
    /\ LendTypeOK
    /\ reserves \in [Coins -> Reserves]
    /\ slack \in [Coins -> Nat]
    /\ \A c \in Coins : Pool(c) \in Nat
    /\ lend = [r \in LendRequests |-> lend[r]]

\* What an operation has accrued is what it would accrue again: nobody else
\* touches the reserve or its pool.
LocksHold ==
    \A r \in LendRequests : lend[r].at \in AtWork =>
        /\ DOMAIN lend[r].fresh = Needed(r)
        /\ lend[r].at = "debt" => r.op = "liquidate"
        /\ lend[r].ps \in LendPrices
        /\ \A c \in Needed(r) : \E t \in reserves[c].at .. ticks : 
              lend[r].fresh[c] = AccruedAt(reserves[c], Pool(c), Market[c], t)

OneHolder == \A r, s \in LendRequests : r # s => Holding(r) \cap Holding(s) = {}

\* What was found is still there, in the coins an operation holds.
Justified(pos, r, x, idx, ps) ==
    /\ x.out \in Nat
    /\ r.op = "withdraw" => x.out <= ScaledToAmount(pos[r.coin].supply, idx[r.coin].li)
    /\ r.op \in {"repay", "liquidate"} => x.out <= ScaledToAmount(pos[r.coin].debt, idx[r.coin].bi)
    /\ r.op = "liquidate" =>
          /\ x.seized \in Nat /\ x.seized <= ScaledToAmount(pos[r.of.coin].supply, idx[r.of.coin].li)
          /\ Fair([by |-> r, move |-> x, ps |-> ps])

MovesFound ==
    \A r \in LendRequests : lend[r].at = "checked" =>
        /\ \A c \in Coins : lend[r].idx[c].li \in Nat \ {0} /\ lend[r].idx[c].bi \in Nat \ {0}
        /\ \A c \in Needed(r) : lend[r].idx[c] = lend[r].fresh[c]
        /\ Justified(positions[Owner(r)], r, lend[r].move, lend[r].idx, lend[r].ps)

\* The account of an operation passes its check.
Passes(pos, r, x, idx, ps) ==
    /\ r.op = "withdraw" /\ Debt(pos, idx, ps) > 0 =>
          Threshold(pos, idx, ps) - (Value(r.coin, x.out, ps) * Market[r.coin].threshold) \div Bps >= Debt(pos, idx, ps)
    /\ r.op = "borrow" => Debt(pos, idx, ps) + Value(r.coin, x.out, ps) <= BorrowPower(pos, idx, ps)

\* ... and would pass it again, unless another operation on it was past its own.
ChecksStand ==
    \A r \in LendRequests : lend[r].at = "checked" /\ Owner(r) \notin skewed =>
        Passes(positions[Owner(r)], r, lend[r].move, lend[r].idx, lend[r].ps)

OneCheck ==
    \A r, s \in LendRequests : r # s /\ lend[r].at = "checked" /\ lend[s].at = "checked" /\ Owner(r) = Owner(s) =>
        Owner(r) \in skewed

LendIInv ==
    /\ LendRows /\ LocksHold /\ OneHolder /\ MovesFound /\ ChecksStand /\ OneCheck
    /\ TotalsMatch /\ PoolCovers /\ DebtsCovered /\ LiquidationsFair

-----------------------------------------------------------------------------
\* What is requested, and the coins it needs.
LEMMA RequestFields ==
    ASSUME LendAssumption, NEW r \in LendRequests
    PROVE  /\ r.op \in {"supply", "withdraw", "borrow", "repay", "liquidate"}
           /\ r.user \in LendUsers /\ r.coin \in Coins /\ r.amount \in Nat
           /\ r.of.user \in LendUsers /\ r.of.coin \in Coins
           /\ Owner(r) \in LendUsers /\ Needed(r) \subseteq Coins /\ r.coin \in Needed(r)
           /\ \A at : NeededAt(r, at) \subseteq Coins
  BY DEF LendAssumption, Owner, Needed, NeededAt

\* The factors and rates of a market.
LEMMA MarketFields ==
    ASSUME LendAssumption, NEW c \in Coins
    PROVE  /\ IsMarket(Market[c])
           /\ Market[c].bonus \in Nat /\ Market[c].collateralFactor \in Nat /\ Market[c].threshold \in Nat
           /\ Market[c].collateralFactor <= Market[c].threshold
  BY DEF LendAssumption, IsMarket

\* The rates of a reserve: what is supplied earns no more than what is borrowed pays.
LEMMA RatesOfReserve ==
    ASSUME LendAssumption, NEW row \in Reserves, NEW p \in Nat, NEW m, IsMarket(m)
    PROVE  /\ UsedOf(row, p) \in 0 .. Bps /\ RateOf(row, p, m) \in Nat
           /\ SupplyRate(RateOf(row, p, m), UsedOf(row, p), m) \in Nat
           /\ Bps * SupplyRate(RateOf(row, p, m), UsedOf(row, p), m) <= RateOf(row, p, m) * UsedOf(row, p)
           /\ SupplyRate(RateOf(row, p, m), UsedOf(row, p), m) <= RateOf(row, p, m)
<1>1. row.debt \in Nat /\ row.bi \in Nat
  BY DEF Reserves
<1>2. ScaledToAmount(row.debt, row.bi) \in Nat
  BY <1>1, ScaledNat
<1>3. UsedOf(row, p) \in 0 .. Bps
  BY <1>2, UsedBounds DEF UsedOf
<1>4. RateOf(row, p, m) \in Nat
  BY <1>3, RateNat DEF RateOf
<1> QED BY <1>3, <1>4, SupplyRateSmaller

\* A reserve after its interest is accrued.
LEMMA AccruedFields ==
    ASSUME LendAssumption, NEW row \in Reserves, row.li >= Ray, row.bi >= row.li,
           NEW p \in Nat, NEW m, IsMarket(m), NEW t \in Nat, row.at <= t
    PROVE  LET new == AccruedAt(row, p, m, t)
           IN /\ new \in Reserves
              /\ new.li = AccrueIndex(row.li, SupplyRate(RateOf(row, p, m), UsedOf(row, p), m), t - row.at)
              /\ new.bi = AccrueIndex(row.bi, RateOf(row, p, m), t - row.at)
              /\ new.li >= Ray /\ new.bi >= new.li /\ new.at = t /\ new.supply = row.supply /\ new.debt = row.debt
<1>1. PICK low : low = SupplyRate(RateOf(row, p, m), UsedOf(row, p), m)
  OBVIOUS
<1>2. PICK rate : rate = RateOf(row, p, m)
  OBVIOUS
<1>3. low \in Nat /\ rate \in Nat /\ low <= rate
  BY <1>1, <1>2, RatesOfReserve
<1>4. row.li \in Nat /\ row.bi \in Nat /\ row.at \in Nat /\ t - row.at \in Nat /\ Ray \in Nat
  BY DEF Reserves, LendAssumption
<1>5. PICK e : e = t - row.at
  OBVIOUS
<1>6. PICK li : li = AccrueIndex(row.li, low, e)
  OBVIOUS
<1>7. PICK bi : bi = AccrueIndex(row.bi, rate, e)
  OBVIOUS
<1>8. li \in Nat /\ li >= row.li /\ bi \in Nat
  BY <1>3, <1>4, <1>5, <1>6, <1>7, IndexGrows
<1>9. li <= bi
  BY <1>3, <1>4, <1>5, <1>6, <1>7, IndexGrowsMore
<1>10. AccruedAt(row, p, m, t) = [row EXCEPT !.li = li, !.bi = bi, !.at = t]
  BY <1>1, <1>2, <1>5, <1>6, <1>7 DEF AccruedAt
<1>11. /\ [row EXCEPT !.li = li, !.bi = bi, !.at = t] \in Reserves
       /\ [row EXCEPT !.li = li, !.bi = bi, !.at = t].li = li
       /\ [row EXCEPT !.li = li, !.bi = bi, !.at = t].bi = bi
       /\ [row EXCEPT !.li = li, !.bi = bi, !.at = t].at = t
       /\ [row EXCEPT !.li = li, !.bi = bi, !.at = t].supply = row.supply
       /\ [row EXCEPT !.li = li, !.bi = bi, !.at = t].debt = row.debt
  BY <1>8 DEF Reserves
<1> QED BY <1>1, <1>2, <1>4, <1>5, <1>6, <1>7, <1>8, <1>9, <1>10, <1>11

\* The rows of a coin.
LEMMA ReserveFields ==
    ASSUME LendRows, NEW c \in Coins
    PROVE  /\ reserves[c] \in Reserves /\ reserves[c].li >= Ray /\ reserves[c].bi >= reserves[c].li
           /\ reserves[c].at \in Nat /\ reserves[c].at <= ticks /\ ticks \in Nat
           /\ reserves[c].supply \in Nat /\ reserves[c].debt \in Nat /\ reserves[c].li \in Nat /\ reserves[c].bi \in Nat
           /\ Pool(c) \in Nat /\ slack[c] \in Nat
<1>1. reserves[c] \in Reserves /\ Pool(c) \in Nat /\ slack[c] \in Nat
  BY DEF LendRows
<1>2. /\ reserves[c].li >= Ray /\ reserves[c].bi >= reserves[c].li
      /\ reserves[c].at \in 0 .. ticks /\ ticks \in Nat
  BY DEF LendRows, LendTypeOK
<1> QED BY <1>1, <1>2 DEF Reserves

\* What an operation holds of a coin it needs.
LEMMA FreshFields ==
    ASSUME LendAssumption, LendRows, LocksHold, NEW r \in LendRequests, lend[r].at \in AtWork, NEW c \in Needed(r)
    PROVE  LET new == lend[r].fresh[c]
           IN /\ c \in Coins /\ c \in Holding(r) /\ Holding(r) = Needed(r)
              /\ new \in Reserves
              /\ new.li = AccrueIndex(reserves[c].li,
                              SupplyRate(RateOf(reserves[c], Pool(c), Market[c]), UsedOf(reserves[c], Pool(c)), Market[c]),
                              new.at - reserves[c].at)
              /\ new.bi = AccrueIndex(reserves[c].bi, RateOf(reserves[c], Pool(c), Market[c]), new.at - reserves[c].at)
              /\ new.li \in Nat \ {0} /\ new.bi \in Nat \ {0} /\ new.li >= Ray /\ new.bi >= new.li
              /\ new.at \in Nat /\ reserves[c].at <= new.at /\ new.at <= ticks
              /\ new.supply = reserves[c].supply /\ new.debt = reserves[c].debt
<1>1. c \in Coins
  BY RequestFields
<1>2. PICK t \in reserves[c].at .. ticks : lend[r].fresh[c] = AccruedAt(reserves[c], Pool(c), Market[c], t)
  BY DEF LocksHold
<1>3. Holding(r) = Needed(r)
  BY DEF Holding, LocksHold, AtWork
<1>4. /\ reserves[c] \in Reserves /\ reserves[c].li >= Ray /\ reserves[c].bi >= reserves[c].li
      /\ reserves[c].at \in Nat /\ ticks \in Nat /\ Pool(c) \in Nat
  BY <1>1, ReserveFields
<1>5. t \in Nat /\ reserves[c].at <= t /\ t <= ticks
  BY <1>2, <1>4
<1>6. IsMarket(Market[c]) /\ Ray \in Nat \ {0}
  BY <1>1, MarketFields DEF LendAssumption
<1>7. PICK new : new = AccruedAt(reserves[c], Pool(c), Market[c], t)
  OBVIOUS
<1>8. /\ new \in Reserves
      /\ new.li = AccrueIndex(reserves[c].li,
                     SupplyRate(RateOf(reserves[c], Pool(c), Market[c]), UsedOf(reserves[c], Pool(c)), Market[c]),
                     t - reserves[c].at)
      /\ new.bi = AccrueIndex(reserves[c].bi, RateOf(reserves[c], Pool(c), Market[c]), t - reserves[c].at)
      /\ new.li >= Ray /\ new.bi >= new.li /\ new.at = t
      /\ new.supply = reserves[c].supply /\ new.debt = reserves[c].debt
  BY <1>4, <1>5, <1>6, <1>7, AccruedFields
<1>9. new.li \in Nat \ {0} /\ new.bi \in Nat \ {0}
  BY <1>6, <1>8 DEF Reserves
<1> QED BY <1>1, <1>2, <1>3, <1>5, <1>7, <1>8, <1>9

-----------------------------------------------------------------------------
\* The market starts without a position.
LEMMA LendStarts == ASSUME LendAssumption, LendInit PROVE LendIInv
<1>1. /\ led = [balance |-> LendBalance, hold |-> {}, keys |-> {}]
      /\ reserves = [c \in Coins |-> [li |-> Ray, bi |-> Ray, supply |-> 0, debt |-> 0, at |-> 0]]
      /\ positions = [u \in LendUsers |-> [c \in Coins |-> NoPosition]]
      /\ ticks = 0 /\ prices \in LendPrices
      /\ lend = [r \in LendRequests |-> New0]
      /\ audit = {} /\ slack = [c \in Coins |-> 0] /\ strained = {}
  BY DEF LendInit
<1>2. \A r \in LendRequests : lend[r].at = "new"
  BY <1>1 DEF New0
<1>3. LendRows
  <2>1. led \in Ledgers
    BY <1>1 DEF Ledgers, LendAssumption
  <2>2. \A c \in Coins : Pool(c) \in Nat
    BY <1>1 DEF Pool, LendAssumption
  <2>3. positions \in [LendUsers -> [Coins -> [supply : Nat, debt : Nat]]]
    BY <1>1 DEF NoPosition
  <2>4. Ray \in Nat
    BY DEF LendAssumption
  <2>5. reserves \in [Coins -> Reserves]
    BY <1>1, <2>4 DEF Reserves
  <2>6. LastTick \in Nat
    BY DEF LendAssumption
  <2>7. \A c \in Coins : /\ reserves[c] \in [li : Nat, bi : Nat, supply : Nat, debt : Nat, at : 0..ticks]
                         /\ reserves[c].li >= Ray /\ reserves[c].bi >= reserves[c].li
    BY <1>1, <2>4
  <2>8. ticks \in 0 .. LastTick
    BY <1>1, <2>6
  <2>9. LendTypeOK
    BY <1>1, <1>2, <2>1, <2>3, <2>7, <2>8 DEF LendTypeOK
  <2> QED BY <1>1, <2>2, <2>5, <2>9 DEF LendRows
<1>4. LocksHold /\ OneHolder /\ MovesFound /\ ChecksStand /\ OneCheck
  BY <1>2 DEF LocksHold, OneHolder, MovesFound, ChecksStand, OneCheck, Holding, AtWork
<1>5. TotalsMatch
  <2> SUFFICES ASSUME NEW c \in Coins
               PROVE  /\ reserves[c].supply = SumFunctionOnSet([u \in LendUsers |-> positions[u][c].supply], LendUsers)
                      /\ reserves[c].debt = SumFunctionOnSet([u \in LendUsers |-> positions[u][c].debt], LendUsers)
    BY DEF TotalsMatch
  <2>1. IsFiniteSet(LendUsers)
    BY DEF LendAssumption
  <2>2. \A u \in LendUsers : /\ [v \in LendUsers |-> positions[v][c].supply][u] = 0
                             /\ [v \in LendUsers |-> positions[v][c].debt][u] = 0
    BY <1>1 DEF NoPosition
  <2>3. /\ SumFunctionOnSet([u \in LendUsers |-> positions[u][c].supply], LendUsers) = 0
        /\ SumFunctionOnSet([u \in LendUsers |-> positions[u][c].debt], LendUsers) = 0
    BY <2>1, <2>2, SumZero
  <2> QED BY <1>1, <2>3
<1>6. PoolCovers
  <2> SUFFICES ASSUME NEW c \in Coins
               PROVE  Pool(c) * Ray + reserves[c].debt * reserves[c].bi + slack[c]
                        >= LendBalance[PoolWallet[c]] * Ray + reserves[c].supply * reserves[c].li
    BY DEF PoolCovers
  <2>1. Pool(c) = LendBalance[PoolWallet[c]] /\ Pool(c) \in Nat /\ Ray \in Nat
    BY <1>1 DEF Pool, LendAssumption
  <2>2. /\ reserves[c].debt = 0 /\ reserves[c].supply = 0 /\ reserves[c].li = Ray /\ reserves[c].bi = Ray
        /\ slack[c] = 0
    BY <1>1
  <2>3. Pool(c) * Ray \in Nat
    BY <2>1, MulNat
  <2> QED BY <2>1, <2>2, <2>3
<1>7. DebtsCovered /\ LiquidationsFair
  BY <1>1 DEF DebtsCovered, LiquidationsFair
<1> QED BY <1>3, <1>4, <1>5, <1>6, <1>7 DEF LendIInv

\* One operation goes on.
LEMMA OneAdvances ==
    ASSUME LendRows, NEW r \in LendRequests, NEW new, lend' = [lend EXCEPT ![r] = new]
    PROVE  /\ lend' = [s \in LendRequests |-> lend'[s]]
           /\ lend'[r] = new /\ \A s \in LendRequests \ {r} : lend'[s] = lend[s]
           /\ \A s \in LendRequests \ {r} : Holding(s)' = Holding(s) /\ Needed(s)' = Needed(s)
           /\ Needed(r)' = NeededAt(r, new.at)
           /\ Holding(r)' = IF new.at \in AtWork THEN DOMAIN new.fresh ELSE {}
<1>1. lend = [s \in LendRequests |-> lend[s]]
  BY DEF LendRows
<1>2. DOMAIN lend = LendRequests
  BY <1>1
<1>3. /\ lend' = [s \in LendRequests |-> lend'[s]]
      /\ lend'[r] = new /\ \A s \in LendRequests \ {r} : lend'[s] = lend[s]
  BY <1>2
<1> QED BY <1>3 DEF Holding, Needed, NeededAt, AtWork

\* The books stay as they are while an operation goes on.
LEMMA QuietLending ==
    ASSUME LendAssumption, LendIInv, NEW r \in LendRequests, NEW new, lend' = [lend EXCEPT ![r] = new],
           UNCHANGED <<led, reserves, positions, ticks, prices, audit, slack, strained>>, skewed \subseteq skewed',
           new.at \in {"new", "debt", "locked", "checked", "refused", "done"},
           new.at \in AtWork =>
              /\ DOMAIN new.fresh = NeededAt(r, new.at)
              /\ new.at = "debt" => r.op = "liquidate"
              /\ new.ps \in LendPrices
              /\ \A c \in NeededAt(r, new.at) : \E t \in reserves[c].at .. ticks :
                    new.fresh[c] = AccruedAt(reserves[c], Pool(c), Market[c], t)
              /\ \A s \in LendRequests \ {r} : NeededAt(r, new.at) \cap Holding(s) = {},
           new.at = "checked" =>
              /\ \A c \in Coins : new.idx[c].li \in Nat \ {0} /\ new.idx[c].bi \in Nat \ {0}
              /\ \A c \in NeededAt(r, new.at) : new.idx[c] = new.fresh[c]
              /\ Justified(positions[Owner(r)], r, new.move, new.idx, new.ps)
              /\ Passes(positions[Owner(r)], r, new.move, new.idx, new.ps)
              /\ \A s \in LendRequests \ {r} :
                    lend[s].at = "checked" /\ Owner(s) = Owner(r) => Owner(r) \in skewed'
    PROVE  LendIInv'
<1>0. LendRows /\ LocksHold /\ OneHolder /\ MovesFound /\ ChecksStand /\ OneCheck
  BY DEF LendIInv
<1>1. /\ lend' = [s \in LendRequests |-> lend'[s]]
      /\ lend'[r] = new /\ \A s \in LendRequests \ {r} : lend'[s] = lend[s]
      /\ \A s \in LendRequests \ {r} : Holding(s)' = Holding(s) /\ Needed(s)' = Needed(s)
      /\ Needed(r)' = NeededAt(r, new.at)
      /\ Holding(r)' = IF new.at \in AtWork THEN DOMAIN new.fresh ELSE {}
  BY <1>0, OneAdvances
<1>2. \A c \in Coins : Pool(c)' = Pool(c)
  BY DEF Pool
<1>3. LendRows'
  <2>1. LendTypeOK'
    BY <1>0, <1>1 DEF LendRows, LendTypeOK
  <2> QED BY <1>0, <1>1, <1>2, <2>1 DEF LendRows
<1>4. LocksHold'
  <2> SUFFICES ASSUME NEW s \in LendRequests, lend'[s].at \in AtWork
               PROVE  /\ DOMAIN lend'[s].fresh = Needed(s)'
                      /\ lend'[s].at = "debt" => s.op = "liquidate"
                      /\ lend'[s].ps \in LendPrices
                      /\ \A c \in Needed(s)' : \E t \in reserves'[c].at .. ticks' :
                            lend'[s].fresh[c] = AccruedAt(reserves'[c], Pool(c)', Market[c], t)
    BY DEF LocksHold
  <2>0. Needed(s)' \subseteq Coins
    BY RequestFields DEF Needed
  <2>1. CASE s = r
    BY <1>1, <1>2, <2>0, <2>1
  <2>2. CASE s # r
    <3>1. lend'[s] = lend[s] /\ Needed(s)' = Needed(s)
      BY <1>1, <2>2
    <3> QED BY <1>0, <1>2, <2>0, <3>1 DEF LocksHold
  <2> QED BY <2>1, <2>2
<1>5. OneHolder'
  <2> SUFFICES ASSUME NEW s \in LendRequests, NEW t \in LendRequests, s # t
               PROVE  Holding(s)' \cap Holding(t)' = {}
    BY DEF OneHolder
  <2>1. CASE s # r /\ t # r
    BY <1>0, <1>1, <2>1 DEF OneHolder
  <2>2. CASE s = r
    BY <1>1, <2>2
  <2>3. CASE t = r
    BY <1>1, <2>3
  <2> QED BY <2>1, <2>2, <2>3
<1>6. MovesFound'
  <2> SUFFICES ASSUME NEW s \in LendRequests, lend'[s].at = "checked"
               PROVE  /\ \A c \in Coins : lend'[s].idx[c].li \in Nat \ {0} /\ lend'[s].idx[c].bi \in Nat \ {0}
                      /\ \A c \in Needed(s)' : lend'[s].idx[c] = lend'[s].fresh[c]
                      /\ Justified(positions'[Owner(s)], s, lend'[s].move, lend'[s].idx, lend'[s].ps)
    BY DEF MovesFound
  <2>1. CASE s = r
    BY <1>1, <2>1
  <2>2. CASE s # r
    BY <1>0, <1>1, <2>2 DEF MovesFound
  <2> QED BY <2>1, <2>2
<1>7. ChecksStand'
  <2> SUFFICES ASSUME NEW s \in LendRequests, lend'[s].at = "checked", Owner(s) \notin skewed'
               PROVE  Passes(positions'[Owner(s)], s, lend'[s].move, lend'[s].idx, lend'[s].ps)
    BY DEF ChecksStand
  <2>1. CASE s = r
    BY <1>1, <2>1
  <2>2. CASE s # r
    BY <1>0, <1>1, <2>2 DEF ChecksStand
  <2> QED BY <2>1, <2>2
<1>8. OneCheck'
  <2> SUFFICES ASSUME NEW s \in LendRequests, NEW t \in LendRequests, s # t,
                      lend'[s].at = "checked", lend'[t].at = "checked", Owner(s) = Owner(t)
               PROVE  Owner(s) \in skewed'
    BY DEF OneCheck
  <2>1. CASE s # r /\ t # r
    BY <1>0, <1>1, <2>1 DEF OneCheck
  <2>2. CASE s = r
    BY <1>1, <2>2
  <2>3. CASE t = r
    BY <1>1, <2>3
  <2> QED BY <2>1, <2>2, <2>3
<1>9. TotalsMatch' /\ PoolCovers' /\ LiquidationsFair' /\ DebtsCovered'
  <2>1. TotalsMatch /\ PoolCovers /\ LiquidationsFair /\ DebtsCovered
    BY DEF LendIInv
  <2>2. TotalsMatch'
    BY <2>1 DEF TotalsMatch
  <2>3. PoolCovers'
    BY <1>2, <2>1 DEF PoolCovers
  <2>4. LiquidationsFair'
    BY <2>1 DEF LiquidationsFair
  <2>5. DebtsCovered'
    BY <2>1 DEF DebtsCovered
  <2> QED BY <2>2, <2>3, <2>4, <2>5
<1> QED BY <1>3, <1>4, <1>5, <1>6, <1>7, <1>8, <1>9 DEF LendIInv

-----------------------------------------------------------------------------
(***************************************************************************)
(* Lending: the steps before a commit.                                     *)
(***************************************************************************)

\* What accrue finds now is the reserve as AccruedAt says.
LEMMA AccruedNow ==
    ASSUME NEW c \in Coins
    PROVE  Accrued(c) = AccruedAt(reserves[c], Pool(c), Market[c], ticks)
  BY DEF Accrued, AccruedAt, Rate, Used, RateOf, UsedOf

\* The positions of a user.
LEMMA PositionFields ==
    ASSUME LendAssumption, LendRows, NEW u \in LendUsers, NEW c \in Coins
    PROVE  /\ positions[u] \in [Coins -> [supply : Nat, debt : Nat]]
           /\ positions[u][c].supply \in Nat /\ positions[u][c].debt \in Nat
  BY DEF LendRows, LendTypeOK

\* accrue holds a free row.
LEMMA BeginKeeps == ASSUME LendAssumption, LendIInv, NEW r \in LendRequests, Begin(r) PROVE LendIInv'
<1> DEFINE new == [at |-> IF r.op = "liquidate" /\ r.of.coin # r.coin THEN "debt" ELSE "locked",
                   fresh |-> [c \in {r.coin} |-> Accrued(c)], ps |-> prices]
<1>1. /\ lend' = [lend EXCEPT ![r] = new] /\ ReserveFree(r.coin)
      /\ UNCHANGED <<led, reserves, positions, ticks, prices, audit, slack, skewed, strained>>
  BY DEF Begin
<1>2. /\ new.at \in {"debt", "locked"} /\ (new.at = "debt" => r.op = "liquidate") /\ new.ps = prices
      /\ DOMAIN new.fresh = {r.coin} /\ new.fresh[r.coin] = Accrued(r.coin)
      /\ NeededAt(r, new.at) = {r.coin}
  BY DEF NeededAt
<1> HIDE DEF new
<1>3. r.coin \in Coins
  BY RequestFields
<1>4. new.fresh[r.coin] = AccruedAt(reserves[r.coin], Pool(r.coin), Market[r.coin], ticks)
  BY <1>2, <1>3, AccruedNow
<1>5. ticks \in reserves[r.coin].at .. ticks /\ prices \in LendPrices
  BY <1>3, ReserveFields DEF LendIInv, LendRows, LendTypeOK
<1>6. \A s \in LendRequests \ {r} : {r.coin} \cap Holding(s) = {}
  BY <1>1 DEF ReserveFree
<1> QED BY <1>1, <1>2, <1>4, <1>5, <1>6, QuietLending

\* A liquidation holds a second free row.
LEMMA AccrueCollateralKeeps ==
    ASSUME LendAssumption, LendIInv, NEW r \in LendRequests, AccrueCollateral(r) PROVE LendIInv'
<1> DEFINE new == [at |-> "locked", ps |-> lend[r].ps,
                   fresh |-> [c \in {r.coin, r.of.coin} |-> IF c = r.coin THEN lend[r].fresh[c] ELSE Accrued(c)]]
<1>0. LendRows /\ LocksHold /\ OneHolder
  BY DEF LendIInv
<1>1. /\ lend' = [lend EXCEPT ![r] = new] /\ ReserveFree(r.of.coin) /\ lend[r].at = "debt"
      /\ UNCHANGED <<led, reserves, positions, ticks, prices, audit, slack, skewed, strained>>
  BY DEF AccrueCollateral
<1>2. /\ new.at = "locked" /\ new.ps = lend[r].ps /\ DOMAIN new.fresh = {r.coin, r.of.coin}
      /\ new.fresh[r.coin] = lend[r].fresh[r.coin]
      /\ r.of.coin # r.coin => new.fresh[r.of.coin] = Accrued(r.of.coin)
  OBVIOUS
<1> HIDE DEF new
<1>3. r.coin \in Coins /\ r.of.coin \in Coins
  BY RequestFields
<1>4. lend[r].at \in AtWork /\ Needed(r) = {r.coin}
  BY <1>1 DEF AtWork, Needed, NeededAt
<1>5. /\ r.op = "liquidate" /\ lend[r].ps \in LendPrices /\ DOMAIN lend[r].fresh = {r.coin}
      /\ \E t \in reserves[r.coin].at .. ticks :
            lend[r].fresh[r.coin] = AccruedAt(reserves[r.coin], Pool(r.coin), Market[r.coin], t)
  BY <1>0, <1>1, <1>4 DEF LocksHold
<1>6. NeededAt(r, new.at) = {r.coin, r.of.coin}
  BY <1>2, <1>5 DEF NeededAt
<1>7. r.of.coin # r.coin => \E t \in reserves[r.of.coin].at .. ticks :
            new.fresh[r.of.coin] = AccruedAt(reserves[r.of.coin], Pool(r.of.coin), Market[r.of.coin], t)
  <2>1. ticks \in reserves[r.of.coin].at .. ticks
    BY <1>0, <1>3, ReserveFields
  <2> QED BY <1>2, <1>3, <2>1, AccruedNow
<1>8. \A c \in NeededAt(r, new.at) : \E t \in reserves[c].at .. ticks :
            new.fresh[c] = AccruedAt(reserves[c], Pool(c), Market[c], t)
  BY <1>2, <1>5, <1>6, <1>7
<1>9. \A s \in LendRequests \ {r} : NeededAt(r, new.at) \cap Holding(s) = {}
  <2> SUFFICES ASSUME NEW s \in LendRequests \ {r} PROVE {r.coin, r.of.coin} \cap Holding(s) = {}
    BY <1>6
  <2>1. r.of.coin \notin Holding(s)
    BY <1>1 DEF ReserveFree
  <2>2. r.coin \in Holding(r)
    BY <1>1, <1>5 DEF Holding
  <2>3. r.coin \notin Holding(s)
    BY <1>0, <2>2 DEF OneHolder
  <2> QED BY <2>1, <2>3
<1> QED BY <1>1, <1>2, <1>5, <1>6, <1>8, <1>9, QuietLending

\* A refusal, or a rollback, changes nothing else.
LEMMA GivenUpKeeps ==
    ASSUME LendAssumption, LendIInv, NEW r \in LendRequests, lend' = [lend EXCEPT ![r] = [at |-> "refused"]],
           UNCHANGED <<led, reserves, positions, ticks, prices, audit, slack, skewed, strained>>
    PROVE  LendIInv'
<1> DEFINE new == [at |-> "refused"]
<1>1. new.at = "refused" /\ lend' = [lend EXCEPT ![r] = new]
  OBVIOUS
<1> HIDE DEF new
<1>2. new.at \notin AtWork /\ new.at # "checked"
  BY <1>1 DEF AtWork
<1> QED BY <1>1, <1>2, QuietLending

\* The smaller of two amounts.
LEMMA SmallerOf == \A a, b \in Nat : Smaller(a, b) \in Nat /\ Smaller(a, b) <= a /\ Smaller(a, b) <= b
  BY DEF Smaller

\* Supplying, withdrawing, borrowing and repaying find what is there, and what
\* the account allows.
LEMMA MoveOfFour ==
    ASSUME LendAssumption, LendRows, NEW r \in LendRequests, r.op # "liquidate",
           NEW idx, \A c \in Coins : idx[c].li \in Nat \ {0} /\ idx[c].bi \in Nat \ {0},
           NEW ps \in LendPrices, NEW x \in Moves(r, idx, ps)
    PROVE  Justified(positions[Owner(r)], r, x, idx, ps) /\ Passes(positions[Owner(r)], r, x, idx, ps)
<1>1. Owner(r) = r.user /\ r.user \in LendUsers /\ r.coin \in Coins /\ r.amount \in Nat
  BY RequestFields DEF Owner
<1>2. PICK pos : pos = positions[r.user]
  OBVIOUS
<1>3. pos[r.coin].supply \in Nat /\ pos[r.coin].debt \in Nat
  BY <1>1, <1>2, PositionFields
<1>4. idx[r.coin].li \in Nat \ {0} /\ idx[r.coin].bi \in Nat \ {0}
  BY <1>1
<1>5. /\ ScaledToAmount(pos[r.coin].supply, idx[r.coin].li) \in Nat
      /\ ScaledToAmount(pos[r.coin].debt, idx[r.coin].bi) \in Nat
  BY <1>3, <1>4, ScaledNat
<1>6. CASE r.op = "supply"
  <2>1. x = [out |-> r.amount]
    BY <1>6 DEF Moves, Supplied
  <2> QED BY <1>1, <1>6, <2>1 DEF Justified, Passes
<1>7. CASE r.op = "withdraw"
  <2>1. PICK out : out = Smaller(r.amount, ScaledToAmount(pos[r.coin].supply, idx[r.coin].li))
    OBVIOUS
  <2>2. x \in Withdrawn(r, idx, ps)
    BY <1>7 DEF Moves
  <2>3. /\ x = [out |-> out]
        /\ Debt(pos, idx, ps) > 0 =>
              Threshold(pos, idx, ps) - (Value(r.coin, out, ps) * Market[r.coin].threshold) \div Bps >= Debt(pos, idx, ps)
    BY <1>2, <2>1, <2>2 DEF Withdrawn
  <2>4. x.out = out /\ out \in Nat /\ out <= ScaledToAmount(pos[r.coin].supply, idx[r.coin].li)
    BY <1>1, <1>5, <2>1, <2>3, SmallerOf
  <2>5. Justified(pos, r, x, idx, ps)
    BY <1>7, <2>4 DEF Justified
  <2>6. Passes(pos, r, x, idx, ps)
    BY <1>7, <2>3, <2>4 DEF Passes
  <2> QED BY <1>1, <1>2, <2>5, <2>6
<1>8. CASE r.op = "borrow"
  <2>1. x \in Borrowed(r, idx, ps)
    BY <1>8 DEF Moves
  <2>2. /\ x = [out |-> r.amount]
        /\ Debt(pos, idx, ps) + Value(r.coin, r.amount, ps) <= BorrowPower(pos, idx, ps)
    BY <1>2, <2>1 DEF Borrowed
  <2>3. x.out = r.amount
    BY <2>2
  <2> QED BY <1>1, <1>2, <1>8, <2>2, <2>3 DEF Justified, Passes
<1>9. CASE r.op = "repay"
  <2>1. PICK out : out = Smaller(r.amount, ScaledToAmount(pos[r.coin].debt, idx[r.coin].bi))
    OBVIOUS
  <2>2. x \in Repaid(r, idx)
    BY <1>9 DEF Moves
  <2>3. x = [out |-> out]
    BY <1>2, <2>1, <2>2 DEF Repaid
  <2>4. x.out = out /\ out \in Nat /\ out <= ScaledToAmount(pos[r.coin].debt, idx[r.coin].bi)
    BY <1>1, <1>5, <2>1, <2>3, SmallerOf
  <2> QED BY <1>1, <1>2, <1>9, <2>4 DEF Justified, Passes
<1> QED BY <1>6, <1>7, <1>8, <1>9, RequestFields

\* A liquidation finds a debt, within the close factor, and collateral for it.
LEMMA MoveOfLiquidation ==
    ASSUME LendAssumption, LendRows, NEW r \in LendRequests, r.op = "liquidate",
           NEW idx, \A c \in Coins : idx[c].li \in Nat \ {0} /\ idx[c].bi \in Nat \ {0},
           NEW ps \in LendPrices, NEW x \in Moves(r, idx, ps)
    PROVE  Justified(positions[Owner(r)], r, x, idx, ps) /\ Passes(positions[Owner(r)], r, x, idx, ps)
<1>1. /\ Owner(r) = r.of.user /\ r.of.user \in LendUsers /\ r.coin \in Coins /\ r.of.coin \in Coins /\ r.amount \in Nat
  BY RequestFields DEF Owner
<1>2. PICK pos : pos = positions[r.of.user]
  OBVIOUS
<1>3. pos[r.of.coin].supply \in Nat /\ pos[r.coin].debt \in Nat
  BY <1>1, <1>2, PositionFields
<1>4. idx[r.of.coin].li \in Nat \ {0} /\ idx[r.coin].bi \in Nat \ {0}
  BY <1>1
<1>5. PICK debt : debt = ScaledToAmount(pos[r.coin].debt, idx[r.coin].bi)
  OBVIOUS
<1>6. PICK coll : coll = ScaledToAmount(pos[r.of.coin].supply, idx[r.of.coin].li)
  OBVIOUS
<1>7. debt \in Nat /\ coll \in Nat
  BY <1>3, <1>4, <1>5, <1>6, ScaledNat
<1>8. PICK asked : asked = Smaller(r.amount, (debt * CloseFactor) \div Bps)
  OBVIOUS
<1>9. asked \in Nat /\ asked * Bps <= debt * CloseFactor /\ asked <= debt
  <2>1. CloseFactor \in 0 .. Bps /\ CloseFactor \in Nat
    BY BpsIsNat DEF LendAssumption
  <2>2. PICK k \in Nat : k = debt * CloseFactor
    BY <1>7, <2>1, MulNat
  <2>3. CloseFactor <= Bps /\ debt \in Nat
    BY <1>7, <2>1, BpsIsNat
  <2>4. k <= debt * Bps
    BY <2>1, <2>2, <2>3, MulMono, BpsIsNat
  <2>5. k \in Nat
    BY <2>2
  <2>6. PICK q \in Nat : q = k \div Bps
    BY <2>5, BpsIsNat, DivNat
  <2>7. Bps * q <= k
    BY <2>5, <2>6, BpsIsNat, DivBounds
  <2>8. asked = Smaller(r.amount, q)
    BY <1>8, <2>2, <2>6
  <2>9. asked \in Nat /\ asked <= q
    BY <1>1, <2>6, <2>8, SmallerOf
  <2>10. q <= debt
    BY <2>3, <2>4, <2>5, <2>6, <2>7, PartOfAll
  <2>11. asked * Bps <= k
    BY <2>5, <2>6, <2>7, <2>9, PartBelow
  <2> QED BY <2>2, <2>3, <2>6, <2>9, <2>10, <2>11
<1>10. PICK p \in Nat \ {0} : p = ps[r.coin]
  BY <1>1 DEF LendAssumption
<1>11. PICK q \in Nat \ {0} : q = ps[r.of.coin]
  BY <1>1 DEF LendAssumption
<1>12. PICK n \in Nat \ {0} : n = Bps + Market[r.of.coin].bonus
  BY <1>1, MarketFields, BpsIsNat
<1>13. PICK wanted : wanted = SeizedFor(asked, p, n, q)
  OBVIOUS
<1>14. PICK capped : capped = PaidFor(coll, q, n, p)
  OBVIOUS
<1>15. x \in Liquidated(r, idx, ps)
  BY DEF Moves
<1>16. x = IF wanted > coll THEN [out |-> capped, seized |-> coll, debt |-> debt]
           ELSE [out |-> asked, seized |-> wanted, debt |-> debt]
  BY <1>2, <1>5, <1>6, <1>8, <1>10, <1>11, <1>12, <1>13, <1>14, <1>15 DEF Liquidated, Value, SeizedFor, PaidFor
<1>17. wanted \in Nat
  <2>1. PICK k \in Nat : k = asked * p * n
    BY <1>9, MulNat
  <2>2. k \div Bps \in Nat
    BY BpsIsNat, DivNat
  <2> QED BY <1>13, <2>1, <2>2, DivNat DEF SeizedFor
<1>18. /\ x.debt = debt
       /\ \/ wanted <= coll /\ x.out = asked /\ x.seized = wanted
          \/ wanted > coll /\ x.out = capped /\ x.seized = coll
  BY <1>7, <1>16, <1>17
<1>19. PICK out : out = x.out
  OBVIOUS
<1>20. PICK seized : seized = x.seized
  OBVIOUS
<1>21. /\ out \in Nat /\ out <= asked /\ seized \in Nat /\ seized <= coll
       /\ seized * q + q > (out * p * n) \div Bps
       /\ seized * q <= ((out * p + p) * n) \div Bps
  <2>1. \/ SeizedFor(asked, p, n, q) <= coll /\ out = asked /\ seized = SeizedFor(asked, p, n, q)
        \/ SeizedFor(asked, p, n, q) > coll /\ out = PaidFor(coll, q, n, p) /\ seized = coll
    BY <1>13, <1>14, <1>18, <1>19, <1>20
  <2>2. asked \in Nat /\ coll \in Nat
    BY <1>7, <1>9
  <2>3. p \in Nat \ {0} /\ q \in Nat \ {0} /\ n \in Nat \ {0}
    BY <1>10, <1>11, <1>12
  <2> QED BY <2>1, <2>2, <2>3, SeizedFairly
<1>22. out <= debt /\ out * Bps <= debt * CloseFactor
  <2>1. out \in Nat /\ asked \in Nat /\ debt \in Nat /\ out <= asked /\ asked <= debt /\ asked * Bps <= debt * CloseFactor
    BY <1>7, <1>9, <1>21
  <2>2. PICK k \in Nat : k = debt * CloseFactor
    BY <2>1, MulNat, BpsIsNat DEF LendAssumption
  <2>3. k \in Nat /\ asked * Bps <= k
    BY <2>1, <2>2
  <2>4. out * Bps <= k
    BY <2>1, <2>3, PartLess
  <2> QED BY <2>1, <2>2, <2>4
<1>23. Fair([by |-> r, move |-> x, ps |-> ps])
  BY <1>10, <1>11, <1>12, <1>18, <1>19, <1>20, <1>21, <1>22 DEF Fair, Value
<1>24. Justified(pos, r, x, idx, ps)
  BY <1>5, <1>6, <1>19, <1>20, <1>21, <1>22, <1>23 DEF Justified
<1>25. Passes(pos, r, x, idx, ps)
  BY DEF Passes
<1> QED BY <1>1, <1>2, <1>24, <1>25

\* The indexes an operation works with.
LEMMA IndexesFields ==
    ASSUME LendAssumption, LendRows, LocksHold, NEW r \in LendRequests, lend[r].at \in AtWork, NEW c \in Coins
    PROVE  /\ Indexes(r)[c].li \in Nat \ {0} /\ Indexes(r)[c].bi \in Nat \ {0}
           /\ c \in Needed(r) => Indexes(r)[c] = lend[r].fresh[c]
<1>1. DOMAIN lend[r].fresh = Needed(r)
  BY DEF LocksHold
<1>2. CASE c \in Needed(r)
  BY <1>1, <1>2, FreshFields DEF Indexes
<1>3. CASE c \notin Needed(r)
  <2>1. Indexes(r)[c] = reserves[c]
    BY <1>1, <1>3 DEF Indexes
  <2>2. Ray \in Nat \ {0}
    BY DEF LendAssumption
  <2>3. /\ reserves[c].li >= Ray /\ reserves[c].bi >= reserves[c].li /\ reserves[c].li \in Nat /\ reserves[c].bi \in Nat
    BY ReserveFields
  <2> QED BY <1>3, <2>1, <2>2, <2>3
<1> QED BY <1>2, <1>3

\* An operation finds what it may move, or is refused.
LEMMA CheckKeeps == ASSUME LendAssumption, LendIInv, NEW r \in LendRequests, Check(r) PROVE LendIInv'
<1>0. LendRows /\ LocksHold /\ OneHolder
  BY DEF LendIInv
<1>1. /\ lend[r].at = "locked" /\ lend[r].at \in AtWork
      /\ UNCHANGED <<led, reserves, positions, ticks, prices, audit, slack, strained>>
  BY DEF Check, AtWork
<1>2. PICK found : found = Moves(r, Indexes(r), lend[r].ps)
  OBVIOUS
<1>3. PICK x : x = CHOOSE y \in found : TRUE
  OBVIOUS
<1> DEFINE new == [at |-> "checked", fresh |-> lend[r].fresh, ps |-> lend[r].ps, idx |-> Indexes(r), move |-> x]
<1>4. /\ lend' = [lend EXCEPT ![r] = IF found = {} THEN [at |-> "refused"] ELSE new]
      /\ skewed' = IF found # {} /\ \E s \in LendRequests \ {r} : lend[s].at = "checked" /\ Owner(s) = Owner(r)
                   THEN skewed \cup {Owner(r)} ELSE skewed
  BY <1>2, <1>3 DEF Check
<1>5. CASE found = {}
  BY <1>1, <1>4, <1>5, GivenUpKeeps
<1>6. CASE found # {}
  <2>1. /\ lend' = [lend EXCEPT ![r] = new] /\ skewed \subseteq skewed'
        /\ \A s \in LendRequests \ {r} : lend[s].at = "checked" /\ Owner(s) = Owner(r) => Owner(r) \in skewed'
    BY <1>4, <1>6
  <2>2. /\ new.at = "checked" /\ new.fresh = lend[r].fresh /\ new.ps = lend[r].ps /\ new.idx = Indexes(r)
        /\ new.move = x
    OBVIOUS
  <2> HIDE DEF new
  <2>3. NeededAt(r, new.at) = Needed(r)
    BY <1>1, <2>2 DEF Needed, NeededAt
  <2>4. /\ DOMAIN lend[r].fresh = Needed(r) /\ lend[r].ps \in LendPrices
        /\ \A c \in Needed(r) : \E t \in reserves[c].at .. ticks :
              lend[r].fresh[c] = AccruedAt(reserves[c], Pool(c), Market[c], t)
    BY <1>0, <1>1 DEF LocksHold
  <2>5. \A c \in Coins : Indexes(r)[c].li \in Nat \ {0} /\ Indexes(r)[c].bi \in Nat \ {0}
    BY <1>0, <1>1, IndexesFields
  <2>6. \A c \in Needed(r) : Indexes(r)[c] = lend[r].fresh[c]
    BY <1>0, <1>1, IndexesFields, RequestFields
  <2>7. \A s \in LendRequests \ {r} : Needed(r) \cap Holding(s) = {}
    <3>1. Holding(r) = Needed(r)
      BY <1>1, <2>4 DEF Holding
    <3> QED BY <1>0, <3>1 DEF OneHolder
  <2>8. x \in Moves(r, Indexes(r), lend[r].ps)
    BY <1>2, <1>3, <1>6
  <2>9. Justified(positions[Owner(r)], r, x, Indexes(r), lend[r].ps) /\ Passes(positions[Owner(r)], r, x, Indexes(r), lend[r].ps)
    <3>1. CASE r.op = "liquidate"
      BY <1>0, <2>4, <2>5, <2>8, <3>1, MoveOfLiquidation
    <3>2. CASE r.op # "liquidate"
      BY <1>0, <2>4, <2>5, <2>8, <3>2, MoveOfFour
    <3> QED BY <3>1, <3>2
  <2>10. /\ new.at \in {"new", "debt", "locked", "checked", "refused", "done"} /\ new.at # "debt"
         /\ DOMAIN new.fresh = NeededAt(r, new.at) /\ new.ps \in LendPrices
         /\ \A c \in NeededAt(r, new.at) : \E t \in reserves[c].at .. ticks :
               new.fresh[c] = AccruedAt(reserves[c], Pool(c), Market[c], t)
         /\ \A s \in LendRequests \ {r} : NeededAt(r, new.at) \cap Holding(s) = {}
    BY <2>2, <2>3, <2>4, <2>7
  <2>11. /\ \A c \in Coins : new.idx[c].li \in Nat \ {0} /\ new.idx[c].bi \in Nat \ {0}
         /\ \A c \in NeededAt(r, new.at) : new.idx[c] = new.fresh[c]
         /\ Justified(positions[Owner(r)], r, new.move, new.idx, new.ps)
         /\ Passes(positions[Owner(r)], r, new.move, new.idx, new.ps)
    BY <2>2, <2>3, <2>5, <2>6, <2>9
  <2> QED BY <1>1, <2>1, <2>10, <2>11, QuietLending
<1> QED BY <1>5, <1>6

-----------------------------------------------------------------------------
(***************************************************************************)
(* Lending: what a commit moves between the wallets of a user and the      *)
(* pools.                                                                  *)
(***************************************************************************)

\* What an operation pays into the pool of a coin, and what is seized from it.
PaidIn(r, x, c) ==
    IF c # r.coin THEN 0 ELSE IF r.op \in {"withdraw", "borrow"} THEN -x.out ELSE x.out
SeizedFrom(r, x, c) == IF r.op = "liquidate" /\ c = r.of.coin THEN x.seized ELSE 0

\* The wallets of the lending market.
LEMMA LendWallets ==
    ASSUME LendAssumption, NEW u \in LendUsers, NEW c \in Coins
    PROVE  /\ PoolWallet[c] \in Wallets /\ UserWallet[u][c] \in Wallets
           /\ PositionRef[u][c] \in Refs
           /\ \A d \in Coins : UserWallet[u][c] # PoolWallet[d] /\ (PoolWallet[c] = PoolWallet[d] => c = d)
  BY DEF LendAssumption

\* Two entries between a user and the pool of a coin.
LEMMA PoolAfterTwo ==
    ASSUME LendAssumption, led \in Ledgers, \A c \in Coins : Pool(c) \in Nat,
           NEW u \in LendUsers, NEW c \in Coins, NEW n \in Nat, NEW ref \in Refs, NEW type \in Types,
           NEW from, NEW to, NEW es, es = LedgerMove(from, to, n, type, ref), PostEach(es),
           \/ from = UserWallet[u][c] /\ to = PoolWallet[c]
           \/ from = PoolWallet[c] /\ to = UserWallet[u][c]
    PROVE  /\ led' \in Ledgers
           /\ \A d \in Coins : /\ Pool(d)' \in Nat
                               /\ Pool(d)' = Pool(d) + (IF d # c THEN 0 ELSE IF to = PoolWallet[c] THEN n ELSE -n)
<1>1. PICK a, b : a = Entry(from, -n, type, ref) /\ b = Entry(to, n, type, ref)
  OBVIOUS
<1>2. /\ from \in Wallets /\ to \in Wallets /\ from # to
      /\ \A d \in Coins : (from = PoolWallet[d] \/ to = PoolWallet[d]) => d = c
      /\ from = PoolWallet[c] \/ to = PoolWallet[c]
  BY LendWallets
<1>3. a \in Entries /\ b \in Entries
  BY <1>1, <1>2 DEF Entry, Entries
<1>4. PostAll(led, <<a, b>>).ok /\ led' = PostAll(led, <<a, b>>).ledger
  BY <1>1, Zenon DEF PostEach, LedgerMove
<1>5. led' = Posted(Posted(led, a), b) /\ Admits(led, a)
  BY <1>3, <1>4, PostAllTwo
<1>6. /\ led' \in Ledgers
      /\ \A w \in Wallets : /\ led'.balance[w] = led.balance[w] + Effect(a, w) + Effect(b, w)
                            /\ led.balance[w] \in Int
  <2>1. /\ Posted(Posted(led, a), b) \in Ledgers
        /\ \A w \in Wallets :
              /\ Posted(Posted(led, a), b).balance[w] = led.balance[w] + Effect(a, w) + Effect(b, w)
              /\ led.balance[w] \in Int
    BY <1>3, TransferBalances
  <2> QED BY <1>5, <2>1
<1>7. /\ \A w \in Wallets : Effect(a, w) = IF w = from THEN -n ELSE 0
      /\ \A w \in Wallets : Effect(b, w) = IF w = to THEN n ELSE 0
      /\ -n < 0 => led.balance[from] + (-n) >= 0
  BY <1>1, <1>5 DEF Effect, Entry, Admits, Covers
<1>8. ASSUME NEW d \in Coins
      PROVE  /\ Pool(d)' = Pool(d) + (IF d # c THEN 0 ELSE IF to = PoolWallet[c] THEN n ELSE -n)
             /\ Pool(d)' \in Nat
  <2>1. /\ PoolWallet[d] \in Wallets /\ Pool(d) \in Nat /\ Pool(d) = led.balance[PoolWallet[d]]
        /\ Pool(d)' = led'.balance[PoolWallet[d]]
    BY LendWallets DEF Pool
  <2>2. Pool(d)' = Pool(d) + Effect(a, PoolWallet[d]) + Effect(b, PoolWallet[d])
    BY <1>6, <2>1
  <2>3. CASE d # c
    <3>1. Effect(a, PoolWallet[d]) = 0 /\ Effect(b, PoolWallet[d]) = 0
      BY <1>2, <1>7, <2>1, <2>3
    <3> QED BY <2>1, <2>2, <2>3, <3>1
  <2>4. CASE d = c /\ to = PoolWallet[c]
    <3>1. Effect(a, PoolWallet[d]) = 0 /\ Effect(b, PoolWallet[d]) = n
      BY <1>2, <1>7, <2>1, <2>4
    <3> QED BY <2>1, <2>2, <2>4, <3>1
  <2>5. CASE d = c /\ from = PoolWallet[c]
    <3>1. Effect(a, PoolWallet[d]) = -n /\ Effect(b, PoolWallet[d]) = 0 /\ to # PoolWallet[c]
      BY <1>2, <1>7, <2>1, <2>5
    <3>2. -n < 0 => Pool(d) + (-n) >= 0
      BY <1>7, <2>1, <2>5
    <3> QED BY <2>1, <2>2, <2>5, <3>1, <3>2
  <2> QED BY <1>2, <2>3, <2>4, <2>5
<1> QED BY <1>6, <1>8

\* Two entries after two others.
LEMMA TwoAndTwo ==
    ASSUME NEW a \in Entries, NEW b \in Entries, NEW c \in Entries, NEW d \in Entries
    PROVE  <<a, b>> \o <<c, d>> = <<a, b, c, d>>
<1> DEFINE q == <<a, b>> \o <<c, d>>
           r == <<a, b, c, d>>
<1>1. \A s, t \in Seq(Entries) :
          Len(s) = Len(t) /\ (\A i \in 1..Len(s) : s[i] = t[i]) => s = t
  OBVIOUS
<1>2. q \in Seq(Entries) /\ Len(q) = 4 /\ q[1] = a /\ q[2] = b /\ q[3] = c /\ q[4] = d
  OBVIOUS
<1>3. r \in Seq(Entries) /\ Len(r) = 4 /\ r[1] = a /\ r[2] = b /\ r[3] = c /\ r[4] = d
  OBVIOUS
<1>4. 1..4 = {1, 2, 3, 4}
  OBVIOUS
<1> HIDE DEF q, r
<1>5. \A i \in 1..Len(q) : q[i] = r[i]
  BY <1>2, <1>3, <1>4
<1>6. q = r
  BY <1>1, <1>2, <1>3, <1>5
<1> QED BY <1>6 DEF q, r

\* The four entries of a liquidation: a debt is paid, and collateral is taken.
LEMMA PoolAfterFour ==
    ASSUME LendAssumption, led \in Ledgers, \A c \in Coins : Pool(c) \in Nat,
           NEW u \in LendUsers, NEW c \in Coins, NEW e \in Coins, NEW n \in Nat, NEW m \in Nat,
           NEW ref \in Refs, NEW other \in Refs, NEW type \in Types,
           PostEach(LedgerMove(UserWallet[u][c], PoolWallet[c], n, type, ref)
                    \o LedgerMove(PoolWallet[e], UserWallet[u][e], m, type, other))
    PROVE  /\ led' \in Ledgers
           /\ \A d \in Coins : /\ Pool(d)' \in Nat
                               /\ Pool(d)' = Pool(d) + (IF d = c THEN n ELSE 0) - (IF d = e THEN m ELSE 0)
<1>1. PICK x, y, z, w : /\ x = Entry(UserWallet[u][c], -n, type, ref) /\ y = Entry(PoolWallet[c], n, type, ref)
                        /\ z = Entry(PoolWallet[e], -m, type, other) /\ w = Entry(UserWallet[u][e], m, type, other)
  OBVIOUS
<1>2. /\ PoolWallet[c] \in Wallets /\ UserWallet[u][c] \in Wallets /\ PoolWallet[e] \in Wallets /\ UserWallet[u][e] \in Wallets
      /\ \A d \in Coins : /\ UserWallet[u][c] # PoolWallet[d] /\ UserWallet[u][e] # PoolWallet[d]
                          /\ PoolWallet[c] = PoolWallet[d] => c = d
                          /\ PoolWallet[e] = PoolWallet[d] => e = d
  BY LendWallets
<1>3. x \in Entries /\ y \in Entries /\ z \in Entries /\ w \in Entries
  BY <1>1, <1>2 DEF Entry, Entries
<1>0. PICK es : es = LedgerMove(UserWallet[u][c], PoolWallet[c], n, type, ref)
                     \o LedgerMove(PoolWallet[e], UserWallet[u][e], m, type, other)
  OBVIOUS
<1>4. es = <<x, y, z, w>>
  <2>1. es = <<x, y>> \o <<z, w>>
    BY <1>0, <1>1, Zenon DEF LedgerMove
  <2> QED BY <1>3, <2>1, TwoAndTwo
<1>5. PostAll(led, <<x, y, z, w>>).ok /\ led' = PostAll(led, <<x, y, z, w>>).ledger
  BY <1>0, <1>4, Zenon DEF PostEach
<1>6. PICK k : k = Posted(Posted(led, x), y)
  OBVIOUS
<1>7. led' = Posted(Posted(k, z), w) /\ Admits(k, z)
  BY <1>3, <1>5, <1>6, PostAllFour
<1>8. /\ k \in Ledgers
      /\ \A v \in Wallets : /\ k.balance[v] = led.balance[v] + Effect(x, v) + Effect(y, v)
                            /\ led.balance[v] \in Int
  <2>1. /\ Posted(Posted(led, x), y) \in Ledgers
        /\ \A v \in Wallets :
              /\ Posted(Posted(led, x), y).balance[v] = led.balance[v] + Effect(x, v) + Effect(y, v)
              /\ led.balance[v] \in Int
    BY <1>3, TransferBalances
  <2> QED BY <1>6, <2>1
<1>9. /\ led' \in Ledgers
      /\ \A v \in Wallets : /\ led'.balance[v] = k.balance[v] + Effect(z, v) + Effect(w, v)
                            /\ k.balance[v] \in Int
  <2>1. /\ Posted(Posted(k, z), w) \in Ledgers
        /\ \A v \in Wallets :
              /\ Posted(Posted(k, z), w).balance[v] = k.balance[v] + Effect(z, v) + Effect(w, v)
              /\ k.balance[v] \in Int
    BY <1>3, <1>8, TransferBalances
  <2> QED BY <1>7, <2>1
<1>10. /\ \A v \in Wallets : Effect(x, v) = IF v = UserWallet[u][c] THEN -n ELSE 0
       /\ \A v \in Wallets : Effect(y, v) = IF v = PoolWallet[c] THEN n ELSE 0
       /\ \A v \in Wallets : Effect(z, v) = IF v = PoolWallet[e] THEN -m ELSE 0
       /\ \A v \in Wallets : Effect(w, v) = IF v = UserWallet[u][e] THEN m ELSE 0
       /\ -m < 0 => k.balance[PoolWallet[e]] + (-m) >= 0
  BY <1>1, <1>7 DEF Effect, Entry, Admits, Covers
<1>11. ASSUME NEW d \in Coins
       PROVE  /\ Pool(d)' = Pool(d) + (IF d = c THEN n ELSE 0) - (IF d = e THEN m ELSE 0)
              /\ Pool(d)' \in Nat
  <2>1. /\ PoolWallet[d] \in Wallets /\ Pool(d) \in Nat /\ Pool(d) = led.balance[PoolWallet[d]]
        /\ Pool(d)' = led'.balance[PoolWallet[d]]
    BY LendWallets DEF Pool
  <2>2. PICK gain : gain = IF d = c THEN n ELSE 0
    OBVIOUS
  <2>3. PICK loss : loss = IF d = e THEN m ELSE 0
    OBVIOUS
  <2>4. /\ Effect(x, PoolWallet[d]) = 0 /\ Effect(w, PoolWallet[d]) = 0
        /\ Effect(y, PoolWallet[d]) = gain /\ Effect(z, PoolWallet[d]) = -loss
        /\ gain \in Nat /\ loss \in Nat
    BY <1>2, <1>10, <2>1, <2>2, <2>3
  <2>5. PICK mid \in Int : mid = k.balance[PoolWallet[d]]
    BY <1>9, <2>1
  <2>6. mid = Pool(d) + 0 + gain
    BY <1>8, <2>1, <2>4, <2>5
  <2>7. Pool(d)' = mid + (-loss) + 0
    BY <1>9, <2>1, <2>4, <2>5
  <2>8. d = e /\ -m < 0 => mid + (-m) >= 0
    BY <1>10, <2>5
  <2>9. PICK p \in Nat : p = Pool(d)
    BY <2>1
  <2>10. p \in Nat /\ gain \in Nat /\ loss \in Nat /\ mid \in Int /\ mid = p + 0 + gain
    BY <2>4, <2>5, <2>6, <2>9
  <2>11. mid - loss \in Nat
    <3>1. loss = 0 \/ (loss = m /\ d = e)
      BY <2>3
    <3>2. loss = 0 \/ mid + (-loss) >= 0
      BY <2>8, <2>10, <3>1
    <3> QED BY <2>10, <3>2
  <2>12. Pool(d)' = p + gain - loss /\ Pool(d)' \in Nat
    BY <2>7, <2>10, <2>11
  <2> QED BY <2>2, <2>3, <2>9, <2>12
<1> QED BY <1>9, <1>11

\* Of what an operation costs the pool, the part that is rounded down.
Cost(r, fresh, c) ==
    CASE r.op = "borrow" -> fresh[c].bi
      [] r.op = "withdraw" \/ (r.op = "liquidate" /\ c = r.of.coin) -> fresh[c].li
      [] OTHER -> 0

\* Units of a coin, at an index.
LEMMA UnitsPaid ==
    ASSUME LendAssumption, NEW n \in Nat, NEW i \in Nat \ {0}
    PROVE  /\ AmountToScaled(n, i) \in Nat
           /\ AmountToScaled(n, i) * i <= n * Ray
           /\ n * Ray <= AmountToScaled(n, i) * i + i
           /\ (-AmountToScaled(n, i)) * i = -(AmountToScaled(n, i) * i)
           /\ (-n) * Ray = -(n * Ray)
           /\ AmountToScaled(n, i) * i \in Nat /\ n * Ray \in Nat
<1>1. PICK u : u = AmountToScaled(n, i)
  OBVIOUS
<1>2. u \in Nat /\ i * u <= n * Ray /\ n * Ray < i * u + i
  BY <1>1, UnitsNat
<1>3. PICK k \in Nat : k = u * i
  BY <1>2, MulNat
<1>4. i * u = k
  BY <1>2, <1>3
<1>5. Ray \in Nat
  BY DEF LendAssumption
<1>6. PICK m \in Nat : m = n * Ray
  BY <1>5, MulNat
<1>7. k <= m /\ m <= k + i
  BY <1>2, <1>3, <1>4, <1>6
<1>8. (-u) * i = -(u * i) /\ (-n) * Ray = -(n * Ray)
  BY <1>2, <1>5
<1> QED BY <1>1, <1>2, <1>3, <1>6, <1>7, <1>8

\* What an operation does to the coins it is not about.
LEMMA OthersUnmoved ==
    ASSUME LendAssumption, NEW r \in LendRequests, NEW x, NEW f, NEW c \in Coins, c \notin NeededAt(r, "checked")
    PROVE  SupplyChange(r, x, f, c) = 0 /\ DebtChange(r, x, f, c) = 0 /\ PaidIn(r, x, c) = 0 /\ SeizedFrom(r, x, c) = 0
<1>1. c # r.coin /\ (r.op = "liquidate" => c # r.of.coin)
  BY DEF NeededAt
<1> QED BY <1>1, RequestFields DEF SupplyChange, DebtChange, PaidIn, SeizedFrom

\* What supplying, withdrawing, borrowing and repaying change.
LEMMA FourMoved ==
    ASSUME LendAssumption, NEW r \in LendRequests, r.op # "liquidate", NEW pos, NEW x, NEW f, NEW ps,
           NEW c \in Coins, c = r.coin,
           NEW S \in Nat, NEW D \in Nat, S = pos[c].supply, D = pos[c].debt,
           NEW l \in Nat \ {0}, NEW b \in Nat \ {0}, l = f[c].li, b = f[c].bi,
           Justified(pos, r, x, f, ps),
           NEW s, NEW d, s = SupplyChange(r, x, f, c), d = DebtChange(r, x, f, c)
    PROVE  /\ s \in Int /\ d \in Int /\ S + s \in Nat /\ D + d \in Nat
           /\ Cost(r, f, c) \in Nat
           /\ s * l <= (PaidIn(r, x, c) - SeizedFrom(r, x, c)) * Ray + d * b + Cost(r, f, c)
<1>1. r.op \in {"supply", "withdraw", "borrow", "repay"}
  BY RequestFields
<1>2. PICK n : n = x.out
  OBVIOUS
<1>3. n \in Nat
  BY <1>2 DEF Justified
<1>4. PICK u : u = AmountToScaled(n, l)
  OBVIOUS
<1>5. PICK v : v = AmountToScaled(n, b)
  OBVIOUS
<1>6. /\ u \in Nat /\ u * l <= n * Ray /\ n * Ray <= u * l + l /\ (-u) * l = -(u * l) /\ (-n) * Ray = -(n * Ray)
      /\ v \in Nat /\ v * b <= n * Ray /\ n * Ray <= v * b + b /\ (-v) * b = -(v * b)
      /\ u * l \in Nat /\ v * b \in Nat /\ n * Ray \in Nat
  BY <1>3, <1>4, <1>5, UnitsPaid
<1>7. SeizedFrom(r, x, c) = 0
  BY DEF SeizedFrom
<1>8. 0 * l = 0 /\ 0 * b = 0
  OBVIOUS
<1>9. CASE r.op = "supply"
  <2>1. s = u /\ d = 0 /\ PaidIn(r, x, c) = n /\ Cost(r, f, c) = 0
    BY <1>2, <1>4, <1>9 DEF SupplyChange, DebtChange, PaidIn, Cost
  <2>2. PaidIn(r, x, c) - SeizedFrom(r, x, c) = n
    BY <1>3, <1>7, <2>1
  <2> QED BY <1>6, <1>8, <2>1, <2>2
<1>10. CASE r.op = "withdraw"
  <2>1. s = -u /\ d = 0 /\ PaidIn(r, x, c) = -n /\ Cost(r, f, c) = l
    BY <1>2, <1>4, <1>10 DEF SupplyChange, DebtChange, PaidIn, Cost
  <2>2. PaidIn(r, x, c) - SeizedFrom(r, x, c) = -n
    BY <1>3, <1>7, <2>1
  <2>3. n <= ScaledToAmount(S, l)
    BY <1>2, <1>10 DEF Justified
  <2>4. u <= S
    BY <1>3, <1>4, <2>3, UnitsWithin
  <2> QED BY <1>6, <1>8, <2>1, <2>2, <2>4
<1>11. CASE r.op = "borrow"
  <2>1. s = 0 /\ d = v /\ PaidIn(r, x, c) = -n /\ Cost(r, f, c) = b
    BY <1>2, <1>5, <1>11 DEF SupplyChange, DebtChange, PaidIn, Cost
  <2>2. PaidIn(r, x, c) - SeizedFrom(r, x, c) = -n
    BY <1>3, <1>7, <2>1
  <2> QED BY <1>6, <1>8, <2>1, <2>2
<1>12. CASE r.op = "repay"
  <2>1. s = 0 /\ d = -v /\ PaidIn(r, x, c) = n /\ Cost(r, f, c) = 0
    BY <1>2, <1>5, <1>12 DEF SupplyChange, DebtChange, PaidIn, Cost
  <2>2. PaidIn(r, x, c) - SeizedFrom(r, x, c) = n
    BY <1>3, <1>7, <2>1
  <2>3. n <= ScaledToAmount(D, b)
    BY <1>2, <1>12 DEF Justified
  <2>4. v <= D
    BY <1>3, <1>5, <2>3, UnitsWithin
  <2> QED BY <1>6, <1>8, <2>1, <2>2, <2>4
<1> QED BY <1>1, <1>9, <1>10, <1>11, <1>12

\* What a liquidation changes in the coin of the debt, and in that of the collateral.
LEMMA LiquidationMoved ==
    ASSUME LendAssumption, NEW r \in LendRequests, r.op = "liquidate", NEW pos, NEW x, NEW f, NEW ps,
           NEW c \in Coins, c = r.coin \/ c = r.of.coin,
           NEW S \in Nat, NEW D \in Nat, S = pos[c].supply, D = pos[c].debt,
           NEW l \in Nat \ {0}, NEW b \in Nat \ {0}, l = f[c].li, b = f[c].bi,
           Justified(pos, r, x, f, ps),
           NEW s, NEW d, s = SupplyChange(r, x, f, c), d = DebtChange(r, x, f, c)
    PROVE  /\ s \in Int /\ d \in Int /\ S + s \in Nat /\ D + d \in Nat
           /\ Cost(r, f, c) \in Nat
           /\ s * l <= (PaidIn(r, x, c) - SeizedFrom(r, x, c)) * Ray + d * b + Cost(r, f, c)
<1>1. PICK n, m : n = x.out /\ m = x.seized
  OBVIOUS
<1>2. n \in Nat /\ m \in Nat
  BY <1>1 DEF Justified
<1>3. PICK u : u = AmountToScaled(m, l)
  OBVIOUS
<1>4. PICK v : v = AmountToScaled(n, b)
  OBVIOUS
<1>5. /\ u \in Nat /\ m * Ray <= u * l + l /\ (-u) * l = -(u * l) /\ (-m) * Ray = -(m * Ray)
      /\ u * l \in Nat /\ m * Ray \in Nat
  BY <1>2, <1>3, UnitsPaid
<1>6. /\ v \in Nat /\ v * b <= n * Ray /\ (-v) * b = -(v * b)
      /\ v * b \in Nat /\ n * Ray \in Nat
  BY <1>2, <1>4, UnitsPaid
<1>7. 0 * l = 0 /\ 0 * b = 0 /\ 0 * Ray = 0
  BY DEF LendAssumption
<1>8. c = r.coin => d = -v /\ v <= D /\ PaidIn(r, x, c) = n
  <2> SUFFICES ASSUME c = r.coin PROVE d = -v /\ v <= D /\ PaidIn(r, x, c) = n
    OBVIOUS
  <2>1. d = -v /\ PaidIn(r, x, c) = n
    BY <1>1, <1>4 DEF DebtChange, PaidIn
  <2>2. n <= ScaledToAmount(D, b)
    BY <1>1 DEF Justified
  <2>3. v <= D
    BY <1>2, <1>4, <2>2, UnitsWithin
  <2> QED BY <2>1, <2>3
<1>9. c = r.of.coin => s = -u /\ u <= S /\ SeizedFrom(r, x, c) = m /\ Cost(r, f, c) = l
  <2> SUFFICES ASSUME c = r.of.coin PROVE s = -u /\ u <= S /\ SeizedFrom(r, x, c) = m /\ Cost(r, f, c) = l
    OBVIOUS
  <2>1. s = -u /\ SeizedFrom(r, x, c) = m /\ Cost(r, f, c) = l
    BY <1>1, <1>3 DEF SupplyChange, SeizedFrom, Cost
  <2>2. m <= ScaledToAmount(S, l)
    BY <1>1 DEF Justified
  <2>3. u <= S
    BY <1>2, <1>3, <2>2, UnitsWithin
  <2> QED BY <2>1, <2>3
<1>10. CASE c = r.coin /\ c = r.of.coin
  <2>1. (PaidIn(r, x, c) - SeizedFrom(r, x, c)) * Ray = n * Ray - m * Ray
    <3>1. PaidIn(r, x, c) - SeizedFrom(r, x, c) = n - m
      BY <1>8, <1>9, <1>10
    <3>2. Ray \in Nat
      BY DEF LendAssumption
    <3>3. (n - m) * Ray = n * Ray - m * Ray
      BY <1>2, <3>2
    <3> QED BY <3>1, <3>3
  <2> QED BY <1>5, <1>6, <1>8, <1>9, <1>10, <2>1
<1>11. CASE c = r.coin /\ c # r.of.coin
  <2>1. s = 0 /\ SeizedFrom(r, x, c) = 0 /\ Cost(r, f, c) = 0
    BY <1>11 DEF SupplyChange, SeizedFrom, Cost
  <2>2. PaidIn(r, x, c) - SeizedFrom(r, x, c) = n
    BY <1>2, <1>8, <1>11, <2>1
  <2> QED BY <1>6, <1>7, <1>8, <1>11, <2>1, <2>2
<1>12. CASE c # r.coin /\ c = r.of.coin
  <2>1. d = 0 /\ PaidIn(r, x, c) = 0
    BY <1>12 DEF DebtChange, PaidIn
  <2>2. PaidIn(r, x, c) - SeizedFrom(r, x, c) = -m
    BY <1>2, <1>9, <1>12, <2>1
  <2> QED BY <1>5, <1>7, <1>9, <1>12, <2>1, <2>2
<1> QED BY <1>10, <1>11, <1>12

\* A commit moves between the wallets of a user and the pools as its entries say.
LEMMA PoolsMove ==
    ASSUME LendAssumption, led \in Ledgers, \A c \in Coins : Pool(c) \in Nat,
           NEW r \in LendRequests, NEW x, x.out \in Nat, r.op = "liquidate" => x.seized \in Nat,
           PostEach(LedgerMoves(r, x))
    PROVE  /\ led' \in Ledgers
           /\ \A c \in Coins : /\ Pool(c)' \in Nat
                               /\ Pool(c)' = Pool(c) + (PaidIn(r, x, c) - SeizedFrom(r, x, c))
<1>1. /\ r.op \in {"supply", "withdraw", "borrow", "repay", "liquidate"}
      /\ r.user \in LendUsers /\ r.coin \in Coins /\ r.of.user \in LendUsers /\ r.of.coin \in Coins
  BY RequestFields
<1>2. PICK n \in Nat : n = x.out
  OBVIOUS
<1>3. PICK mine : mine = UserWallet[r.user][r.coin]
  OBVIOUS
<1>4. PICK pool : pool = PoolWallet[r.coin]
  OBVIOUS
<1>5. PICK ref : ref = PositionRef[r.user][r.coin]
  OBVIOUS
<1>6. ref \in Refs /\ mine # pool
  BY <1>1, <1>3, <1>4, <1>5, LendWallets
<1>7. {"LEND_SUPPLY", "LEND_WITHDRAW", "LEND_BORROW", "LEND_REPAY", "LIQUIDATION"} \subseteq Types
  BY DEF LendAssumption
<1>8. PICK es : es = LedgerMoves(r, x)
  OBVIOUS
<1>9. PostEach(es)
  BY <1>8
<1>10. ASSUME r.op \in {"supply", "repay"}
       PROVE  /\ led' \in Ledgers
              /\ \A d \in Coins : /\ Pool(d)' \in Nat
                                  /\ Pool(d)' = Pool(d) + (IF d # r.coin THEN 0 ELSE n)
  <2>1. PICK type \in Types : es = LedgerMove(mine, pool, n, type, ref)
    BY <1>2, <1>3, <1>4, <1>5, <1>7, <1>8, <1>10 DEF LedgerMoves
  <2> QED BY <1>1, <1>2, <1>3, <1>4, <1>6, <1>9, <2>1, PoolAfterTwo
<1>11. ASSUME r.op \in {"withdraw", "borrow"}
       PROVE  /\ led' \in Ledgers
              /\ \A d \in Coins : /\ Pool(d)' \in Nat
                                  /\ Pool(d)' = Pool(d) + (IF d # r.coin THEN 0 ELSE -n)
  <2>1. PICK type \in Types : es = LedgerMove(pool, mine, n, type, ref)
    BY <1>2, <1>3, <1>4, <1>5, <1>7, <1>8, <1>11 DEF LedgerMoves
  <2> QED BY <1>1, <1>2, <1>3, <1>4, <1>6, <1>9, <2>1, PoolAfterTwo
<1>12. ASSUME r.op \in {"supply", "withdraw", "borrow", "repay"}, NEW c \in Coins
       PROVE  PaidIn(r, x, c) - SeizedFrom(r, x, c) = IF c # r.coin THEN 0 ELSE IF r.op \in {"supply", "repay"} THEN n ELSE -n
  <2>1. SeizedFrom(r, x, c) = 0
    BY <1>12 DEF SeizedFrom
  <2>2. /\ c # r.coin => PaidIn(r, x, c) = 0
        /\ c = r.coin /\ r.op \in {"supply", "repay"} => PaidIn(r, x, c) = n
        /\ c = r.coin /\ r.op \in {"withdraw", "borrow"} => PaidIn(r, x, c) = -n
    BY <1>2 DEF PaidIn
  <2> QED BY <1>2, <1>12, <2>1, <2>2
<1>13. CASE r.op \in {"supply", "repay"}
  BY <1>10, <1>12, <1>13
<1>14. CASE r.op \in {"withdraw", "borrow"}
  BY <1>11, <1>12, <1>14
<1>15. CASE r.op = "liquidate"
  <2>1. PICK m \in Nat : m = x.seized
    BY <1>15
  <2>2. PICK e \in Coins : e = r.of.coin
    BY <1>1
  <2>3. PICK own, other \in Refs : own = PositionRef[r.of.user][r.coin] /\ other = PositionRef[r.of.user][e]
    BY <1>1, <2>2, LendWallets
  <2>4. PICK u \in LendUsers, c \in Coins : u = r.user /\ c = r.coin
    BY <1>1
  <2>5. /\ led' \in Ledgers
        /\ \A d \in Coins : /\ Pool(d)' \in Nat
                            /\ Pool(d)' = Pool(d) + (IF d = c THEN n ELSE 0) - (IF d = e THEN m ELSE 0)
    <3>1. "LIQUIDATION" \in Types
      BY <1>7
    <3>2. es = LedgerMove(UserWallet[u][c], PoolWallet[c], n, "LIQUIDATION", own)
               \o LedgerMove(PoolWallet[e], UserWallet[u][e], m, "LIQUIDATION", other)
      BY <1>2, <1>8, <1>15, <2>1, <2>2, <2>3, <2>4, Zenon DEF LedgerMoves
    <3>3. u \in LendUsers /\ c \in Coins /\ e \in Coins /\ n \in Nat /\ m \in Nat /\ own \in Refs /\ other \in Refs
      BY <1>2, <2>1, <2>2, <2>3, <2>4
    <3>4. PostEach(LedgerMove(UserWallet[u][c], PoolWallet[c], n, "LIQUIDATION", own)
                   \o LedgerMove(PoolWallet[e], UserWallet[u][e], m, "LIQUIDATION", other))
      BY <1>9, <3>2
    <3> QED BY <3>1, <3>3, <3>4, PoolAfterFour
  <2>6. ASSUME NEW k \in Coins
        PROVE  PaidIn(r, x, k) = (IF k = r.coin THEN n ELSE 0) /\ SeizedFrom(r, x, k) = (IF k = e THEN m ELSE 0)
    BY <1>2, <1>15, <2>1, <2>2 DEF PaidIn, SeizedFrom
  <2>7. ASSUME NEW d \in Coins
        PROVE  Pool(d)' \in Nat /\ Pool(d)' = Pool(d) + (PaidIn(r, x, d) - SeizedFrom(r, x, d))
    <3>1. PICK i \in Nat : i = IF d = c THEN n ELSE 0
      OBVIOUS
    <3>2. PICK o \in Nat : o = IF d = e THEN m ELSE 0
      OBVIOUS
    <3>3. Pool(d) \in Nat /\ Pool(d)' \in Nat /\ Pool(d)' = Pool(d) + i - o
      BY <2>5, <3>1, <3>2
    <3>4. PaidIn(r, x, d) = i /\ SeizedFrom(r, x, d) = o
      BY <2>4, <2>6, <3>1, <3>2
    <3> QED BY <3>1, <3>2, <3>3, <3>4
  <2> QED BY <2>5, <2>7
<1> QED BY <1>1, <1>13, <1>14, <1>15

-----------------------------------------------------------------------------
(***************************************************************************)
(* Lending: the account of a user, as sums over the coins.                 *)
(***************************************************************************)

\* What the collateral and the debt of a coin count for.
Counted(pos, idx, ps, factor, c) == (Value(c, ScaledToAmount(pos[c].supply, idx[c].li), ps) * Market[c][factor]) \div Bps
Owed(pos, idx, ps, c) == Value(c, ScaledToAmount(pos[c].debt, idx[c].bi), ps)

\* The positions of a user, and indexes to count them by.
Countable(pos, idx) ==
    \A c \in Coins : /\ pos[c].supply \in Nat /\ pos[c].debt \in Nat
                     /\ idx[c].li \in Nat \ {0} /\ idx[c].bi \in Nat \ {0}

\* A value at the prices of a table.
LEMMA ValueNat ==
    ASSUME LendAssumption, NEW ps \in LendPrices, NEW c \in Coins, NEW n \in Nat
    PROVE  Value(c, n, ps) \in Nat /\ Value(c, n, ps) = n * ps[c] /\ ps[c] \in Nat
<1>1. ps[c] \in Nat
  BY DEF LendAssumption
<1> QED BY <1>1, MulNat DEF Value

\* What a coin counts for; as borrowing power it counts for no more than as cover.
LEMMA CountedNat ==
    ASSUME LendAssumption, NEW pos, NEW idx, Countable(pos, idx), NEW ps \in LendPrices, NEW c \in Coins
    PROVE  /\ Counted(pos, idx, ps, "threshold", c) \in Nat /\ Counted(pos, idx, ps, "collateralFactor", c) \in Nat
           /\ Owed(pos, idx, ps, c) \in Nat
           /\ Counted(pos, idx, ps, "collateralFactor", c) <= Counted(pos, idx, ps, "threshold", c)
<1>1. pos[c].supply \in Nat /\ pos[c].debt \in Nat /\ idx[c].li \in Nat /\ idx[c].bi \in Nat
  BY DEF Countable
<1>2. PICK n : n = ScaledToAmount(pos[c].supply, idx[c].li)
  OBVIOUS
<1>3. PICK m : m = ScaledToAmount(pos[c].debt, idx[c].bi)
  OBVIOUS
<1>4. n \in Nat /\ m \in Nat
  BY <1>1, <1>2, <1>3, ScaledNat
<1>5. PICK v : v = Value(c, n, ps)
  OBVIOUS
<1>6. v \in Nat
  BY <1>4, <1>5, ValueNat
<1>7. PICK low : low = Market[c]["collateralFactor"]
  OBVIOUS
<1>8. PICK high : high = Market[c]["threshold"]
  OBVIOUS
<1>9. low \in Nat /\ high \in Nat /\ low <= high
  BY <1>7, <1>8, MarketFields
<1>10. PICK x : x = v * low
  OBVIOUS
<1>11. PICK y : y = v * high
  OBVIOUS
<1>12. x \in Nat /\ y \in Nat /\ x <= y
  BY <1>6, <1>9, <1>10, <1>11, MulNat, MulMono
<1>13. x \div Bps \in Nat /\ y \div Bps \in Nat /\ x \div Bps <= y \div Bps
  BY <1>12, BpsIsNat, DivNat, DivMono
<1>14. /\ Counted(pos, idx, ps, "threshold", c) = y \div Bps
       /\ Counted(pos, idx, ps, "collateralFactor", c) = x \div Bps
  BY <1>2, <1>5, <1>7, <1>8, <1>10, <1>11 DEF Counted
<1>15. Owed(pos, idx, ps, c) \in Nat
  BY <1>3, <1>4, ValueNat DEF Owed
<1> QED BY <1>13, <1>14, <1>15

\* The sums of the account.
Counts(pos, idx, ps, factor) == [c \in Coins |-> Counted(pos, idx, ps, factor, c)]
Owes(pos, idx, ps) == [c \in Coins |-> Owed(pos, idx, ps, c)]

\* The account as sums over the coins.
LEMMA AccountSums ==
    ASSUME LendAssumption, NEW pos, NEW idx, Countable(pos, idx), NEW ps \in LendPrices
    PROVE  /\ Threshold(pos, idx, ps) = SumFunctionOnSet(Counts(pos, idx, ps, "threshold"), Coins)
           /\ BorrowPower(pos, idx, ps) = SumFunctionOnSet(Counts(pos, idx, ps, "collateralFactor"), Coins)
           /\ Debt(pos, idx, ps) = SumFunctionOnSet(Owes(pos, idx, ps), Coins)
           /\ Summands(Counts(pos, idx, ps, "threshold"), Coins)
           /\ Summands(Owes(pos, idx, ps), Coins)
           /\ Threshold(pos, idx, ps) \in Nat /\ Debt(pos, idx, ps) \in Nat /\ BorrowPower(pos, idx, ps) \in Nat
           /\ BorrowPower(pos, idx, ps) <= Threshold(pos, idx, ps)
<1> DEFINE T == Counts(pos, idx, ps, "threshold")
           B == Counts(pos, idx, ps, "collateralFactor")
           D == Owes(pos, idx, ps)
<1>1. /\ Threshold(pos, idx, ps) = SumFunctionOnSet(T, Coins)
      /\ BorrowPower(pos, idx, ps) = SumFunctionOnSet(B, Coins)
      /\ Debt(pos, idx, ps) = SumFunctionOnSet(D, Coins)
  BY DEF Threshold, BorrowPower, Collateral, Debt, Counted, Owed, Counts, Owes
<1>2. \A c \in Coins : T[c] \in Nat /\ B[c] \in Nat /\ D[c] \in Nat /\ B[c] <= T[c]
  BY CountedNat DEF Counts, Owes
<1>3. IsFiniteSet(Coins)
  BY DEF LendAssumption
<1> HIDE DEF T, B, D
<1>4. Summands(T, Coins) /\ Summands(B, Coins) /\ Summands(D, Coins)
  BY <1>2, <1>3 DEF Summands
<1>5. /\ SumFunctionOnSet(T, Coins) \in Nat /\ SumFunctionOnSet(B, Coins) \in Nat /\ SumFunctionOnSet(D, Coins) \in Nat
  BY <1>2, <1>3, SumNat
<1>6. SumFunctionOnSet(B, Coins) <= SumFunctionOnSet(T, Coins)
  BY <1>2, <1>4, SumAtMost
<1> QED BY <1>1, <1>4, <1>5, <1>6 DEF T, B, D

\* One position changes, and the account by as much.
LEMMA AccountChange ==
    ASSUME LendAssumption, NEW pos, NEW new, NEW idx, Countable(pos, idx), Countable(new, idx), NEW ps \in LendPrices,
           NEW e \in Coins, \A c \in Coins \ {e} : new[c] = pos[c]
    PROVE  /\ Threshold(new, idx, ps) = Threshold(pos, idx, ps) - Counted(pos, idx, ps, "threshold", e)
                                                                + Counted(new, idx, ps, "threshold", e)
           /\ Debt(new, idx, ps) = Debt(pos, idx, ps) - Owed(pos, idx, ps, e) + Owed(new, idx, ps, e)
<1> DEFINE T == Counts(pos, idx, ps, "threshold")
           U == Counts(new, idx, ps, "threshold")
           D == Owes(pos, idx, ps)
           E == Owes(new, idx, ps)
<1>1. /\ Threshold(pos, idx, ps) = SumFunctionOnSet(T, Coins) /\ Threshold(new, idx, ps) = SumFunctionOnSet(U, Coins)
      /\ Debt(pos, idx, ps) = SumFunctionOnSet(D, Coins) /\ Debt(new, idx, ps) = SumFunctionOnSet(E, Coins)
      /\ Summands(T, Coins) /\ Summands(U, Coins) /\ Summands(D, Coins) /\ Summands(E, Coins)
  BY AccountSums
<1>2. /\ \A c \in Coins \ {e} : U[c] = T[c] /\ E[c] = D[c]
      /\ T[e] = Counted(pos, idx, ps, "threshold", e) /\ U[e] = Counted(new, idx, ps, "threshold", e)
      /\ D[e] = Owed(pos, idx, ps, e) /\ E[e] = Owed(new, idx, ps, e)
  BY DEF Counted, Owed, Counts, Owes
<1> HIDE DEF T, U, D, E
<1>3. SumFunctionOnSet(U, Coins) = SumFunctionOnSet(T, Coins) - T[e] + U[e]
  BY <1>1, <1>2, SumChange
<1>4. SumFunctionOnSet(E, Coins) = SumFunctionOnSet(D, Coins) - D[e] + E[e]
  BY <1>1, <1>2, SumChange
<1> QED BY <1>1, <1>2, <1>3, <1>4

\* A quotient loses one at most when what is divided is parted.
LEMMA DivMinus == \A a, b, c \in Nat, n \in Nat \ {0} : a + b >= c => a \div n + b \div n + 1 >= c \div n
<1> SUFFICES ASSUME NEW a \in Nat, NEW b \in Nat, NEW c \in Nat, NEW n \in Nat \ {0}, a + b >= c
             PROVE  a \div n + b \div n + 1 >= c \div n
  OBVIOUS
<1>1. PICK x : x = a \div n
  OBVIOUS
<1>2. PICK y : y = b \div n
  OBVIOUS
<1>3. PICK z : z = c \div n
  OBVIOUS
<1>4. x \in Nat /\ n * x <= a /\ a < n * x + n
  BY <1>1, DivNat, DivBounds
<1>5. y \in Nat /\ n * y <= b /\ b < n * y + n
  BY <1>2, DivNat, DivBounds
<1>6. z \in Nat /\ n * z <= c
  BY <1>3, DivNat, DivBounds
<1>7. n * (x + y + 2) = n * x + n * y + n + n
  BY <1>4, <1>5
<1>8. n * z < n * (x + y + 2)
  BY <1>4, <1>5, <1>6, <1>7, MulNat
<1>9. z < x + y + 2
  <2> SUFFICES ASSUME z >= x + y + 2 PROVE FALSE
    BY <1>4, <1>5, <1>6
  <2>1. n * (x + y + 2) <= n * z
    BY <1>4, <1>5, <1>6, MulMono
  <2> QED BY <1>4, <1>5, <1>6, <1>8, <2>1, MulNat
<1> QED BY <1>1, <1>2, <1>3, <1>4, <1>5, <1>6, <1>9

\* What has passed its check is not strained by what it withdraws.
LEMMA WithdrawalCovered ==
    ASSUME LendAssumption, NEW pos, NEW new, NEW idx, Countable(pos, idx), Countable(new, idx), NEW ps \in LendPrices,
           NEW e \in Coins, \A c \in Coins \ {e} : new[c] = pos[c], NEW n \in Nat,
           n <= ScaledToAmount(pos[e].supply, idx[e].li),
           new[e].supply = pos[e].supply - AmountToScaled(n, idx[e].li), new[e].debt = pos[e].debt,
           Debt(pos, idx, ps) > 0 =>
              Threshold(pos, idx, ps) - (Value(e, n, ps) * Market[e].threshold) \div Bps >= Debt(pos, idx, ps)
    PROVE  ~ Strained(new, idx, ps)
<1>1. /\ Threshold(pos, idx, ps) \in Nat /\ Debt(pos, idx, ps) \in Nat
      /\ Threshold(new, idx, ps) \in Nat /\ Debt(new, idx, ps) \in Nat
  BY AccountSums
<1>2. /\ Threshold(new, idx, ps) = Threshold(pos, idx, ps) - Counted(pos, idx, ps, "threshold", e)
                                                           + Counted(new, idx, ps, "threshold", e)
      /\ Debt(new, idx, ps) = Debt(pos, idx, ps) - Owed(pos, idx, ps, e) + Owed(new, idx, ps, e)
  BY AccountChange
<1>3. Owed(new, idx, ps, e) = Owed(pos, idx, ps, e) /\ Owed(pos, idx, ps, e) \in Nat
  BY CountedNat DEF Owed
<1>4. Debt(new, idx, ps) = Debt(pos, idx, ps)
  BY <1>1, <1>2, <1>3
<1>5. pos[e].supply \in Nat /\ new[e].supply \in Nat /\ idx[e].li \in Nat \ {0}
  BY DEF Countable
<1>6. PICK was : was = ScaledToAmount(pos[e].supply, idx[e].li)
  OBVIOUS
<1>7. PICK is : is = ScaledToAmount(new[e].supply, idx[e].li)
  OBVIOUS
<1>8. was \in Nat /\ is \in Nat /\ was <= is + n
  <2>1. was \in Nat /\ is \in Nat
    BY <1>5, <1>6, <1>7, ScaledNat
  <2>2. is >= was - n
    BY <1>5, <1>6, <1>7, LessAfter
  <2> QED BY <2>1, <2>2
<1>9. PICK k \in Nat : k = Market[e].threshold
  BY MarketFields
<1>10. PICK p \in Nat : p = ps[e]
  BY ValueNat
<1>11. /\ Counted(pos, idx, ps, "threshold", e) = ((was * p) * k) \div Bps
       /\ Counted(new, idx, ps, "threshold", e) = ((is * p) * k) \div Bps
       /\ (Value(e, n, ps) * Market[e].threshold) \div Bps = ((n * p) * k) \div Bps
  BY <1>6, <1>7, <1>9, <1>10 DEF Counted, Value
<1>12. PICK a \in Nat : a = (is * p) * k
  BY <1>8, <1>10, MulNat
<1>13. PICK b \in Nat : b = (n * p) * k
  BY <1>10, MulNat
<1>14. PICK c \in Nat : c = (was * p) * k
  BY <1>8, <1>10, MulNat
<1>15. a + b >= c
  <2>1. p * k \in Nat
    BY <1>9, <1>10, MulNat
  <2>2. (p * k) * was <= (p * k) * (is + n)
    BY <1>8, <2>1, MulMono
  <2>3. (p * k) * was = c
    BY <1>8, <1>9, <1>10, <1>14
  <2>4. (p * k) * (is + n) = a + b
    BY <1>8, <1>9, <1>10, <1>12, <1>13
  <2> QED BY <1>12, <1>13, <1>14, <2>2, <2>3, <2>4
<1>16. a \div Bps + b \div Bps + 1 >= c \div Bps
  BY <1>12, <1>13, <1>14, <1>15, DivMinus, BpsIsNat
<1>17. a \div Bps \in Nat /\ b \div Bps \in Nat /\ c \div Bps \in Nat
  BY <1>12, <1>13, <1>14, DivNat, BpsIsNat
<1>18. PICK t, u, v : t = a \div Bps /\ u = b \div Bps /\ v = c \div Bps
  OBVIOUS
<1>19. t \in Nat /\ u \in Nat /\ v \in Nat /\ t + u + 1 >= v
  BY <1>16, <1>17, <1>18
<1>20. /\ Threshold(new, idx, ps) = Threshold(pos, idx, ps) - v + t
       /\ Debt(pos, idx, ps) > 0 => Threshold(pos, idx, ps) - u >= Debt(pos, idx, ps)
  BY <1>2, <1>11, <1>12, <1>13, <1>14, <1>18
<1>21. Threshold(new, idx, ps) + 1 >= Debt(new, idx, ps)
  BY <1>1, <1>4, <1>19, <1>20
<1> QED BY <1>1, <1>21 DEF Strained

\* ... nor by what it borrows.
LEMMA BorrowingCovered ==
    ASSUME LendAssumption, NEW pos, NEW new, NEW idx, Countable(pos, idx), Countable(new, idx), NEW ps \in LendPrices,
           NEW e \in Coins, \A c \in Coins \ {e} : new[c] = pos[c], NEW n \in Nat,
           new[e].debt = pos[e].debt + AmountToScaled(n, idx[e].bi), new[e].supply = pos[e].supply,
           Debt(pos, idx, ps) + Value(e, n, ps) <= BorrowPower(pos, idx, ps)
    PROVE  ~ Strained(new, idx, ps)
<1>1. /\ Threshold(pos, idx, ps) \in Nat /\ Debt(pos, idx, ps) \in Nat /\ BorrowPower(pos, idx, ps) \in Nat
      /\ BorrowPower(pos, idx, ps) <= Threshold(pos, idx, ps)
      /\ Threshold(new, idx, ps) \in Nat /\ Debt(new, idx, ps) \in Nat
  BY AccountSums
<1>2. /\ Threshold(new, idx, ps) = Threshold(pos, idx, ps) - Counted(pos, idx, ps, "threshold", e)
                                                           + Counted(new, idx, ps, "threshold", e)
      /\ Debt(new, idx, ps) = Debt(pos, idx, ps) - Owed(pos, idx, ps, e) + Owed(new, idx, ps, e)
  BY AccountChange
<1>3. /\ Counted(new, idx, ps, "threshold", e) = Counted(pos, idx, ps, "threshold", e)
      /\ Counted(pos, idx, ps, "threshold", e) \in Nat
  BY CountedNat DEF Counted
<1>4. Threshold(new, idx, ps) = Threshold(pos, idx, ps)
  BY <1>1, <1>2, <1>3
<1>5. pos[e].debt \in Nat /\ new[e].debt \in Nat /\ idx[e].bi \in Nat \ {0}
  BY DEF Countable
<1>6. PICK was : was = ScaledToAmount(pos[e].debt, idx[e].bi)
  OBVIOUS
<1>7. PICK is : is = ScaledToAmount(new[e].debt, idx[e].bi)
  OBVIOUS
<1>8. was \in Nat /\ is \in Nat /\ is <= was + n
  BY <1>5, <1>6, <1>7, ScaledNat, MoreAfter
<1>9. PICK p \in Nat : p = ps[e]
  BY ValueNat
<1>10. PICK a \in Nat : a = is * p
  BY <1>8, <1>9, MulNat
<1>11. PICK b \in Nat : b = n * p
  BY <1>9, MulNat
<1>12. PICK c \in Nat : c = was * p
  BY <1>8, <1>9, MulNat
<1>13. Owed(new, idx, ps, e) = a /\ Owed(pos, idx, ps, e) = c /\ Value(e, n, ps) = b
  BY <1>6, <1>7, <1>9, <1>10, <1>11, <1>12 DEF Owed, Value
<1>14. a <= b + c
  <2>1. p * is <= p * (was + n)
    BY <1>8, <1>9, MulMono
  <2>2. p * is = a /\ p * (was + n) = b + c
    BY <1>8, <1>9, <1>10, <1>11, <1>12
  <2> QED BY <2>1, <2>2
<1>15. Debt(new, idx, ps) = Debt(pos, idx, ps) - c + a /\ Debt(pos, idx, ps) + b <= BorrowPower(pos, idx, ps)
  BY <1>2, <1>13
<1>16. Debt(new, idx, ps) <= Threshold(new, idx, ps)
  <2>1. a \in Nat /\ b \in Nat /\ c \in Nat
    BY <1>10, <1>11, <1>12
  <2> QED BY <1>1, <1>4, <1>14, <1>15, <2>1
<1> QED BY <1>1, <1>16 DEF Strained

-----------------------------------------------------------------------------
(***************************************************************************)
(* Lending: the commit.                                                    *)
(***************************************************************************)

\* A commit that succeeds.
Committed(r, x, f) ==
    /\ lend[r].at = "checked" /\ x = lend[r].move /\ f = lend[r].fresh
    /\ PostEach(LedgerMoves(r, x))
    /\ positions' = [positions EXCEPT ![Owner(r)] = [c \in Coins |-> Changed(@[c], r, x, f, c)]]
    /\ reserves' = [c \in Coins |-> IF c \in DOMAIN f THEN Changed(f[c], r, x, f, c) ELSE reserves[c]]
    /\ slack' = [c \in Coins |-> IF c \in DOMAIN f THEN Slack(r, f, c) ELSE slack[c]]
    /\ lend' = [lend EXCEPT ![r] = [at |-> "done"]]
    /\ UNCHANGED <<ticks, prices, skewed>>

\* A change that fits is not cut off at zero.
LEMMA GrownFits == \A n, ch : n + ch \in Nat => Grown(n, ch) = n + ch
  BY DEF Grown

\* A position, and a reserve, that a change leaves with naturals.
LEMMA PositionChanged ==
    ASSUME NEW row \in [supply : Nat, debt : Nat], NEW r, NEW x, NEW f, NEW c,
           NEW s, NEW d, s = SupplyChange(r, x, f, c), d = DebtChange(r, x, f, c),
           row.supply + s \in Nat, row.debt + d \in Nat
    PROVE  /\ Changed(row, r, x, f, c) \in [supply : Nat, debt : Nat]
           /\ Changed(row, r, x, f, c).supply = row.supply + s /\ Changed(row, r, x, f, c).debt = row.debt + d
<1>1. PICK n : n = row.supply + s
  OBVIOUS
<1>2. PICK m : m = row.debt + d
  OBVIOUS
<1>3. n \in Nat /\ m \in Nat /\ Grown(row.supply, s) = n /\ Grown(row.debt, d) = m
  BY <1>1, <1>2, GrownFits
<1>4. Changed(row, r, x, f, c) = [row EXCEPT !.supply = n, !.debt = m]
  BY <1>3 DEF Changed
<1> QED BY <1>1, <1>2, <1>3, <1>4

\* A reserve after a change: its indexes are those that were accrued.
LEMMA ReserveChanged ==
    ASSUME NEW row \in Reserves, NEW r, NEW x, NEW f, NEW c,
           NEW s, NEW d, s = SupplyChange(r, x, f, c), d = DebtChange(r, x, f, c),
           row.supply + s \in Nat, row.debt + d \in Nat
    PROVE  /\ Changed(row, r, x, f, c) \in Reserves
           /\ Changed(row, r, x, f, c).supply = row.supply + s /\ Changed(row, r, x, f, c).debt = row.debt + d
           /\ Changed(row, r, x, f, c).li = row.li /\ Changed(row, r, x, f, c).bi = row.bi
           /\ Changed(row, r, x, f, c).at = row.at
<1>1. PICK n : n = row.supply + s
  OBVIOUS
<1>2. PICK m : m = row.debt + d
  OBVIOUS
<1>3. n \in Nat /\ m \in Nat /\ Grown(row.supply, s) = n /\ Grown(row.debt, d) = m
  BY <1>1, <1>2, GrownFits
<1>4. Changed(row, r, x, f, c) = [row EXCEPT !.supply = n, !.debt = m]
  BY <1>3 DEF Changed
<1>5. /\ [row EXCEPT !.supply = n, !.debt = m] \in Reserves
      /\ [row EXCEPT !.supply = n, !.debt = m].supply = n /\ [row EXCEPT !.supply = n, !.debt = m].debt = m
      /\ [row EXCEPT !.supply = n, !.debt = m].li = row.li /\ [row EXCEPT !.supply = n, !.debt = m].bi = row.bi
      /\ [row EXCEPT !.supply = n, !.debt = m].at = row.at
  BY <1>3 DEF Reserves
<1> QED BY <1>1, <1>2, <1>4, <1>5

\* What one may take, and what becomes of the pool, by the units of the coin.
LEMMA MoveFits ==
    ASSUME LendAssumption, LendIInv, NEW r \in LendRequests, lend[r].at = "checked",
           NEW x, NEW f, x = lend[r].move, f = lend[r].fresh, NEW c \in Coins,
           NEW s, NEW d, s = SupplyChange(r, x, f, c), d = DebtChange(r, x, f, c)
    PROVE  /\ s \in Int /\ d \in Int
           /\ positions[Owner(r)][c].supply + s \in Nat /\ positions[Owner(r)][c].debt + d \in Nat
           /\ c \in Needed(r) => /\ Cost(r, f, c) \in Nat
                                 /\ s * f[c].li <= (PaidIn(r, x, c) - SeizedFrom(r, x, c)) * Ray + d * f[c].bi + Cost(r, f, c)
           /\ c \notin Needed(r) => s = 0 /\ d = 0 /\ PaidIn(r, x, c) = 0 /\ SeizedFrom(r, x, c) = 0
<1>0. LendRows /\ LocksHold /\ MovesFound /\ lend[r].at \in AtWork
  BY DEF LendIInv, AtWork
<1>1. PICK pos : pos = positions[Owner(r)]
  OBVIOUS
<1>2. pos[c].supply \in Nat /\ pos[c].debt \in Nat
  BY <1>0, <1>1, RequestFields, PositionFields
<1>3. Needed(r) = NeededAt(r, "checked")
  BY DEF Needed
<1>4. CASE c \notin Needed(r)
  BY <1>1, <1>2, <1>3, <1>4, OthersUnmoved
<1>5. CASE c \in Needed(r)
  <2>1. f[c].li \in Nat \ {0} /\ f[c].bi \in Nat \ {0}
    BY <1>0, <1>5, FreshFields
  <2>2. /\ \A e \in Needed(r) : lend[r].idx[e] = f[e]
        /\ Justified(pos, r, x, lend[r].idx, lend[r].ps)
    BY <1>0, <1>1 DEF MovesFound
  <2>3. r.coin \in Needed(r) /\ (r.op = "liquidate" => r.of.coin \in Needed(r))
    BY <1>3 DEF NeededAt
  <2>4. Justified(pos, r, x, f, lend[r].ps)
    BY <2>2, <2>3 DEF Justified
  <2>5. c = r.coin \/ (r.op = "liquidate" /\ c = r.of.coin)
    BY <1>3, <1>5 DEF NeededAt
  <2>6. PICK S, D, l, b : S = pos[c].supply /\ D = pos[c].debt /\ l = f[c].li /\ b = f[c].bi
    OBVIOUS
  <2>7. S \in Nat /\ D \in Nat /\ l \in Nat \ {0} /\ b \in Nat \ {0}
    BY <1>2, <2>1, <2>6
  <2>8. /\ s \in Int /\ d \in Int /\ S + s \in Nat /\ D + d \in Nat
        /\ Cost(r, f, c) \in Nat
        /\ s * l <= (PaidIn(r, x, c) - SeizedFrom(r, x, c)) * Ray + d * b + Cost(r, f, c)
    <3>1. CASE r.op = "liquidate"
      BY <2>4, <2>5, <2>6, <2>7, <3>1, LiquidationMoved
    <3>2. CASE r.op # "liquidate"
      BY <2>4, <2>5, <2>6, <2>7, <3>2, FourMoved
    <3> QED BY <3>1, <3>2
  <2> QED BY <1>1, <1>5, <2>6, <2>8
<1> QED BY <1>4, <1>5

\* A position is part of the total of its reserve.
LEMMA PartOfReserve ==
    ASSUME LendAssumption, LendRows, TotalsMatch, NEW u \in LendUsers, NEW c \in Coins
    PROVE  positions[u][c].supply <= reserves[c].supply /\ positions[u][c].debt <= reserves[c].debt
<1> DEFINE S == [v \in LendUsers |-> positions[v][c].supply]
           D == [v \in LendUsers |-> positions[v][c].debt]
<1>1. reserves[c].supply = SumFunctionOnSet(S, LendUsers) /\ reserves[c].debt = SumFunctionOnSet(D, LendUsers)
  BY DEF TotalsMatch
<1>2. \A v \in LendUsers : S[v] \in Nat /\ D[v] \in Nat
  BY PositionFields
<1>3. S[u] = positions[u][c].supply /\ D[u] = positions[u][c].debt
  OBVIOUS
<1>4. IsFiniteSet(LendUsers)
  BY DEF LendAssumption
<1> HIDE DEF S, D
<1>5. S[u] <= SumFunctionOnSet(S, LendUsers) /\ D[u] <= SumFunctionOnSet(D, LendUsers)
  BY <1>2, <1>4, SumNat
<1> QED BY <1>1, <1>3, <1>5

\* The rows after a commit.
LEMMA CommittedReserve ==
    ASSUME LendAssumption, LendIInv, NEW r \in LendRequests, NEW x, NEW f, Committed(r, x, f), NEW c \in Coins,
           NEW s, NEW d, s = SupplyChange(r, x, f, c), d = DebtChange(r, x, f, c)
    PROVE  /\ reserves'[c] \in Reserves /\ reserves'[c].li >= Ray /\ reserves'[c].bi >= reserves'[c].li
           /\ reserves'[c].at \in 0 .. ticks
           /\ reserves'[c].supply = reserves[c].supply + s /\ reserves'[c].debt = reserves[c].debt + d
           /\ c \in Needed(r) => reserves'[c].li = f[c].li /\ reserves'[c].bi = f[c].bi /\ slack'[c] = Slack(r, f, c)
           /\ c \notin Needed(r) => reserves'[c] = reserves[c] /\ slack'[c] = slack[c]
<1>0. LendRows /\ LocksHold /\ TotalsMatch /\ lend[r].at = "checked" /\ lend[r].at \in AtWork
  BY DEF LendIInv, Committed, AtWork
<1>1. x = lend[r].move /\ f = lend[r].fresh
  BY DEF Committed
<1>2. DOMAIN f = Needed(r)
  BY <1>0, <1>1 DEF LocksHold
<1>3. /\ reserves'[c] = IF c \in Needed(r) THEN Changed(f[c], r, x, f, c) ELSE reserves[c]
      /\ slack'[c] = IF c \in Needed(r) THEN Slack(r, f, c) ELSE slack[c]
  BY <1>2 DEF Committed
<1>4. /\ reserves[c] \in Reserves /\ reserves[c].li >= Ray /\ reserves[c].bi >= reserves[c].li
      /\ reserves[c].at \in Nat /\ reserves[c].at <= ticks /\ ticks \in Nat
      /\ reserves[c].supply \in Nat /\ reserves[c].debt \in Nat
  BY <1>0, ReserveFields
<1>5. /\ s \in Int /\ d \in Int
      /\ positions[Owner(r)][c].supply + s \in Nat /\ positions[Owner(r)][c].debt + d \in Nat
      /\ c \notin Needed(r) => s = 0 /\ d = 0
  BY <1>0, <1>1, MoveFits
<1>6. CASE c \notin Needed(r)
  BY <1>3, <1>4, <1>5, <1>6
<1>7. CASE c \in Needed(r)
  <2>1. /\ f[c] \in Reserves /\ f[c].li >= Ray /\ f[c].bi >= f[c].li /\ f[c].at \in Nat /\ f[c].at <= ticks
        /\ f[c].supply = reserves[c].supply /\ f[c].debt = reserves[c].debt
    BY <1>0, <1>1, <1>7, FreshFields
  <2>2. f[c].supply + s \in Nat /\ f[c].debt + d \in Nat
    <3>1. Owner(r) \in LendUsers
      BY RequestFields
    <3>2. PICK S, D : S = positions[Owner(r)][c].supply /\ D = positions[Owner(r)][c].debt
      OBVIOUS
    <3>3. S \in Nat /\ D \in Nat /\ S <= reserves[c].supply /\ D <= reserves[c].debt
      BY <1>0, <3>1, <3>2, PositionFields, PartOfReserve
    <3> QED BY <1>4, <1>5, <2>1, <3>2, <3>3
  <2>3. PICK row : row = Changed(f[c], r, x, f, c)
    OBVIOUS
  <2>4. /\ row \in Reserves /\ row.supply = f[c].supply + s /\ row.debt = f[c].debt + d
        /\ row.li = f[c].li /\ row.bi = f[c].bi /\ row.at = f[c].at
    BY <2>1, <2>2, <2>3, ReserveChanged
  <2>5. reserves'[c] = row /\ slack'[c] = Slack(r, f, c)
    BY <1>3, <1>7, <2>3
  <2> QED BY <1>4, <1>7, <2>1, <2>4, <2>5
<1> QED BY <1>6, <1>7

\* The positions after a commit: those of one user, in the coins it needed.
LEMMA CommittedPositions ==
    ASSUME LendAssumption, LendIInv, NEW r \in LendRequests, NEW x, NEW f, Committed(r, x, f)
    PROVE  /\ positions' \in [LendUsers -> [Coins -> [supply : Nat, debt : Nat]]]
           /\ \A u \in LendUsers \ {Owner(r)} : positions'[u] = positions[u]
           /\ \A c \in Coins :
                 /\ positions'[Owner(r)][c].supply = positions[Owner(r)][c].supply + SupplyChange(r, x, f, c)
                 /\ positions'[Owner(r)][c].debt = positions[Owner(r)][c].debt + DebtChange(r, x, f, c)
                 /\ c \notin Needed(r) => positions'[Owner(r)][c] = positions[Owner(r)][c]
<1>0. LendRows /\ lend[r].at = "checked" /\ x = lend[r].move /\ f = lend[r].fresh
  BY DEF LendIInv, Committed
<1>1. positions \in [LendUsers -> [Coins -> [supply : Nat, debt : Nat]]] /\ Owner(r) \in LendUsers
  BY <1>0, RequestFields DEF LendRows, LendTypeOK
<1>2. PICK pos : pos = positions[Owner(r)]
  OBVIOUS
<1>3. pos \in [Coins -> [supply : Nat, debt : Nat]]
  BY <1>1, <1>2
<1>4. PICK new : new = [c \in Coins |-> Changed(pos[c], r, x, f, c)]
  OBVIOUS
<1>5. positions' = [positions EXCEPT ![Owner(r)] = new]
  BY <1>2, <1>4 DEF Committed
<1>6. ASSUME NEW c \in Coins
      PROVE  /\ new[c] \in [supply : Nat, debt : Nat]
             /\ new[c].supply = pos[c].supply + SupplyChange(r, x, f, c)
             /\ new[c].debt = pos[c].debt + DebtChange(r, x, f, c)
             /\ c \notin Needed(r) => new[c] = pos[c]
  <2>1. PICK s, d : s = SupplyChange(r, x, f, c) /\ d = DebtChange(r, x, f, c)
    OBVIOUS
  <2>2. /\ pos[c].supply + s \in Nat /\ pos[c].debt + d \in Nat
        /\ c \notin Needed(r) => s = 0 /\ d = 0
    BY <1>0, <1>2, <2>1, MoveFits
  <2>3. PICK row : row = pos[c]
    OBVIOUS
  <2>4. row \in [supply : Nat, debt : Nat]
    BY <1>3, <2>3
  <2>5. new[c] = Changed(row, r, x, f, c)
    BY <1>4, <2>3
  <2>6. /\ new[c] \in [supply : Nat, debt : Nat]
        /\ new[c].supply = row.supply + s /\ new[c].debt = row.debt + d
    BY <2>1, <2>2, <2>3, <2>4, <2>5, PositionChanged
  <2>7. c \notin Needed(r) => new[c] = row
    BY <2>2, <2>4, <2>6
  <2> QED BY <2>1, <2>3, <2>6, <2>7
<1>7. new \in [Coins -> [supply : Nat, debt : Nat]]
  BY <1>4, <1>6
<1>8. positions'[Owner(r)] = new /\ \A u \in LendUsers \ {Owner(r)} : positions'[u] = positions[u]
  BY <1>1, <1>5
<1>9. positions' \in [LendUsers -> [Coins -> [supply : Nat, debt : Nat]]]
  BY <1>1, <1>5, <1>7
<1> QED BY <1>2, <1>6, <1>8, <1>9

\* The pools after a commit.
LEMMA CommittedPools ==
    ASSUME LendAssumption, LendIInv, NEW r \in LendRequests, NEW x, NEW f, Committed(r, x, f)
    PROVE  /\ led' \in Ledgers
           /\ \A c \in Coins : /\ Pool(c)' \in Nat
                               /\ Pool(c)' = Pool(c) + (PaidIn(r, x, c) - SeizedFrom(r, x, c))
                               /\ c \notin Needed(r) => Pool(c)' = Pool(c)
<1>1. /\ LendRows /\ lend[r].at = "checked" /\ x = lend[r].move /\ f = lend[r].fresh
      /\ PostEach(LedgerMoves(r, x))
  BY DEF LendIInv, Committed
<1>2. x.out \in Nat /\ (r.op = "liquidate" => x.seized \in Nat)
  BY <1>1 DEF LendIInv, MovesFound, Justified
<1>3. led \in Ledgers /\ \A c \in Coins : Pool(c) \in Nat
  BY <1>1 DEF LendRows, LendTypeOK
<1>4. /\ led' \in Ledgers
      /\ \A c \in Coins : /\ Pool(c)' \in Nat
                          /\ Pool(c)' = Pool(c) + (PaidIn(r, x, c) - SeizedFrom(r, x, c))
  BY <1>1, <1>2, <1>3, PoolsMove
<1>5. ASSUME NEW c \in Coins, c \notin Needed(r) PROVE Pool(c)' = Pool(c)
  <2>1. PaidIn(r, x, c) = 0 /\ SeizedFrom(r, x, c) = 0
    BY <1>1, <1>5, MoveFits
  <2> QED BY <1>3, <1>4, <2>1
<1> QED BY <1>4, <1>5

\* The totals follow the position that changed.
LEMMA CommittedTotals ==
    ASSUME LendAssumption, LendIInv, NEW r \in LendRequests, NEW x, NEW f, Committed(r, x, f)
    PROVE  TotalsMatch'
<1> SUFFICES ASSUME NEW c \in Coins
             PROVE  /\ reserves'[c].supply = SumFunctionOnSet([u \in LendUsers |-> positions'[u][c].supply], LendUsers)
                    /\ reserves'[c].debt = SumFunctionOnSet([u \in LendUsers |-> positions'[u][c].debt], LendUsers)
  BY DEF TotalsMatch
<1> DEFINE S == [u \in LendUsers |-> positions[u][c].supply]
           D == [u \in LendUsers |-> positions[u][c].debt]
           T == [u \in LendUsers |-> positions'[u][c].supply]
           E == [u \in LendUsers |-> positions'[u][c].debt]
           o == Owner(r)
<1>0. LendRows /\ lend[r].at = "checked" /\ x = lend[r].move /\ f = lend[r].fresh /\ o \in LendUsers
  BY RequestFields DEF LendIInv, Committed
<1>1. PICK s, d : s = SupplyChange(r, x, f, c) /\ d = DebtChange(r, x, f, c)
  OBVIOUS
<1>2. s \in Int /\ d \in Int
  BY <1>0, <1>1, MoveFits
<1>3. reserves[c].supply = SumFunctionOnSet(S, LendUsers) /\ reserves[c].debt = SumFunctionOnSet(D, LendUsers)
  BY DEF LendIInv, TotalsMatch
<1>4. reserves'[c].supply = reserves[c].supply + s /\ reserves'[c].debt = reserves[c].debt + d
  BY <1>1, CommittedReserve
<1>5. \A u \in LendUsers : S[u] \in Nat /\ D[u] \in Nat
  BY <1>0, PositionFields
<1>6. \A u \in LendUsers : T[u] \in Nat /\ E[u] \in Nat
  <2>1. positions' \in [LendUsers -> [Coins -> [supply : Nat, debt : Nat]]]
    BY CommittedPositions
  <2> QED BY <2>1
<1>7. \A u \in LendUsers \ {o} : T[u] = S[u] /\ E[u] = D[u]
  BY CommittedPositions
<1>8. T[o] = S[o] + s /\ E[o] = D[o] + d
  <2>1. /\ positions'[o][c].supply = positions[o][c].supply + s
        /\ positions'[o][c].debt = positions[o][c].debt + d
    BY <1>1, CommittedPositions
  <2> QED BY <1>0, <2>1
<1>9. IsFiniteSet(LendUsers)
  BY DEF LendAssumption
<1> HIDE DEF S, D, T, E, o
<1>10. Summands(S, LendUsers) /\ Summands(D, LendUsers) /\ Summands(T, LendUsers) /\ Summands(E, LendUsers)
  BY <1>5, <1>6, <1>9 DEF Summands
<1>11. /\ SumFunctionOnSet(T, LendUsers) = SumFunctionOnSet(S, LendUsers) - S[o] + T[o]
       /\ SumFunctionOnSet(E, LendUsers) = SumFunctionOnSet(D, LendUsers) - D[o] + E[o]
  BY <1>0, <1>7, <1>10, SumChange
<1>12. SumFunctionOnSet(S, LendUsers) \in Int /\ SumFunctionOnSet(D, LendUsers) \in Int
  BY <1>10, SumType
<1>13. reserves'[c].supply = SumFunctionOnSet(T, LendUsers) /\ reserves'[c].debt = SumFunctionOnSet(E, LendUsers)
  BY <1>0, <1>2, <1>3, <1>4, <1>5, <1>8, <1>11, <1>12
<1> QED BY <1>13 DEF T, E

\* Without time there is no interest.
LEMMA AccrueNothing == ASSUME LendAssumption, NEW i \in Nat, NEW rate \in Nat PROVE AccrueIndex(i, rate, 0) = i
<1>1. PICK n : n = i * rate
  OBVIOUS
<1>2. n \in Nat /\ n * 0 = 0
  BY <1>1, MulNat
<1>3. PICK k : k = Bps * LendYear
  OBVIOUS
<1>4. k \in Nat \ {0}
  BY <1>3, BpsIsNat DEF LendAssumption
<1>5. 0 \div k = 0
  BY <1>4
<1> QED BY <1>1, <1>2, <1>3, <1>5 DEF AccrueIndex

\* The pools still cover what they owe: interest by what the debts bear, and
\* what is moved by the units that are given for it.
LEMMA CommittedCover ==
    ASSUME LendAssumption, LendIInv, NEW r \in LendRequests, NEW x, NEW f, Committed(r, x, f)
    PROVE  PoolCovers' /\ \A c \in Coins : slack'[c] \in Nat
<1> SUFFICES ASSUME NEW c \in Coins
             PROVE  /\ Pool(c)' * Ray + reserves'[c].debt * reserves'[c].bi + slack'[c]
                         >= LendBalance[PoolWallet[c]] * Ray + reserves'[c].supply * reserves'[c].li
                    /\ slack'[c] \in Nat
  BY DEF PoolCovers
<1>0. /\ LendRows /\ LocksHold /\ lend[r].at = "checked" /\ x = lend[r].move /\ f = lend[r].fresh
      /\ lend[r].at \in AtWork
  BY DEF LendIInv, Committed, AtWork
<1>1. PICK S, D, l, b, p, y : /\ S = reserves[c].supply /\ D = reserves[c].debt /\ l = reserves[c].li
                             /\ b = reserves[c].bi /\ p = Pool(c) /\ y = slack[c]
  OBVIOUS
<1>2. S \in Nat /\ D \in Nat /\ l \in Nat /\ b \in Nat /\ p \in Nat /\ y \in Nat
  BY <1>0, <1>1, ReserveFields
<1>3. PICK s, d : s = SupplyChange(r, x, f, c) /\ d = DebtChange(r, x, f, c)
  OBVIOUS
<1>4. PICK g : g = PaidIn(r, x, c) - SeizedFrom(r, x, c)
  OBVIOUS
<1>5. /\ reserves'[c].supply = S + s /\ reserves'[c].debt = D + d /\ Pool(c)' = p + g
  BY <1>1, <1>3, <1>4, CommittedReserve, CommittedPools
<1>6. PICK start : start = LendBalance[PoolWallet[c]] * Ray
  OBVIOUS
<1>7. p * Ray + D * b + y >= start + S * l
  BY <1>1, <1>6 DEF LendIInv, PoolCovers
<1>8. CASE c \notin Needed(r)
  <2>1. reserves'[c] = reserves[c] /\ slack'[c] = y /\ Pool(c)' = p
    BY <1>1, <1>8, CommittedReserve, CommittedPools
  <2> QED BY <1>1, <1>2, <1>6, <1>7, <2>1
<1>9. CASE c \in Needed(r)
  <2>1. PICK li, bi : li = f[c].li /\ bi = f[c].bi
    OBVIOUS
  <2>2. PICK cost : cost = Cost(r, f, c)
    OBVIOUS
  <2>3. PICK rate, rest, e : /\ rate = RateOf(reserves[c], p, Market[c])
                             /\ rest = SupplyRate(rate, UsedOf(reserves[c], p), Market[c])
                             /\ e = f[c].at - reserves[c].at
    OBVIOUS
  <2>4. /\ li = AccrueIndex(l, rest, e) /\ bi = AccrueIndex(b, rate, e) /\ e \in Nat
        /\ li \in Nat /\ bi \in Nat
    <3>1. /\ f[c].li = AccrueIndex(reserves[c].li, SupplyRate(RateOf(reserves[c], Pool(c), Market[c]), UsedOf(reserves[c], Pool(c)), Market[c]),
                                   f[c].at - reserves[c].at)
          /\ f[c].bi = AccrueIndex(reserves[c].bi, RateOf(reserves[c], Pool(c), Market[c]), f[c].at - reserves[c].at)
          /\ f[c].li \in Nat /\ f[c].bi \in Nat /\ f[c].at \in Nat /\ reserves[c].at <= f[c].at
      BY <1>0, <1>9, FreshFields
    <3>2. reserves[c].at \in Nat
      BY <1>0, ReserveFields
    <3> QED BY <1>1, <2>1, <2>3, <3>1, <3>2
  <2>5. rate \in Nat /\ rest \in Nat /\ Bps * rest <= rate * UsedOf(reserves[c], p)
    <3>1. reserves[c] \in Reserves /\ IsMarket(Market[c])
      BY <1>0, ReserveFields, MarketFields
    <3> QED BY <1>2, <2>3, <3>1, RatesOfReserve
  <2>6. PICK used : used = UsedOf(reserves[c], p)
    OBVIOUS
  <2>7. used = Utilization(ScaledToAmount(D, b), p)
    BY <1>1, <2>6 DEF UsedOf
  <2>8. PICK grown : grown = AccrueIndex(y + Ray, rate, e)
    OBVIOUS
  <2>9. Ray \in Nat \ {0} /\ y + Ray \in Nat
    BY <1>2 DEF LendAssumption
  <2>10. grown \in Nat /\ grown >= y + Ray
    BY <2>4, <2>5, <2>8, <2>9, IndexGrows
  <2>11. slack'[c] = grown - Ray + (IF e > 0 THEN D ELSE 0) + cost
    <3>1. slack'[c] = Slack(r, f, c)
      BY <1>9, CommittedReserve
    <3>2. Rate(c) = rate
      BY <1>1, <2>3 DEF Rate, Used, RateOf, UsedOf
    <3> QED BY <1>1, <2>2, <2>3, <2>8, <3>1, <3>2 DEF Slack, Cost
  <2>12. /\ s \in Int /\ d \in Int /\ cost \in Nat /\ g \in Int
         /\ s * li <= g * Ray + d * bi + cost
    <3>1. /\ s \in Int /\ d \in Int /\ cost \in Nat /\ s * li <= g * Ray + d * bi + cost
      BY <1>0, <1>3, <1>4, <1>9, <2>1, <2>2, MoveFits
    <3>2. Pool(c)' \in Nat /\ Pool(c)' = p + g
      BY <1>5, CommittedPools
    <3>3. g \in Int
      <4>1. x.out \in Nat /\ (r.op = "liquidate" => x.seized \in Nat)
        BY <1>0 DEF LendIInv, MovesFound, Justified
      <4>2. PaidIn(r, x, c) \in Int /\ SeizedFrom(r, x, c) \in Int
        BY <4>1 DEF PaidIn, SeizedFrom
      <4> QED BY <1>4, <4>2
    <3> QED BY <3>1, <3>3
  <2>13. start \in Nat
    <3>1. LendBalance[PoolWallet[c]] \in Nat
      BY DEF LendAssumption
    <3> QED BY <1>6, <2>9, <3>1, MulNat
  <2>14. PICK Sl, Sli, Db, Dbi, pr : /\ Sl = S * l /\ Sli = S * li /\ Db = D * b /\ Dbi = D * bi /\ pr = p * Ray
    OBVIOUS
  <2>15. Sl \in Nat /\ Sli \in Nat /\ Db \in Nat /\ Dbi \in Nat /\ pr \in Nat
    BY <1>2, <2>4, <2>9, <2>14, MulNat
  <2>16. pr + Db + y >= start + Sl
    BY <1>7, <2>14
  <2>17. Sli - Sl <= Dbi - Db + (IF e > 0 THEN D ELSE 0) + grown - (y + Ray)
    <3>1. CASE e > 0
      <4>1. S * l <= p * Ray + D * b + y
        BY <1>2, <2>13, <2>14, <2>15, <2>16
      <4>2. S * AccrueIndex(l, rest, e) - S * l
              <= D * AccrueIndex(b, rate, e) - D * b + D + AccrueIndex(y + Ray, rate, e) - (y + Ray)
        BY <1>2, <2>4, <2>5, <2>6, <2>7, <4>1, InterestCovered
      <4>3. Sli - Sl <= Dbi - Db + D + grown - (y + Ray)
        BY <2>4, <2>8, <2>14, <4>2
      <4> QED BY <3>1, <4>3
    <3>2. CASE e = 0
      <4>1. li = l /\ bi = b /\ grown = y + Ray
        BY <1>2, <2>4, <2>5, <2>8, <2>9, <3>2, AccrueNothing
      <4>2. Sli = Sl /\ Dbi = Db
        BY <2>14, <4>1
      <4> QED BY <2>9, <2>15, <3>2, <4>1, <4>2
    <3> QED BY <2>4, <3>1, <3>2
  <2>18. PICK sl, db, gr : sl = s * li /\ db = d * bi /\ gr = g * Ray
    OBVIOUS
  <2>19. sl \in Int /\ db \in Int /\ gr \in Int /\ sl <= gr + db + cost
    BY <2>4, <2>9, <2>12, <2>18
  <2>20. /\ (S + s) * li = Sli + sl /\ (D + d) * bi = Dbi + db /\ (p + g) * Ray = pr + gr
    BY <1>2, <2>4, <2>9, <2>12, <2>14, <2>18
  <2>21. PICK more \in Nat : more = IF e > 0 THEN D ELSE 0
    BY <1>2
  <2>22. slack'[c] = grown - Ray + more + cost /\ Sli - Sl <= Dbi - Db + more + grown - (y + Ray)
    BY <2>11, <2>17, <2>21
  <2>23. (pr + gr) + (Dbi + db) + slack'[c] >= start + (Sli + sl)
    <3>1. PICK z : z = slack'[c]
      OBVIOUS
    <3>2. z = grown - Ray + more + cost
      BY <2>22, <3>1
    <3>3. more \in Nat /\ cost \in Nat /\ Ray \in Nat
      BY <2>9, <2>12, <2>21
    <3>4. (pr + gr) + (Dbi + db) + z >= start + (Sli + sl)
      BY <1>2, <2>10, <2>13, <2>15, <2>16, <2>19, <2>22, <3>2, <3>3
    <3> QED BY <3>1, <3>4
  <2>24. slack'[c] \in Nat
    BY <1>2, <2>9, <2>10, <2>12, <2>21, <2>22
  <2>25. reserves'[c].li = li /\ reserves'[c].bi = bi
    BY <1>9, <2>1, CommittedReserve
  <2> QED BY <1>5, <1>6, <2>20, <2>23, <2>24, <2>25
<1> QED BY <1>8, <1>9

\* Who is still at work after a commit works on other rows, and finds them as
\* they were.
LEMMA OthersHold ==
    ASSUME LendAssumption, LendIInv, NEW r \in LendRequests, NEW x, NEW f, Committed(r, x, f),
           NEW q \in LendRequests, lend'[q].at \in AtWork
    PROVE  /\ q # r /\ lend'[q] = lend[q] /\ Needed(q)' = Needed(q) /\ Needed(q) \subseteq Coins
           /\ \A c \in Needed(q) : c \notin Needed(r) /\ reserves'[c] = reserves[c] /\ Pool(c)' = Pool(c)
<1>0. /\ LendRows /\ LocksHold /\ OneHolder /\ lend[r].at = "checked" /\ lend[r].at \in AtWork
      /\ lend' = [lend EXCEPT ![r] = [at |-> "done"]]
  BY DEF LendIInv, Committed, AtWork
<1>1. PICK new : new = [at |-> "done"]
  OBVIOUS
<1>2. /\ lend'[r] = new /\ \A s \in LendRequests \ {r} : lend'[s] = lend[s]
      /\ \A s \in LendRequests \ {r} : Holding(s)' = Holding(s) /\ Needed(s)' = Needed(s)
  BY <1>0, <1>1, OneAdvances
<1>3. q # r
  BY <1>1, <1>2 DEF AtWork
<1>4. lend'[q] = lend[q] /\ Needed(q)' = Needed(q) /\ lend[q].at \in AtWork
  BY <1>2, <1>3
<1>5. Needed(q) \subseteq Coins
  BY RequestFields
<1>6. Holding(q) = Needed(q) /\ Holding(r) = Needed(r)
  BY <1>0, <1>4 DEF LocksHold, Holding, AtWork
<1>7. Needed(q) \cap Needed(r) = {}
  BY <1>0, <1>3, <1>6 DEF OneHolder
<1>8. ASSUME NEW c \in Needed(q)
      PROVE  c \notin Needed(r) /\ reserves'[c] = reserves[c] /\ Pool(c)' = Pool(c)
  <2>1. c \in Coins /\ c \notin Needed(r)
    BY <1>5, <1>7, <1>8
  <2> QED BY <2>1, CommittedReserve, CommittedPools
<1> QED BY <1>3, <1>4, <1>5, <1>8

\* What one is justified in is a matter of the coins it needs.
LEMMA JustifiedAlike ==
    ASSUME LendAssumption, NEW q \in LendRequests, NEW pos, NEW new, NEW x, NEW idx, NEW ps,
           \A c \in NeededAt(q, "checked") : new[c] = pos[c], Justified(pos, q, x, idx, ps)
    PROVE  Justified(new, q, x, idx, ps)
  BY DEF Justified, NeededAt

\* An operation that commits leaves its user covered, unless another one was past
\* its check.
LEMMA CommittedStrain ==
    ASSUME LendAssumption, LendIInv, NEW r \in LendRequests, NEW x, NEW f, Committed(r, x, f),
           r.op \in {"withdraw", "borrow"}, r.user \notin skewed
    PROVE  ~ Strained(positions'[r.user], lend[r].idx, lend[r].ps)
<1>0. /\ LendRows /\ LocksHold /\ MovesFound /\ ChecksStand
      /\ lend[r].at = "checked" /\ lend[r].at \in AtWork /\ x = lend[r].move /\ f = lend[r].fresh
  BY DEF LendIInv, Committed, AtWork
<1>1. Owner(r) = r.user /\ r.user \in LendUsers /\ r.coin \in Coins /\ Needed(r) = {r.coin}
  BY <1>0, RequestFields DEF Owner, Needed, NeededAt
<1>2. PICK pos, new, idx, ps, e, n : /\ pos = positions[r.user] /\ new = positions'[r.user] /\ idx = lend[r].idx
                                    /\ ps = lend[r].ps /\ e = r.coin /\ n = x.out
  OBVIOUS
<1>3. /\ \A c \in Coins : idx[c].li \in Nat \ {0} /\ idx[c].bi \in Nat \ {0}
      /\ idx[e] = f[e] /\ Justified(pos, r, x, idx, ps)
  BY <1>0, <1>1, <1>2 DEF MovesFound
<1>4. e \in Coins /\ n \in Nat /\ ps \in LendPrices
  BY <1>0, <1>1, <1>2, <1>3 DEF Justified, LocksHold
<1>5. Passes(pos, r, x, idx, ps)
  BY <1>0, <1>1, <1>2 DEF ChecksStand
<1>6. Countable(pos, idx)
  BY <1>0, <1>1, <1>2, <1>3, PositionFields DEF Countable
<1>7. /\ positions' \in [LendUsers -> [Coins -> [supply : Nat, debt : Nat]]]
      /\ \A c \in Coins :
            /\ new[c].supply = pos[c].supply + SupplyChange(r, x, f, c)
            /\ new[c].debt = pos[c].debt + DebtChange(r, x, f, c)
            /\ c \notin Needed(r) => new[c] = pos[c]
  <2>1. /\ positions' \in [LendUsers -> [Coins -> [supply : Nat, debt : Nat]]]
        /\ \A c \in Coins :
              /\ positions'[Owner(r)][c].supply = positions[Owner(r)][c].supply + SupplyChange(r, x, f, c)
              /\ positions'[Owner(r)][c].debt = positions[Owner(r)][c].debt + DebtChange(r, x, f, c)
              /\ c \notin Needed(r) => positions'[Owner(r)][c] = positions[Owner(r)][c]
    BY CommittedPositions
  <2>2. pos = positions[Owner(r)] /\ new = positions'[Owner(r)]
    BY <1>1, <1>2
  <2> QED BY <2>1, <2>2
<1>8. Countable(new, idx)
  BY <1>1, <1>2, <1>3, <1>7 DEF Countable
<1>9. \A c \in Coins \ {e} : new[c] = pos[c]
  BY <1>1, <1>2, <1>7
<1>10. CASE r.op = "withdraw"
  <2>1. SupplyChange(r, x, f, e) = -AmountToScaled(n, idx[e].li) /\ DebtChange(r, x, f, e) = 0
    BY <1>2, <1>3, <1>10 DEF SupplyChange, DebtChange
  <2>2. AmountToScaled(n, idx[e].li) \in Nat /\ pos[e].supply \in Nat /\ pos[e].debt \in Nat
    BY <1>3, <1>4, <1>6, UnitsNat DEF Countable
  <2>3. new[e].supply = pos[e].supply - AmountToScaled(n, idx[e].li) /\ new[e].debt = pos[e].debt
    BY <1>4, <1>7, <2>1, <2>2
  <2>4. n <= ScaledToAmount(pos[e].supply, idx[e].li)
    BY <1>2, <1>3, <1>10 DEF Justified
  <2>5. Debt(pos, idx, ps) > 0 =>
              Threshold(pos, idx, ps) - (Value(e, n, ps) * Market[e].threshold) \div Bps >= Debt(pos, idx, ps)
    BY <1>2, <1>5, <1>10 DEF Passes
  <2>6. ~ Strained(new, idx, ps)
    BY <1>4, <1>6, <1>8, <1>9, <2>3, <2>4, <2>5, WithdrawalCovered
  <2> QED BY <1>2, <2>6
<1>11. CASE r.op = "borrow"
  <2>1. DebtChange(r, x, f, e) = AmountToScaled(n, idx[e].bi) /\ SupplyChange(r, x, f, e) = 0
    BY <1>2, <1>3, <1>11 DEF SupplyChange, DebtChange
  <2>2. AmountToScaled(n, idx[e].bi) \in Nat /\ pos[e].supply \in Nat /\ pos[e].debt \in Nat
    BY <1>3, <1>4, <1>6, UnitsNat DEF Countable
  <2>3. new[e].debt = pos[e].debt + AmountToScaled(n, idx[e].bi) /\ new[e].supply = pos[e].supply
    BY <1>4, <1>7, <2>1, <2>2
  <2>4. Debt(pos, idx, ps) + Value(e, n, ps) <= BorrowPower(pos, idx, ps)
    BY <1>2, <1>5, <1>11 DEF Passes
  <2>5. ~ Strained(new, idx, ps)
    BY <1>4, <1>6, <1>8, <1>9, <2>3, <2>4, BorrowingCovered
  <2> QED BY <1>2, <2>5
<1> QED BY <1>10, <1>11

\* A commit, or the ledger's refusal.
LEMMA CommitKeeps == ASSUME LendAssumption, LendIInv, NEW r \in LendRequests, Commit(r) PROVE LendIInv'
<1>0. /\ LendRows /\ LocksHold /\ OneHolder /\ MovesFound /\ ChecksStand /\ OneCheck
      /\ TotalsMatch /\ PoolCovers /\ DebtsCovered /\ LiquidationsFair
  BY DEF LendIInv
<1>1. PICK x, f : x = lend[r].move /\ f = lend[r].fresh
  OBVIOUS
<1>2. CASE /\ lend' = [lend EXCEPT ![r] = [at |-> "refused"]]
           /\ UNCHANGED <<led, positions, reserves, audit, slack, strained, ticks, prices, skewed>>
  BY <1>2, GivenUpKeeps
<1>3. CASE /\ Committed(r, x, f)
           /\ audit' = IF r.op # "liquidate" THEN audit ELSE audit \cup {[by |-> r, move |-> x, ps |-> lend[r].ps]}
           /\ strained' = IF r.op \in {"withdraw", "borrow"} /\ Strained(positions'[r.user], lend[r].idx, lend[r].ps)
                          THEN strained \cup {r.user} ELSE strained
  <2>0. Committed(r, x, f) /\ lend[r].at = "checked" /\ skewed' = skewed /\ ticks' = ticks /\ prices' = prices
    BY <1>3 DEF Committed
  <2>1. \A q \in LendRequests : lend'[q].at \in AtWork =>
            /\ q # r /\ lend'[q] = lend[q] /\ Needed(q)' = Needed(q) /\ Needed(q) \subseteq Coins
            /\ \A c \in Needed(q) : c \notin Needed(r) /\ reserves'[c] = reserves[c] /\ Pool(c)' = Pool(c)
    BY <2>0, OthersHold
  <2>2. LendRows'
    <3>1. /\ led' \in Ledgers /\ \A c \in Coins : Pool(c)' \in Nat
      BY <2>0, CommittedPools
    <3>2. /\ positions' \in [LendUsers -> [Coins -> [supply : Nat, debt : Nat]]]
      BY <2>0, CommittedPositions
    <3>3. \A c \in Coins : /\ reserves'[c] \in Reserves /\ reserves'[c].li >= Ray /\ reserves'[c].bi >= reserves'[c].li
                           /\ reserves'[c].at \in 0 .. ticks
      BY <2>0, CommittedReserve
    <3>4. \A c \in Coins : reserves'[c] \in [li : Nat, bi : Nat, supply : Nat, debt : Nat, at : 0..ticks]
      BY <3>3 DEF Reserves
    <3>5. reserves' \in [Coins -> Reserves]
      <4>1. reserves' = [c \in Coins |-> reserves'[c]]
        BY <2>0 DEF Committed
      <4> QED BY <3>3, <4>1
    <3>6. slack' \in [Coins -> Nat]
      <4>1. slack' = [c \in Coins |-> slack'[c]]
        BY <2>0 DEF Committed
      <4>2. \A c \in Coins : slack'[c] \in Nat
        BY <2>0, CommittedCover
      <4> QED BY <4>1, <4>2
    <3>7. /\ lend' = [q \in LendRequests |-> lend'[q]]
          /\ \A q \in LendRequests : lend'[q].at \in {"new", "debt", "locked", "checked", "refused", "done"}
      <4>1. PICK new : new = [at |-> "done"]
        OBVIOUS
      <4>2. lend' = [lend EXCEPT ![r] = new]
        BY <2>0, <4>1 DEF Committed
      <4>3. /\ lend' = [q \in LendRequests |-> lend'[q]]
            /\ lend'[r] = new /\ \A q \in LendRequests \ {r} : lend'[q] = lend[q]
        BY <1>0, <4>2, OneAdvances
      <4> QED BY <1>0, <4>1, <4>3 DEF LendRows, LendTypeOK
    <3>8. LendTypeOK'
      <4>1. ticks' \in 0 .. LastTick /\ prices' \in LendPrices
        BY <1>0, <2>0 DEF LendRows, LendTypeOK
      <4> QED BY <2>0, <3>1, <3>2, <3>3, <3>4, <3>7, <4>1 DEF LendTypeOK
    <3> QED BY <3>1, <3>5, <3>6, <3>7, <3>8 DEF LendRows
  <2>3. LocksHold'
    <3> SUFFICES ASSUME NEW q \in LendRequests, lend'[q].at \in AtWork
                 PROVE  /\ DOMAIN lend'[q].fresh = Needed(q)'
                        /\ lend'[q].at = "debt" => q.op = "liquidate"
                        /\ lend'[q].ps \in LendPrices
                        /\ \A c \in Needed(q)' : \E t \in reserves'[c].at .. ticks' :
                              lend'[q].fresh[c] = AccruedAt(reserves'[c], Pool(c)', Market[c], t)
      BY DEF LocksHold
    <3>1. /\ lend'[q] = lend[q] /\ Needed(q)' = Needed(q)
          /\ \A c \in Needed(q) : reserves'[c] = reserves[c] /\ Pool(c)' = Pool(c)
      BY <2>1
    <3> QED BY <1>0, <2>0, <3>1 DEF LocksHold
  <2>4. OneHolder'
    <3>1. PICK new : new = [at |-> "done"]
      OBVIOUS
    <3>2. /\ Holding(r)' = {} /\ \A q \in LendRequests \ {r} : Holding(q)' = Holding(q)
      <4>1. lend' = [lend EXCEPT ![r] = new]
        BY <2>0, <3>1 DEF Committed
      <4>2. /\ Holding(r)' = IF new.at \in AtWork THEN DOMAIN new.fresh ELSE {}
            /\ \A q \in LendRequests \ {r} : Holding(q)' = Holding(q)
        BY <1>0, <4>1, OneAdvances
      <4> QED BY <3>1, <4>2 DEF AtWork
    <3> SUFFICES ASSUME NEW q \in LendRequests, NEW s \in LendRequests, q # s
                 PROVE  Holding(q)' \cap Holding(s)' = {}
      BY DEF OneHolder
    <3>3. CASE q = r \/ s = r
      BY <3>2, <3>3
    <3>4. CASE q # r /\ s # r
      BY <1>0, <3>2, <3>4 DEF OneHolder
    <3> QED BY <3>3, <3>4
  <2>5. \A q \in LendRequests : lend'[q].at = "checked" =>
            q # r /\ lend'[q] = lend[q] /\ Needed(q)' = Needed(q) /\ lend[q].at = "checked"
    BY <2>1 DEF AtWork
  <2>6. ASSUME NEW u \in LendUsers, u # Owner(r) PROVE positions'[u] = positions[u]
    BY <2>0, <2>6, CommittedPositions
  <2>7. MovesFound'
    <3> SUFFICES ASSUME NEW q \in LendRequests, lend'[q].at = "checked"
                 PROVE  /\ \A c \in Coins : lend'[q].idx[c].li \in Nat \ {0} /\ lend'[q].idx[c].bi \in Nat \ {0}
                        /\ \A c \in Needed(q)' : lend'[q].idx[c] = lend'[q].fresh[c]
                        /\ Justified(positions'[Owner(q)], q, lend'[q].move, lend'[q].idx, lend'[q].ps)
      BY DEF MovesFound
    <3>1. /\ q # r /\ lend'[q] = lend[q] /\ Needed(q)' = Needed(q) /\ lend[q].at = "checked"
      BY <2>5
    <3>2. /\ \A c \in Coins : lend[q].idx[c].li \in Nat \ {0} /\ lend[q].idx[c].bi \in Nat \ {0}
          /\ \A c \in Needed(q) : lend[q].idx[c] = lend[q].fresh[c]
          /\ Justified(positions[Owner(q)], q, lend[q].move, lend[q].idx, lend[q].ps)
      BY <1>0, <3>1 DEF MovesFound
    <3>3. \A c \in Needed(q) : positions'[Owner(q)][c] = positions[Owner(q)][c]
      <4>1. CASE Owner(q) # Owner(r)
        BY <2>6, <4>1, RequestFields
      <4>2. CASE Owner(q) = Owner(r)
        <5> SUFFICES ASSUME NEW c \in Needed(q) PROVE positions'[Owner(r)][c] = positions[Owner(r)][c]
          BY <4>2
        <5>1. c \in Coins /\ c \notin Needed(r)
          BY <2>1, <3>1 DEF AtWork
        <5> QED BY <2>0, <5>1, CommittedPositions
      <4> QED BY <4>1, <4>2
    <3>4. Needed(q) = NeededAt(q, "checked")
      BY <3>1 DEF Needed
    <3>5. PICK pos, new : pos = positions[Owner(q)] /\ new = positions'[Owner(q)]
      OBVIOUS
    <3>6. Justified(new, q, lend[q].move, lend[q].idx, lend[q].ps)
      BY <3>2, <3>3, <3>4, <3>5, JustifiedAlike
    <3> QED BY <3>1, <3>2, <3>5, <3>6
  <2>8. ChecksStand'
    <3> SUFFICES ASSUME NEW q \in LendRequests, lend'[q].at = "checked", Owner(q) \notin skewed'
                 PROVE  Passes(positions'[Owner(q)], q, lend'[q].move, lend'[q].idx, lend'[q].ps)
      BY DEF ChecksStand
    <3>1. /\ q # r /\ lend'[q] = lend[q] /\ lend[q].at = "checked" /\ Owner(q) \notin skewed
      BY <2>0, <2>5
    <3>2. Owner(q) # Owner(r)
      BY <1>0, <2>0, <3>1 DEF OneCheck
    <3>3. positions'[Owner(q)] = positions[Owner(q)]
      BY <2>6, <3>2, RequestFields
    <3> QED BY <1>0, <3>1, <3>3 DEF ChecksStand
  <2>9. OneCheck'
    BY <1>0, <2>0, <2>5 DEF OneCheck
  <2>10. TotalsMatch' /\ PoolCovers'
    BY <2>0, CommittedTotals, CommittedCover
  <2>11. DebtsCovered'
    <3>1. r.op \in {"withdraw", "borrow"} /\ Strained(positions'[r.user], lend[r].idx, lend[r].ps) => r.user \in skewed
      BY <2>0, CommittedStrain
    <3> QED BY <1>0, <1>3, <2>0, <3>1 DEF DebtsCovered
  <2>12. LiquidationsFair'
    <3>1. r.op = "liquidate" => Fair([by |-> r, move |-> x, ps |-> lend[r].ps])
      BY <1>0, <1>1, <2>0 DEF MovesFound, Justified
    <3> QED BY <1>0, <1>3, <3>1 DEF LiquidationsFair
  <2> QED BY <2>2, <2>3, <2>4, <2>7, <2>8, <2>9, <2>10, <2>11, <2>12 DEF LendIInv
<1> QED BY <1>1, <1>2, <1>3 DEF Commit, Committed

\* Prices move while operations are under way.
LEMMA PricesMoveKeeps == ASSUME LendAssumption, LendIInv, PricesMove PROVE LendIInv'
<1>0. LendRows /\ LocksHold /\ OneHolder /\ MovesFound /\ ChecksStand /\ OneCheck
  BY DEF LendIInv
<1>1. UNCHANGED <<led, reserves, positions, ticks, lend, audit, slack, skewed, strained>> /\ prices' \in LendPrices
  BY DEF PricesMove
<1>2. \A c \in Coins : Pool(c)' = Pool(c)
  BY <1>1 DEF Pool
<1>3. LendRows'
  <2>1. LendTypeOK'
    BY <1>0, <1>1 DEF LendRows, LendTypeOK
  <2> QED BY <1>0, <1>1, <1>2, <2>1 DEF LendRows
<1>4. \A r \in LendRequests : Needed(r)' = Needed(r) /\ Holding(r)' = Holding(r) /\ Needed(r) \subseteq Coins
  BY <1>1, RequestFields DEF Needed, Holding
<1>5. LocksHold'
  BY <1>0, <1>1, <1>2, <1>4 DEF LocksHold
<1>6. OneHolder' /\ MovesFound' /\ ChecksStand' /\ OneCheck'
  BY <1>0, <1>1, <1>4 DEF OneHolder, MovesFound, ChecksStand, OneCheck
<1>7. TotalsMatch' /\ DebtsCovered' /\ LiquidationsFair'
  BY <1>1 DEF LendIInv, TotalsMatch, DebtsCovered, LiquidationsFair
<1>8. PoolCovers'
  BY <1>1, <1>2 DEF LendIInv, PoolCovers
<1> QED BY <1>3, <1>5, <1>6, <1>7, <1>8 DEF LendIInv

\* Time passes while operations are under way.
LEMMA LendTickKeeps == ASSUME LendAssumption, LendIInv, LendTick PROVE LendIInv'
<1>0. LendRows /\ LocksHold /\ OneHolder /\ MovesFound /\ ChecksStand /\ OneCheck
  BY DEF LendIInv
<1>1. /\ UNCHANGED <<led, reserves, positions, prices, lend, audit, slack, skewed, strained>>
      /\ ticks < LastTick /\ ticks' = ticks + 1
  BY DEF LendTick
<1>2. \A c \in Coins : Pool(c)' = Pool(c)
  BY <1>1 DEF Pool
<1>3. ticks \in Nat /\ ticks' \in 0 .. LastTick /\ ticks <= ticks' /\ ticks' \in Nat
  BY <1>0, <1>1 DEF LendRows, LendTypeOK, LendAssumption
<1>4. LendRows'
  <2>1. \A c \in Coins : /\ reserves[c] \in Reserves /\ reserves[c].at \in 0 .. ticks'
                         /\ reserves[c].li >= Ray /\ reserves[c].bi >= reserves[c].li
    BY <1>0, <1>3, ReserveFields
  <2>2. \A c \in Coins : reserves[c] \in [li : Nat, bi : Nat, supply : Nat, debt : Nat, at : 0..ticks']
    BY <2>1 DEF Reserves
  <2>3. LendTypeOK'
    BY <1>0, <1>1, <1>3, <2>1, <2>2 DEF LendRows, LendTypeOK
  <2> QED BY <1>0, <1>1, <1>2, <2>3 DEF LendRows
<1>5. \A r \in LendRequests : Needed(r)' = Needed(r) /\ Holding(r)' = Holding(r) /\ Needed(r) \subseteq Coins
  BY <1>1, RequestFields DEF Needed, Holding
<1>6. LocksHold'
  <2> SUFFICES ASSUME NEW q \in LendRequests, lend'[q].at \in AtWork
               PROVE  /\ DOMAIN lend'[q].fresh = Needed(q)'
                      /\ lend'[q].at = "debt" => q.op = "liquidate"
                      /\ lend'[q].ps \in LendPrices
                      /\ \A c \in Needed(q)' : \E t \in reserves'[c].at .. ticks' :
                            lend'[q].fresh[c] = AccruedAt(reserves'[c], Pool(c)', Market[c], t)
    BY DEF LocksHold
  <2>1. /\ DOMAIN lend[q].fresh = Needed(q) /\ (lend[q].at = "debt" => q.op = "liquidate")
        /\ lend[q].ps \in LendPrices
        /\ \A c \in Needed(q) : \E t \in reserves[c].at .. ticks :
              lend[q].fresh[c] = AccruedAt(reserves[c], Pool(c), Market[c], t)
    BY <1>0, <1>1 DEF LocksHold
  <2>2. ASSUME NEW c \in Needed(q)
        PROVE  \E t \in reserves[c].at .. ticks' : lend[q].fresh[c] = AccruedAt(reserves[c], Pool(c)', Market[c], t)
    <3>1. c \in Coins /\ Pool(c)' = Pool(c)
      BY <1>2, <1>5
    <3>2. reserves[c].at \in Nat
      BY <1>0, <3>1, ReserveFields
    <3>3. PICK t \in reserves[c].at .. ticks : lend[q].fresh[c] = AccruedAt(reserves[c], Pool(c), Market[c], t)
      BY <2>1
    <3>4. t \in reserves[c].at .. ticks'
      BY <1>3, <3>2, <3>3
    <3> QED BY <3>1, <3>3, <3>4
  <2> QED BY <1>1, <1>5, <2>1, <2>2
<1>7. OneHolder' /\ MovesFound' /\ ChecksStand' /\ OneCheck'
  BY <1>0, <1>1, <1>5 DEF OneHolder, MovesFound, ChecksStand, OneCheck
<1>8. TotalsMatch' /\ DebtsCovered' /\ LiquidationsFair'
  BY <1>1 DEF LendIInv, TotalsMatch, DebtsCovered, LiquidationsFair
<1>9. PoolCovers'
  BY <1>1, <1>2 DEF LendIInv, PoolCovers
<1> QED BY <1>4, <1>6, <1>7, <1>8, <1>9 DEF LendIInv

\* Nothing happens.
LEMMA LendStutters == ASSUME LendAssumption, LendIInv, UNCHANGED lendVars PROVE LendIInv'
<1>1. UNCHANGED <<led, reserves, positions, ticks, prices, lend, audit, slack, skewed, strained>>
  BY DEF lendVars
<1>2. \A c \in Coins : Pool(c)' = Pool(c)
  BY <1>1 DEF Pool
<1>3. \A r \in LendRequests : Needed(r)' = Needed(r) /\ Holding(r)' = Holding(r) /\ Needed(r) \subseteq Coins
  BY <1>1, RequestFields DEF Needed, Holding
<1>4. LendRows'
  <2>1. LendTypeOK'
    BY <1>1 DEF LendIInv, LendRows, LendTypeOK
  <2> QED BY <1>1, <1>2, <2>1 DEF LendIInv, LendRows
<1>5. LocksHold'
  BY <1>1, <1>2, <1>3 DEF LendIInv, LocksHold
<1>6. OneHolder' /\ MovesFound' /\ ChecksStand' /\ OneCheck'
  BY <1>1, <1>3 DEF LendIInv, OneHolder, MovesFound, ChecksStand, OneCheck
<1>7. TotalsMatch' /\ DebtsCovered' /\ LiquidationsFair'
  BY <1>1 DEF LendIInv, TotalsMatch, DebtsCovered, LiquidationsFair
<1>8. PoolCovers'
  BY <1>1, <1>2 DEF LendIInv, PoolCovers
<1> QED BY <1>4, <1>5, <1>6, <1>7, <1>8 DEF LendIInv

\* Nothing is lost between the reserves, the positions and the pools, and no
\* operation by itself leaves a debt uncovered: LendInv, for any users, coins,
\* requests, markets and prices (lend.rs:85, 174, 663).
THEOREM LendingSafe == LendSpec => []LendInv
<1>1. LendAssumption
  BY LendAssumption
<1>2. LendInit => LendIInv
  BY <1>1, LendStarts
<1>3. LendIInv /\ [LendNext]_lendVars => LendIInv'
  <2> SUFFICES ASSUME LendIInv, [LendNext]_lendVars PROVE LendIInv'
    OBVIOUS
  <2>1. ASSUME NEW r \in LendRequests, Begin(r) PROVE LendIInv'
    BY <1>1, <2>1, BeginKeeps
  <2>2. ASSUME NEW r \in LendRequests, AccrueCollateral(r) PROVE LendIInv'
    BY <1>1, <2>2, AccrueCollateralKeeps
  <2>3. ASSUME NEW r \in LendRequests, Deadlock(r) PROVE LendIInv'
    BY <1>1, <2>3, GivenUpKeeps DEF Deadlock
  <2>4. ASSUME NEW r \in LendRequests, Check(r) PROVE LendIInv'
    BY <1>1, <2>4, CheckKeeps
  <2>5. ASSUME NEW r \in LendRequests, Commit(r) PROVE LendIInv'
    BY <1>1, <2>5, CommitKeeps
  <2>6. CASE PricesMove
    BY <1>1, <2>6, PricesMoveKeeps
  <2>7. CASE LendTick
    BY <1>1, <2>7, LendTickKeeps
  <2>8. CASE UNCHANGED lendVars
    BY <1>1, <2>8, LendStutters
  <2> QED BY <2>1, <2>2, <2>3, <2>4, <2>5, <2>6, <2>7, <2>8 DEF LendNext
<1>4. LendIInv => LendInv
  BY DEF LendIInv, LendInv, LendRows
<1> QED BY <1>2, <1>3, <1>4, PTL DEF LendSpec
=============================================================================
