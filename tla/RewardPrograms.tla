--------------------------- MODULE RewardPrograms ---------------------------
(***************************************************************************)
(* Reward programs (db/rewards.rs): what a program emits over a window is  *)
(* shared among the users by their weight, and paid by the HOUSE wallet.   *)
(*                                                                         *)
(* A tick of a worker lists the active programs and distributes one after  *)
(* the other.  A distribution locks the row of its program and reads it,   *)
(* then the balances, and only then locks the wallets: users and the house *)
(* go on spending and receiving in between.  One coin, at a price of one.  *)
(***************************************************************************)
EXTENDS Accounts

CONSTANTS Programs,               \* rows, and references of the ledger
          Emission,               \* of a program: units per unit of time
          StartAt, EndAt,         \* of a program
          Users, WalletOf,        \* users, and their PERSONAL wallets
          Staked,                 \* of a user: what counts beside his wallet
          RewardsWallet,          \* of the HOUSE
          RewardBalance, Workers, Horizon, MaxBrought

\* Every user has a wallet of his own; nothing orders the start and the end.
ASSUME RewardAssumption ==
    /\ IsFiniteSet(Users) /\ Programs \subseteq Refs
    /\ {"REWARD", "ADJUSTMENT", "SWAP_OUT", "SWAP_IN"} \subseteq Types
    /\ RewardsWallet \in Wallets /\ WalletOf \in [Users -> Wallets \ {RewardsWallet}]
    /\ \A u, v \in Users : WalletOf[u] = WalletOf[v] => u = v
    /\ RewardBalance \in [Wallets -> Int] /\ Staked \in [Users -> Nat]
    /\ Emission \in [Programs -> Nat]
    /\ StartAt \in [Programs -> Nat] /\ EndAt \in [Programs -> Nat]
    /\ Horizon \in Nat /\ MaxBrought \in Nat

VARIABLES clock, program,
          accrued,   \* reward_accruals.claimed_total
          tick,      \* of a worker: the programs left, and its distribution
          brought    \* units users and the house received from outside

rewardVars == <<led, clock, program, accrued, tick, brought>>

Resting == [at |-> "idle", left |-> {}]

RewardInit ==
    /\ led = [balance |-> RewardBalance, hold |-> {}, keys |-> {}]
    /\ clock = 0
    /\ program = [p \in Programs |-> [active |-> TRUE, last |-> StartAt[p]]]
    /\ accrued = [p \in Programs |-> [u \in Users |-> 0]]
    /\ tick = [w \in Workers |-> Resting]
    /\ brought = 0

\* The worker holds the row of the program it distributes.
Distributing(w) == tick[w].at \in {"weigh", "pay"}

RowFree(p) == \A w \in Workers : Distributing(w) => tick[w].program # p

-----------------------------------------------------------------------------
\* Slip: a program goes on after its end until a tick has noticed.
UntilNow(p) == clock

\* The window ends with the program.
UntilEnd(p) == IF clock > EndAt[p] THEN EndAt[p] ELSE clock

From(p) == IF program[p].last > StartAt[p] THEN program[p].last ELSE StartAt[p]
Due(p) == IF UntilEnd(p) > From(p) THEN Emission[p] * (UntilEnd(p) - From(p)) ELSE 0

Advance(p, now, finished) ==
    program' = [program EXCEPT ![p] = [active |-> ~ finished, last |-> now]]

Finished(p) == clock >= EndAt[p]

NextProgram(w, p) == tick' = [tick EXCEPT ![w] = [at |-> "listed", left |-> @.left \ {p}]]

ListPrograms(w) ==
    /\ tick[w].at = "idle"
    /\ tick' = [tick EXCEPT ![w] = [at |-> "listed", left |-> {p \in Programs : program[p].active}]]
    /\ UNCHANGED <<led, clock, program, accrued, brought>>

TickEnds(w) ==
    /\ tick[w].at = "listed" /\ tick[w].left = {}
    /\ tick' = [tick EXCEPT ![w] = Resting]
    /\ UNCHANGED <<led, clock, program, accrued, brought>>

\* distribute_program, to the balance of the HOUSE: an empty one is waited
\* for, and the clock of the program stays.
LockProgram(w, p) ==
    /\ tick[w].at = "listed" /\ p \in tick[w].left /\ RowFree(p)
    /\ LET due == Due(p)
           house == led.balance[RewardsWallet]
       IN \/ /\ ~ program[p].active \/ clock < StartAt[p] \/ (due > 0 /\ house <= 0)
             /\ NextProgram(w, p) /\ UNCHANGED program
          \/ /\ program[p].active /\ clock >= StartAt[p] /\ due = 0
             /\ NextProgram(w, p) /\ Advance(p, clock, Finished(p))
          \/ /\ program[p].active /\ clock >= StartAt[p] /\ due > 0 /\ house > 0
             /\ tick' = [tick EXCEPT ![w] =
                   [at |-> "weigh", left |-> @.left, program |-> p, now |-> clock,
                    finished |-> Finished(p), emission |-> IF due > house THEN house ELSE due]]
             /\ UNCHANGED program
    /\ UNCHANGED <<led, clock, accrued, brought>>

\* compute_user_weights
Weights ==
    [u \in Users |-> LET w == led.balance[WalletOf[u]] + Staked[u] IN IF w > 0 THEN w ELSE 0]
TotalWeight == SumFunctionOnSet(Weights, Users)
Share(u, emission) == IF TotalWeight = 0 THEN 0 ELSE (emission * Weights[u]) \div TotalWeight

\* With nobody to pay the window is over all the same.
WeighUsers(w) ==
    /\ tick[w].at = "weigh"
    /\ LET t == tick[w]
           shares == [u \in Users |-> Share(u, t.emission)]
       IN \/ /\ \E u \in Users : shares[u] > 0
             /\ tick' = [tick EXCEPT ![w] =
                   [at |-> "pay", left |-> t.left, program |-> t.program, now |-> t.now,
                    finished |-> t.finished, shares |-> shares]]
             /\ UNCHANGED program
          \/ /\ \A u \in Users : shares[u] = 0
             /\ NextProgram(w, t.program) /\ Advance(t.program, t.now, t.finished)
    /\ UNCHANGED <<led, clock, accrued, brought>>

Distribution(p, shares) ==
    LET paid == {u \in Users : shares[u] > 0}
    IN <<Entry(RewardsWallet, - SumFunctionOnSet(shares, paid), "REWARD", p)>>
       \o SetToSeq({Entry(WalletOf[u], shares[u], "REWARD", p) : u \in paid})

\* The entries, the accruals and the clock commit together, or not at all.
PayShares(w) ==
    /\ tick[w].at = "pay"
    /\ LET t == tick[w] p == tick[w].program es == Distribution(p, t.shares) IN
          /\ \/ /\ PostEach(es)
                /\ accrued' = [accrued EXCEPT ![p] = [u \in Users |-> @[u] + t.shares[u]]]
                /\ Advance(p, t.now, t.finished)
             \/ ~ AdmitsEach(es) /\ UNCHANGED <<led, accrued, program>>
          /\ NextProgram(w, p)
    /\ UNCHANGED <<clock, brought>>

\* The prices are stale, the database fails, or the worker stops.
DistributionFails(w) ==
    /\ tick[w].at \in {"weigh", "pay"}
    /\ NextProgram(w, tick[w].program)
    /\ UNCHANGED <<led, clock, program, accrued, brought>>

-----------------------------------------------------------------------------
\* set_program_active, with no lock and no look at the state of the program.
SetActive(p) ==
    /\ RowFree(p)
    /\ program' = [program EXCEPT ![p].active = ~ @]
    /\ UNCHANGED <<led, clock, accrued, tick, brought>>

Receive(wallet) ==
    /\ brought < MaxBrought /\ Post(Entry(wallet, 1, "ADJUSTMENT", NoRef))
    /\ brought' = brought + 1
    /\ UNCHANGED <<clock, program, accrued, tick>>

\* A swap with the house, to whom both coins are the same here.
HousePays(u) ==
    /\ PostEach(<<Entry(RewardsWallet, -1, "SWAP_OUT", NoRef), Entry(WalletOf[u], 1, "SWAP_IN", NoRef)>>)
    /\ UNCHANGED <<clock, program, accrued, tick, brought>>

TimePasses ==
    /\ clock < Horizon /\ clock' = clock + 1
    /\ UNCHANGED <<led, program, accrued, tick, brought>>

RewardNext ==
    \/ \E w \in Workers :
          \/ ListPrograms(w) \/ TickEnds(w) \/ WeighUsers(w) \/ PayShares(w) \/ DistributionFails(w)
          \/ \E p \in Programs : LockProgram(w, p)
    \/ \E p \in Programs : SetActive(p)
    \/ Receive(RewardsWallet)
    \/ \E u \in Users : Receive(WalletOf[u]) \/ HousePays(u)
    \/ TimePasses

RewardSpec == RewardInit /\ [][RewardNext]_rewardVars

-----------------------------------------------------------------------------
PaidBy(p) == SumFunctionOnSet(accrued[p], Users)

Ticks ==
    [at : {"idle", "listed"}, left : SUBSET Programs]
    \cup [at : {"weigh"}, left : SUBSET Programs, program : Programs, now : 0..Horizon,
          finished : BOOLEAN, emission : Nat]
    \cup [at : {"pay"}, left : SUBSET Programs, program : Programs, now : 0..Horizon,
          finished : BOOLEAN, shares : [Users -> Nat]]

RewardTypeOK ==
    /\ led \in Ledgers /\ clock \in 0..Horizon /\ brought \in 0..MaxBrought
    /\ program \in [Programs -> [active : BOOLEAN, last : Nat]]
    /\ accrued \in [Programs -> [Users -> Nat]]
    /\ tick \in [Workers -> Ticks]

\* The time of p up to some moment, or up to its end.
Covered(p, at) ==
    LET until == IF at < EndAt[p] THEN at ELSE EndAt[p]
    IN IF until > StartAt[p] THEN until - StartAt[p] ELSE 0

\* "Locks the program row so overlapping ticks never double-pay"
\* (rewards.rs:192-193): with workers that overlap, fail and retry, windows
\* that were waited for, and programs switched off and on, a program has paid
\* at most its rate for the time its clock has covered, up to its end.
WithinEmission == \A p \in Programs : PaidBy(p) <= Emission[p] * Covered(p, program[p].last)

\* What a worker has computed stays within the rate while it holds the row,
\* whatever the balances do meanwhile: nobody else moves the clock of its
\* program, and rounding the shares down never makes more of the emission.
DistributionStands(w) ==
    LET t == tick[w] IN
    /\ program[t.program].last <= t.now /\ t.now <= clock
    /\ \A v \in Workers \ {w} : Distributing(v) => tick[v].program # t.program
    /\ t.at = "weigh" => t.emission <= Emission[t.program] * Covered(t.program, t.now)
    /\ t.at = "pay" => /\ \E u \in Users : t.shares[u] > 0
                       /\ SumFunctionOnSet(t.shares, Users)
                             <= Emission[t.program] * Covered(t.program, t.now)

DistributionsStand ==
    /\ \A w \in Workers : Distributing(w) => DistributionStands(w)
    /\ \A p \in Programs : program[p].last <= clock \/ program[p].last = StartAt[p]

\* The unique index takes one REWARD of a program per wallet, the one of the
\* HOUSE among them: a program pays in one distribution, and a distribution
\* that comes after it changes nothing.
OnePayment ==
    \A p \in Programs :
        /\ PaidBy(p) > 0 <=> Recorded(RewardsWallet, "REWARD", p)
        /\ \A u \in Users : accrued[p][u] > 0 <=> Recorded(WalletOf[u], "REWARD", p)

\* What some balances leave to the house and the users together.
Funds(balance) ==
    balance[RewardsWallet] + SumFunctionOnSet([u \in Users |-> balance[WalletOf[u]]], Users)

\* What the users have and what the house has changes by what comes in only.
RewardsBacked == Funds(led.balance) = Funds(RewardBalance) + brought

RewardInv ==
    RewardTypeOK /\ DistributionsStand /\ WithinEmission /\ OnePayment /\ RewardsBacked

=============================================================================
