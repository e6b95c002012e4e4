-------------------------------- MODULE Lend --------------------------------
(***************************************************************************)
(* The lending market (db/lend.rs, shared/lend.rs): indexes that grow with *)
(* interest, positions in units scaled by them, and the checks that keep a *)
(* debt within its collateral.                                             *)
(*                                                                         *)
(* An operation locks the reserve of its coin and accrues, checks under    *)
(* the locks of the wallets, and then commits the accrual, the entries and *)
(* the positions together.  The check reads the positions of the user in   *)
(* other coins, and their indexes, without a lock: other operations may    *)
(* commit before this one does.  Every market lends and is collateral.     *)
(* The routes answer LEND_MAINTENANCE; what is modelled is the library.    *)
(***************************************************************************)
EXTENDS Accounts

CONSTANTS LendUsers, Coins,
          UserWallet, PoolWallet, LendBalance, \* wallets of a user and of the pool, by coin
          PositionRef,                   \* "{user}:{coin}"
          LendRequests,                  \* rows: op, user, coin, amount, and who and what is liquidated
          Market,                        \* of a coin: the factors and the rates, in bps
          CloseFactor,
          LendPrices,                    \* price tables
          Ray, LendYear, LastTick, MaxOpen

Bps == 10000

\* The pool of a coin is a wallet of its own, and starts without a debt.  A market
\* lends less than it accepts as cover; a share of a rate is at most all of it.
ASSUME LendAssumption ==
    /\ IsFiniteSet(LendUsers) /\ IsFiniteSet(Coins)
    /\ {"LEND_SUPPLY", "LEND_WITHDRAW", "LEND_BORROW", "LEND_REPAY", "LIQUIDATION"} \subseteq Types
    /\ LendBalance \in [Wallets -> Int]
    /\ \A c \in Coins : PoolWallet[c] \in Wallets /\ LendBalance[PoolWallet[c]] \in Nat
    /\ \A c, d \in Coins : PoolWallet[c] = PoolWallet[d] => c = d
    /\ \A u \in LendUsers, c \in Coins :
          UserWallet[u][c] \in Wallets \ {PoolWallet[d] : d \in Coins} /\ PositionRef[u][c] \in Refs
    /\ \A r \in LendRequests :
          /\ r.op \in {"supply", "withdraw", "borrow", "repay", "liquidate"}
          /\ r.user \in LendUsers /\ r.coin \in Coins /\ r.amount \in Nat
          /\ r.of.user \in LendUsers /\ r.of.coin \in Coins
    /\ \A c \in Coins :
          /\ Market[c].optimal \in 1..Bps /\ Market[c].slope1 \in Nat /\ Market[c].slope2 \in Nat
          /\ Market[c].reserveFactor \in 0..Bps /\ Market[c].bonus \in Nat
          /\ Market[c].collateralFactor \in Nat /\ Market[c].threshold \in Nat
          /\ Market[c].collateralFactor <= Market[c].threshold
    /\ \A ps \in LendPrices, c \in Coins : ps[c] \in Nat \ {0}
    /\ CloseFactor \in 0..Bps /\ LastTick \in Nat
    /\ Ray \in Nat \ {0} /\ LendYear \in Nat \ {0}

VARIABLES reserves, positions, ticks, prices,
          lend,      \* of a request: how far it is
          audit,     \* LEND_LIQUIDATE rows, with the debt they found
          slack,     \* of a coin: what the roundings may have cost its pool, times Ray
          skewed,    \* users of whom two operations were past their checks
          strained   \* users left with too much debt by an operation, at what it read

lendVars == <<led, reserves, positions, ticks, prices, lend, audit, slack, skewed, strained>>

New0 == [at |-> "new"]
NoPosition == [supply |-> 0, debt |-> 0]

LendInit ==
    /\ led = [balance |-> LendBalance, hold |-> {}, keys |-> {}]
    /\ reserves = [c \in Coins |-> [li |-> Ray, bi |-> Ray, supply |-> 0, debt |-> 0, at |-> 0]]
    /\ positions = [u \in LendUsers |-> [c \in Coins |-> NoPosition]]
    /\ ticks = 0 /\ prices \in LendPrices
    /\ lend = [r \in LendRequests |-> New0]
    /\ audit = {} /\ slack = [c \in Coins |-> 0]
    /\ skewed = {} /\ strained = {}

-----------------------------------------------------------------------------
\* The arithmetic of shared/lend.rs; every quotient is rounded down.
Utilization(debt, available) ==
    IF debt + available = 0 THEN 0 ELSE (debt * Bps) \div (debt + available)

Rounded(n, d) == (2 * n + d) \div (2 * d)

BorrowRate(u, m) ==
    IF u <= m.optimal THEN Rounded(m.slope1 * u, m.optimal)
    ELSE m.slope1 + Rounded(m.slope2 * (u - m.optimal), Bps - m.optimal)

SupplyRate(rate, u, m) == (((rate * u) \div Bps) * (Bps - m.reserveFactor)) \div Bps

AccrueIndex(index, rate, elapsed) == index + (index * rate * elapsed) \div (Bps * LendYear)

ScaledToAmount(scaled, index) == (scaled * index) \div Ray
AmountToScaled(amount, index) == (amount * Ray) \div index

Pool(c) == led.balance[PoolWallet[c]]

Used(c) == Utilization(ScaledToAmount(reserves[c].debt, reserves[c].bi), Pool(c))
Rate(c) == BorrowRate(Used(c), Market[c])

Accrued(c) ==
    [reserves[c] EXCEPT !.li = AccrueIndex(@, SupplyRate(Rate(c), Used(c), Market[c]), ticks - reserves[c].at),
                        !.bi = AccrueIndex(@, Rate(c), ticks - reserves[c].at),
                        !.at = ticks]

Value(c, amount, ps) == amount * ps[c]

\* compute_account_liquidity, for positions pos and indexes idx.
Collateral(pos, idx, ps, factor) ==
    SumFunctionOnSet([c \in Coins |-> (Value(c, ScaledToAmount(pos[c].supply, idx[c].li), ps)
                                         * Market[c][factor]) \div Bps], Coins)
BorrowPower(pos, idx, ps) == Collateral(pos, idx, ps, "collateralFactor")
Threshold(pos, idx, ps) == Collateral(pos, idx, ps, "threshold")
Debt(pos, idx, ps) ==
    SumFunctionOnSet([c \in Coins |-> Value(c, ScaledToAmount(pos[c].debt, idx[c].bi), ps)], Coins)

-----------------------------------------------------------------------------
Holding(r) == IF lend[r].at \in {"debt", "locked", "checked"} THEN DOMAIN lend[r].fresh ELSE {}

\* Slip: the row is read without FOR UPDATE.
NoRowLock(c) == TRUE

ReserveFree(c) == \A r \in LendRequests : c \notin Holding(r)

Open == {r \in LendRequests : Holding(r) # {}}

\* accrue, of the coin an operation is about.
Begin(r) ==
    /\ lend[r] = New0 /\ Cardinality(Open) < MaxOpen /\ ReserveFree(r.coin)
    /\ lend' = [lend EXCEPT ![r] = [at |-> IF r.op = "liquidate" /\ r.of.coin # r.coin THEN "debt" ELSE "locked",
                                    fresh |-> [c \in {r.coin} |-> Accrued(c)], ps |-> prices]]
    /\ UNCHANGED <<led, reserves, positions, ticks, prices, audit, slack, skewed, strained>>

\* liquidate accrues the coin of the debt first, then that of the collateral.
AccrueCollateral(r) ==
    /\ lend[r].at = "debt" /\ ReserveFree(r.of.coin)
    /\ lend' = [lend EXCEPT ![r] =
           [at |-> "locked", ps |-> @.ps,
            fresh |-> [c \in {r.coin, r.of.coin} |-> IF c = r.coin THEN @.fresh[c] ELSE Accrued(c)]]]
    /\ UNCHANGED <<led, reserves, positions, ticks, prices, audit, slack, skewed, strained>>

\* Two liquidations the other way round wait for each other: one is rolled back.
Deadlock(r) ==
    /\ lend[r].at = "debt"
    /\ \E s \in LendRequests \ {r} : /\ lend[s].at = "debt"
                                     /\ s.coin = r.of.coin /\ s.of.coin = r.coin
    /\ lend' = [lend EXCEPT ![r] = [at |-> "refused"]]
    /\ UNCHANGED <<led, reserves, positions, ticks, prices, audit, slack, skewed, strained>>

Smaller(a, b) == IF a < b THEN a ELSE b

\* What the operation finds it may move: a set, empty when it is refused.
\* idx holds its fresh indexes, and the stored ones of the other coins.
Supplied(r, idx) == {[out |-> r.amount]}

Withdrawn(r, idx, ps) ==
    LET pos == positions[r.user]
        out == Smaller(r.amount, ScaledToAmount(pos[r.coin].supply, idx[r.coin].li))
        left == Threshold(pos, idx, ps) - (Value(r.coin, out, ps) * Market[r.coin].threshold) \div Bps
        debt == Debt(pos, idx, ps)
    IN {x \in {[out |-> out]} : /\ pos[r.coin].supply > 0 /\ out <= Pool(r.coin)
                                /\ debt > 0 => left >= debt}

Borrowed(r, idx, ps) ==
    LET pos == positions[r.user]
    IN {x \in {[out |-> r.amount]} :
           /\ r.amount <= Pool(r.coin)
           /\ Debt(pos, idx, ps) + Value(r.coin, r.amount, ps) <= BorrowPower(pos, idx, ps)}

Repaid(r, idx) ==
    LET pos == positions[r.user][r.coin]
    IN {x \in {[out |-> Smaller(r.amount, ScaledToAmount(pos.debt, idx[r.coin].bi))]} : pos.debt > 0}

Liquidated(r, idx, ps) ==
    LET pos == positions[r.of.user]
        bonus == Bps + Market[r.of.coin].bonus
        debt == ScaledToAmount(pos[r.coin].debt, idx[r.coin].bi)
        coll == ScaledToAmount(pos[r.of.coin].supply, idx[r.of.coin].li)
        asked == Smaller(r.amount, (debt * CloseFactor) \div Bps)
        wanted == ((Value(r.coin, asked, ps) * bonus) \div Bps) \div ps[r.of.coin]
        capped == ((Value(r.of.coin, coll, ps) * Bps) \div bonus) \div ps[r.coin]
    IN {x \in {IF wanted > coll THEN [out |-> capped, seized |-> coll, debt |-> debt]
               ELSE [out |-> asked, seized |-> wanted, debt |-> debt]} :
           /\ r.user # r.of.user
           /\ pos[r.coin].debt > 0 /\ pos[r.of.coin].supply > 0
           /\ Threshold(pos, idx, ps) < Debt(pos, idx, ps)
           /\ x.out > 0 /\ x.seized > 0}

Moves(r, idx, ps) ==
    CASE r.op = "supply"    -> Supplied(r, idx)
      [] r.op = "withdraw"  -> Withdrawn(r, idx, ps)
      [] r.op = "borrow"    -> Borrowed(r, idx, ps)
      [] r.op = "repay"     -> Repaid(r, idx)
      [] r.op = "liquidate" -> Liquidated(r, idx, ps)

Indexes(r) == [c \in Coins |-> IF c \in DOMAIN lend[r].fresh THEN lend[r].fresh[c] ELSE reserves[c]]

\* Whose position an operation changes.
Owner(r) == IF r.op = "liquidate" THEN r.of.user ELSE r.user

Check(r) ==
    /\ lend[r].at = "locked"
    /\ LET found == Moves(r, Indexes(r), lend[r].ps)
       IN /\ lend' = [lend EXCEPT ![r] =
                 IF found = {} THEN [at |-> "refused"]
                 ELSE [at |-> "checked", fresh |-> @.fresh, ps |-> @.ps, idx |-> Indexes(r),
                       move |-> CHOOSE x \in found : TRUE]]
          /\ skewed' = IF found # {} /\ \E s \in LendRequests \ {r} :
                             lend[s].at = "checked" /\ Owner(s) = Owner(r)
                       THEN skewed \cup {Owner(r)} ELSE skewed
    /\ UNCHANGED <<led, reserves, positions, ticks, prices, audit, slack, strained>>

-----------------------------------------------------------------------------
LedgerMove(from, to, amount, type, ref) == <<Entry(from, -amount, type, ref), Entry(to, amount, type, ref)>>

LedgerMoves(r, move) ==
    LET mine == UserWallet[r.user][r.coin]
        pool == PoolWallet[r.coin]
        ref == PositionRef[r.user][r.coin]
    IN CASE r.op = "supply"    -> LedgerMove(mine, pool, move.out, "LEND_SUPPLY", ref)
         [] r.op = "withdraw"  -> LedgerMove(pool, mine, move.out, "LEND_WITHDRAW", ref)
         [] r.op = "borrow"    -> LedgerMove(pool, mine, move.out, "LEND_BORROW", ref)
         [] r.op = "repay"     -> LedgerMove(mine, pool, move.out, "LEND_REPAY", ref)
         [] r.op = "liquidate" ->
               LedgerMove(mine, pool, move.out, "LIQUIDATION", PositionRef[r.of.user][r.coin])
               \o LedgerMove(PoolWallet[r.of.coin], UserWallet[r.user][r.of.coin], move.seized,
                       "LIQUIDATION", PositionRef[r.of.user][r.of.coin])

\* By how much supply and debt of a coin change, in scaled units.
SupplyChange(r, move, idx, c) ==
    CASE r.op = "supply" /\ c = r.coin       -> AmountToScaled(move.out, idx[c].li)
      [] r.op = "withdraw" /\ c = r.coin     -> -AmountToScaled(move.out, idx[c].li)
      [] r.op = "liquidate" /\ c = r.of.coin -> -AmountToScaled(move.seized, idx[c].li)
      [] OTHER -> 0

DebtChange(r, move, idx, c) ==
    CASE r.op = "borrow" /\ c = r.coin -> AmountToScaled(move.out, idx[c].bi)
      [] r.op \in {"repay", "liquidate"} /\ c = r.coin -> -AmountToScaled(move.out, idx[c].bi)
      [] OTHER -> 0

Grown(n, ch) == IF n + ch > 0 THEN n + ch ELSE 0

\* A position, or a reserve, after it.
Changed(row, r, move, idx, c) ==
    [row EXCEPT !.supply = Grown(@, SupplyChange(r, move, idx, c)),
                !.debt = Grown(@, DebtChange(r, move, idx, c))]

\* Of what is rounded down: the interest on the debt, and the units given for what
\* leaves the pool.  What a pool lacks bears interest as well.
Slack(r, fresh, c) ==
    LET elapsed == fresh[c].at - reserves[c].at
    IN AccrueIndex(slack[c] + Ray, Rate(c), elapsed) - Ray
       + (IF elapsed > 0 THEN reserves[c].debt ELSE 0)
       + (CASE r.op = "borrow" -> fresh[c].bi
            [] r.op = "withdraw" \/ (r.op = "liquidate" /\ c = r.of.coin) -> fresh[c].li
            [] OTHER -> 0)

\* More debt than collateral, by more than the rounding of a value.
Strained(pos, idx, ps) == Threshold(pos, idx, ps) + 1 < Debt(pos, idx, ps)

Commit(r) ==
    /\ lend[r].at = "checked"
    /\ LET t == lend[r]
           es == LedgerMoves(r, t.move)
           after(row, c) == Changed(row, r, t.move, t.fresh, c)
       IN \/ /\ PostEach(es)
             /\ positions' = [positions EXCEPT ![Owner(r)] = [c \in Coins |-> after(@[c], c)]]
             /\ reserves' = [c \in Coins |-> IF c \in DOMAIN t.fresh THEN after(t.fresh[c], c) ELSE reserves[c]]
             /\ audit' = IF r.op # "liquidate" THEN audit
                         ELSE audit \cup {[by |-> r, move |-> t.move, ps |-> t.ps]}
             /\ slack' = [c \in Coins |-> IF c \in DOMAIN t.fresh THEN Slack(r, t.fresh, c) ELSE slack[c]]
             /\ strained' = IF /\ r.op \in {"withdraw", "borrow"}
                               /\ Strained(positions'[r.user], t.idx, t.ps)
                            THEN strained \cup {r.user} ELSE strained
             /\ lend' = [lend EXCEPT ![r] = [at |-> "done"]]
          \/ /\ ~ AdmitsEach(es)
             /\ lend' = [lend EXCEPT ![r] = [at |-> "refused"]]
             /\ UNCHANGED <<led, positions, reserves, audit, slack, strained>>
    /\ UNCHANGED <<ticks, prices, skewed>>

PricesMove ==
    /\ \E ps \in LendPrices \ {prices} : prices' = ps
    /\ UNCHANGED <<led, reserves, positions, ticks, lend, audit, slack, skewed, strained>>

LendTick ==
    /\ ticks < LastTick /\ ticks' = ticks + 1
    /\ UNCHANGED <<led, reserves, positions, prices, lend, audit, slack, skewed, strained>>

LendNext ==
    \/ \E r \in LendRequests : Begin(r) \/ AccrueCollateral(r) \/ Deadlock(r) \/ Check(r) \/ Commit(r)
    \/ PricesMove \/ LendTick

LendSpec == LendInit /\ [][LendNext]_lendVars

-----------------------------------------------------------------------------
LendTypeOK ==
    /\ led \in Ledgers /\ ticks \in 0..LastTick /\ prices \in LendPrices
    /\ \A c \in Coins : /\ reserves[c] \in [li : Nat, bi : Nat, supply : Nat, debt : Nat, at : 0..ticks]
                        /\ reserves[c].li >= Ray /\ reserves[c].bi >= reserves[c].li
    /\ positions \in [LendUsers -> [Coins -> [supply : Nat, debt : Nat]]]
    /\ \A r \in LendRequests : lend[r].at \in {"new", "debt", "locked", "checked", "refused", "done"}

\* "locks the reserve row" (lend.rs:85): withdraw, repay and liquidate write
\* the position they read earlier, and still the totals of a reserve are those
\* of its positions.
TotalsMatch ==
    \A c \in Coins :
        /\ reserves[c].supply = SumFunctionOnSet([u \in LendUsers |-> positions[u][c].supply], LendUsers)
        /\ reserves[c].debt = SumFunctionOnSet([u \in LendUsers |-> positions[u][c].debt], LendUsers)

\* What the pool holds and is owed covers what it owes, but for the roundings
\* (slack): interest and the units of those who borrow or withdraw are rounded
\* down (shared/lend.rs:212).
PoolCovers ==
    \A c \in Coins :
        Pool(c) * Ray + reserves[c].debt * reserves[c].bi + slack[c]
        >= LendBalance[PoolWallet[c]] * Ray + reserves[c].supply * reserves[c].li

\* "safe for a borrow-power/health-factor check" (lend.rs:174): an operation
\* leaves its user within his collateral, at the prices and indexes it read,
\* unless another operation on his positions (one of his own, or a liquidation)
\* was past its check at the same time.
DebtsCovered == strained \subseteq skewed

\* "seize all of it and scale the repay down proportionally so the liquidator
\* never overpays" (lend.rs:663-664), within the close factor, and up to what
\* a unit is worth.
Fair(a) ==
    LET paid == Value(a.by.coin, a.move.out, a.ps)
        got == Value(a.by.of.coin, a.move.seized, a.ps)
        bonus == Bps + Market[a.by.of.coin].bonus
    IN /\ a.move.out * Bps <= a.move.debt * CloseFactor
       /\ got + a.ps[a.by.of.coin] > (paid * bonus) \div Bps
       /\ got <= ((paid + a.ps[a.by.coin]) * bonus) \div Bps

LiquidationsFair == \A a \in audit : Fair(a)

LendInv == LendTypeOK /\ TotalsMatch /\ PoolCovers /\ DebtsCovered /\ LiquidationsFair

=============================================================================
