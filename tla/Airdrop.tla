------------------------------ MODULE Airdrop ------------------------------
(***************************************************************************)
(* Faucet claims (db/faucet.rs) and the points of an airdrop season        *)
(* (db/airdrop.rs), for one user and one coin.  A claim, its payout and    *)
(* its points commit together.  A deposit is credited first and awarded    *)
(* after, and a worker that boots repairs what was missed: it lists the    *)
(* gaps of one kind after the other, and awards point by point.            *)
(*                                                                         *)
(* A claim works under an advisory lock and the lock of the wallet, with   *)
(* the time at which it began.                                             *)
(***************************************************************************)
EXTENDS Accounts, FiniteSets

CONSTANTS Claims,         \* requests for a claim, and references of the ledger
          ClaimantWallet, FaucetWallet, FaucetBalance,
          FaucetReward, FaucetFloor, Cooldown,
          Boots,          \* workers that boot
          MaxDeposits, LastTime

ASSUME AirdropAssumption ==
    /\ IsFiniteSet(Claims) /\ Claims \subseteq Refs
    /\ {ClaimantWallet, FaucetWallet} \subseteq Wallets /\ ClaimantWallet # FaucetWallet
    /\ {"FAUCET", "ADJUSTMENT"} \subseteq Types
    /\ FaucetBalance \in [Wallets -> Int] /\ FaucetBalance[FaucetWallet] >= 0
    /\ FaucetReward \in Nat /\ FaucetFloor \in Nat /\ Cooldown \in Nat
    /\ MaxDeposits \in Nat /\ LastTime \in Nat

VARIABLES time,
          claim,      \* of a request: how far it is, and when it began
          season,     \* the ACTIVE season: whether there is one, and its start_at
          deposits,   \* CREDITED deposits of the user
          toAward,    \* of them, those the watcher has in hand
          logged,     \* airdrop_point_logs, by kind
          gaps,       \* of a boot: what it has left to award, by kind
          overlapped  \* kinds whose gaps were listed while they were being awarded

airdropVars == <<led, time, claim, season, deposits, toAward, logged, gaps, overlapped>>

Kinds == {"DEPOSIT_CONFIRMED", "FAUCET_CLAIM"}
NeverClaimed == -1000
NotListed == -1

AirdropInit ==
    /\ led = [balance |-> FaucetBalance, hold |-> {}, keys |-> {}]
    /\ time = 0
    /\ claim = [c \in Claims |-> [at |-> "new", began |-> 0]]
    /\ season = [on |-> FALSE, start |-> 0]
    /\ deposits = 0 /\ toAward = 0
    /\ logged = [k \in Kinds |-> 0]
    /\ gaps = [b \in Boots |-> [k \in Kinds |-> NotListed]]
    /\ overlapped = {}

Reaches(c, step) == claim' = [claim EXCEPT ![c].at = step]

-----------------------------------------------------------------------------
BeginClaim(c) ==
    /\ claim[c].at = "new"
    /\ claim' = [claim EXCEPT ![c] = [at |-> "begun", began |-> time]]
    /\ UNCHANGED <<led, time, season, deposits, toAward, logged, gaps, overlapped>>

\* Slip: neither lock is taken.
NoLocks == TRUE

LocksFree == \A c \in Claims : claim[c].at # "checked"

Paid == {c \in Claims : claim[c].at = "paid"}
LastClaim == LET times == {claim[c].began : c \in Paid}
             IN IF Paid = {} THEN NeverClaimed ELSE Max(times)

\* Both locks, and the SELECT of the last claim.
LockAndCheck(c) ==
    /\ claim[c].at = "begun" /\ LocksFree
    /\ Reaches(c, IF LastClaim + Cooldown > claim[c].began THEN "refused" ELSE "checked")
    /\ UNCHANGED <<led, time, season, deposits, toAward, logged, gaps, overlapped>>

\* award_airdrop_points_tx: nothing without an ACTIVE season.
Awarded(kind) ==
    logged' = IF season.on THEN [logged EXCEPT ![kind] = @ + 1] ELSE logged

Payout(c) == <<Entry(FaucetWallet, -FaucetReward, "FAUCET", c),
               Entry(ClaimantWallet, FaucetReward, "FAUCET", c)>>

PayClaim(c) ==
    /\ claim[c].at = "checked"
    /\ \/ PostEach(Payout(c)) /\ Reaches(c, "paid") /\ Awarded("FAUCET_CLAIM")
       \/ ~ AdmitsEach(Payout(c)) /\ Reaches(c, "refused") /\ UNCHANGED <<led, logged>>
    /\ UNCHANGED <<time, season, deposits, toAward, gaps, overlapped>>

\* ensure_faucet_floor, when a process boots: an empty inventory is filled.
EnsureFaucetFloor ==
    /\ led.balance[FaucetWallet] <= 0
    /\ Post(Entry(FaucetWallet, FaucetFloor, "ADJUSTMENT", NoRef))
    /\ UNCHANGED <<time, claim, season, deposits, toAward, logged, gaps, overlapped>>

-----------------------------------------------------------------------------
\* credit_deposit, of which the watcher learns.
CreditDeposit ==
    /\ deposits < MaxDeposits
    /\ deposits' = deposits + 1 /\ toAward' = toAward + 1
    /\ UNCHANGED <<led, time, claim, season, logged, gaps, overlapped>>

AwardDeposit ==
    /\ toAward > 0
    /\ toAward' = toAward - 1
    /\ Awarded("DEPOSIT_CONFIRMED")
    /\ UNCHANGED <<led, time, claim, season, deposits, gaps, overlapped>>

\* The watcher stops, or the award fails, which it only logs.
AwardLost ==
    /\ toAward > 0
    /\ toAward' = toAward - 1
    /\ UNCHANGED <<led, time, claim, season, deposits, logged, gaps, overlapped>>

-----------------------------------------------------------------------------
AllDone(kind) ==
    IF kind = "DEPOSIT_CONFIRMED" THEN deposits
    ELSE Cardinality({c \in Paid : season.on /\ claim[c].began >= season.start})

\* Slip: what was awarded before is not taken off.
MissingAll(kind) == AllDone(kind)

Missing(kind) ==
    LET done == AllDone(kind) IN IF done > logged[kind] THEN done - logged[kind] ELSE 0

BeingAwarded(kind, b) ==
    \/ kind = "DEPOSIT_CONFIRMED" /\ toAward > 0
    \/ \E o \in Boots \ {b} : gaps[o][kind] > 0

\* backfill_missed_airdrop_points: the deposits, then the claims of a season.
ListGaps(b, kind) ==
    /\ gaps[b][kind] = NotListed
    /\ kind = "FAUCET_CLAIM" => gaps[b]["DEPOSIT_CONFIRMED"] = 0
    /\ gaps' = [gaps EXCEPT ![b][kind] = Missing(kind)]
    /\ overlapped' = IF BeingAwarded(kind, b) THEN overlapped \cup {kind} ELSE overlapped
    /\ UNCHANGED <<led, time, claim, season, deposits, toAward, logged>>

Backfill(b, kind) ==
    /\ gaps[b][kind] > 0
    /\ gaps' = [gaps EXCEPT ![b][kind] = @ - 1]
    /\ Awarded(kind)
    /\ UNCHANGED <<led, time, claim, season, deposits, toAward, overlapped>>

\* The process stops; it repairs again when it boots again.
Reboot(b) ==
    /\ gaps[b]["DEPOSIT_CONFIRMED"] # NotListed
    /\ gaps' = [gaps EXCEPT ![b] = [k \in Kinds |-> NotListed]]
    /\ UNCHANGED <<led, time, claim, season, deposits, toAward, logged, overlapped>>

SeasonStarts ==
    /\ ~ season.on /\ season.start = 0
    /\ season' = [on |-> TRUE, start |-> time]
    /\ UNCHANGED <<led, time, claim, deposits, toAward, logged, gaps, overlapped>>

Elapse ==
    /\ time < LastTime /\ time' = time + 1
    /\ UNCHANGED <<led, claim, season, deposits, toAward, logged, gaps, overlapped>>

AirdropNext ==
    \/ \E c \in Claims : BeginClaim(c) \/ LockAndCheck(c) \/ PayClaim(c)
    \/ EnsureFaucetFloor
    \/ CreditDeposit \/ AwardDeposit \/ AwardLost
    \/ \E b \in Boots :
          \/ \E k \in Kinds : ListGaps(b, k) \/ Backfill(b, k)
          \/ Reboot(b)
    \/ SeasonStarts \/ Elapse

AirdropSpec == AirdropInit /\ [][AirdropNext]_airdropVars

-----------------------------------------------------------------------------
AirdropTypeOK ==
    /\ led \in Ledgers /\ time \in 0..LastTime
    /\ claim \in [Claims -> [at : {"new", "begun", "checked", "refused", "paid"}, began : 0..LastTime]]
    /\ season \in [on : BOOLEAN, start : 0..LastTime]
    /\ deposits \in 0..MaxDeposits /\ toAward \in 0..deposits
    /\ logged \in [Kinds -> Nat]
    /\ gaps \in [Boots -> [Kinds -> Nat \cup {NotListed}]] /\ overlapped \subseteq Kinds

\* "two requests racing at the end of the cooldown can't both pass the check"
\* (faucet.rs:107-108), whenever each of them began and got its locks.
CooldownKept ==
    \A b, c \in Paid : b # c /\ claim[b].began <= claim[c].began =>
        claim[b].began + Cooldown <= claim[c].began

\* "Idempotent repair" (airdrop.rs:170): however often workers boot, stop in
\* the middle of a repair and boot again, an activity is awarded once, unless
\* its gaps were listed while another process was awarding them.
AwardedOnce ==
    /\ "DEPOSIT_CONFIRMED" \notin overlapped => logged["DEPOSIT_CONFIRMED"] <= deposits
    /\ "FAUCET_CLAIM" \notin overlapped => logged["FAUCET_CLAIM"] <= Cardinality(Paid)

\* The faucet pays what it committed to, out of its inventory, and the points
\* of a claim are never lost with the season on: they are in its transaction.
PaidFromInventory ==
    /\ led.balance[FaucetWallet] >= 0
    /\ led.balance[ClaimantWallet] = FaucetBalance[ClaimantWallet] + FaucetReward * Cardinality(Paid)
    /\ season.on => logged["FAUCET_CLAIM"] >= Cardinality({c \in Paid : claim[c].began > season.start})

AirdropInv == AirdropTypeOK /\ CooldownKept /\ AwardedOnce /\ PaidFromInventory

=============================================================================
