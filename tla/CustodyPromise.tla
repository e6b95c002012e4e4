---------------------------- MODULE CustodyPromise ----------------------------
(***************************************************************************)
(* What the custody of deposits and withdrawals promises, in terms of the  *)
(* money alone: a withdrawal holds its cost once per idempotency key, and  *)
(* what it holds is either paid out or returned, never both and never      *)
(* twice; a deposit is credited once, and taken back at most once; a       *)
(* wallet that owes a deposit it has spent neither gains nor loses until   *)
(* somebody looks at it.  Custody implements it.                           *)
(***************************************************************************)
EXTENDS Integers

CONSTANTS Wallets, Requests, WalletOf, KeyOf, NoKey, Cost,
          Outputs, DepositWallet, DepositAmount, InitialBalance

VARIABLES balance, \* of each wallet
          funds,   \* of each withdrawal: none, held, paid or returned
          credit   \* of each deposit: open, credited, reversed or owed

vars == <<balance, funds, credit>>

Init ==
    /\ balance = InitialBalance
    /\ funds = [w \in Requests |-> "none"]
    /\ credit = [o \in Outputs |-> "open"]

Frozen(w) == \E o \in Outputs : DepositWallet[o] = w /\ credit[o] = "owed"

Move(w, amount) == balance' = [balance EXCEPT ![w] = @ + amount]

Hold(r) ==
    /\ funds[r] = "none"
    /\ \A s \in Requests : KeyOf[s] = KeyOf[r] /\ KeyOf[r] # NoKey => funds[s] = "none"
    /\ balance[WalletOf[r]] >= Cost[r]
    /\ ~ Frozen(WalletOf[r])
    /\ funds' = [funds EXCEPT ![r] = "held"]
    /\ Move(WalletOf[r], -Cost[r])
    /\ UNCHANGED credit

PayOut(r) ==
    /\ funds[r] = "held"
    /\ funds' = [funds EXCEPT ![r] = "paid"]
    /\ UNCHANGED <<balance, credit>>

Return(r) ==
    /\ funds[r] = "held"
    /\ ~ Frozen(WalletOf[r])
    /\ funds' = [funds EXCEPT ![r] = "returned"]
    /\ Move(WalletOf[r], Cost[r])
    /\ UNCHANGED credit

Take(o) ==
    /\ credit[o] = "open"
    /\ ~ Frozen(DepositWallet[o])
    /\ credit' = [credit EXCEPT ![o] = "credited"]
    /\ Move(DepositWallet[o], DepositAmount[o])
    /\ UNCHANGED funds

Reverse(o) ==
    /\ credit[o] = "credited"
    /\ \/ /\ balance[DepositWallet[o]] >= DepositAmount[o]
          /\ credit' = [credit EXCEPT ![o] = "reversed"]
          /\ Move(DepositWallet[o], -DepositAmount[o])
       \/ /\ balance[DepositWallet[o]] < DepositAmount[o]
          /\ credit' = [credit EXCEPT ![o] = "owed"]
          /\ UNCHANGED balance
    /\ UNCHANGED funds

Next ==
    \/ \E r \in Requests : Hold(r) \/ PayOut(r) \/ Return(r)
    \/ \E o \in Outputs : Take(o) \/ Reverse(o)

Spec == Init /\ [][Next]_vars
=============================================================================
