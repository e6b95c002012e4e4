-------------------------------- MODULE Books -------------------------------
(***************************************************************************)
(* The tables the custody components share: the ledger and the outbox.     *)
(* A transaction that changes them is one step (see LedgerTx), so the      *)
(* event is staged in the very step that makes the change it tells of.     *)
(***************************************************************************)
EXTENDS Accounts

VARIABLE outbox  \* per withdrawal or deposit, the events staged about it, in order

EventTypes == {"DepositConfirmed", "WithdrawalBroadcasted",
               "WithdrawalConfirmed", "WithdrawalFailed"}

\* OutboxWriter::stage
Stage(ref, event) == outbox' = [outbox EXCEPT ![ref] = Append(@, event)]
=============================================================================
