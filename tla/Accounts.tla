------------------------------ MODULE Accounts ------------------------------
(***************************************************************************)
(* The ledger of the platform as the state the components share.  A        *)
(* transaction of crates/db is one step on it (see LedgerTx).              *)
(***************************************************************************)
EXTENDS Ledger

VARIABLE led  \* ledger_entries and wallets.reorg_hold_at

\* apply_ledger_entry in a transaction of its own.
Post(e) == Admits(led, e) /\ led' = Posted(led, e)

\* Several entries in one transaction.
PostEach(es) == PostAll(led, es).ok /\ led' = PostAll(led, es).ledger

AdmitsEach(es) == PostAll(led, es).ok

Recorded(w, type, ref) == <<w, type, ref>> \in led.keys
=============================================================================
