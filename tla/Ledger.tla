------------------------------- MODULE Ledger -------------------------------
(***************************************************************************)
(* The append-only ledger of crates/db/src/ledger.rs, as pure operators on *)
(* a ledger value.  There is no balance column in the database: a balance  *)
(* is the SUM of the rows of a wallet, and rows are only ever inserted.    *)
(* balance[w] below is that running sum; keys holds the part of the rows   *)
(* the unique indexes uq_ledger_reference_type_dedup (on reference_id) and *)
(* uq_ledger_reference_key_dedup (on reference_key) see; hold is the set   *)
(* of the wallets whose reorg_hold_at is not null.                         *)
(*                                                                         *)
(* LedgerTx shows that transactions of many connections, taken statement   *)
(* by statement, amount to these operators applied one transaction at a    *)
(* time; the other components use them that way.                           *)
(***************************************************************************)
EXTENDS Integers, SequencesExt

CONSTANTS Wallets,  \* rows of the table wallets
          Types,    \* the ledger_type values in use
          Refs,     \* reference_id or reference_key values: withdrawals, deposits...
          NoRef     \* both are null

ASSUME RefAssumption == NoRef \notin Refs

\* LedgerCreditInput: reference_type and memo are left out (the type of an
\* entry determines its reference_type).
Entries == [wallet : Wallets, amount : Int, type : Types, ref : Refs \cup {NoRef}]

Keys == Wallets \X Types \X Refs

Ledgers == [balance : [Wallets -> Int], hold : SUBSET Wallets, keys : SUBSET Keys]

Entry(w, a, ty, r) == [wallet |-> w, amount |-> a, type |-> ty, ref |-> r]

\* The indexes are partial: a row without a reference is in neither.
KeysOf(e) == IF e.ref = NoRef THEN {} ELSE {<<e.wallet, e.type, e.ref>>}

\* Slip: the hold is checked for debits only.
HoldPermitsCredits(l, e) == e.wallet \in l.hold /\ e.amount < 0 => e.type = "DEPOSIT_REVERSAL"

\* A wallet under reorg_hold_at takes no entry but the compensating reversal.
HoldPermits(l, e) == e.wallet \in l.hold => e.type = "DEPOSIT_REVERSAL"

\* A debit may not take the SUM of the rows below zero.
Covers(l, e) == e.amount < 0 => l.balance[e.wallet] + e.amount >= 0

\* The INSERT does not violate the unique index.
Fresh(l, e) == KeysOf(e) \cap l.keys = {}

Admits(l, e) == HoldPermits(l, e) /\ Covers(l, e) /\ Fresh(l, e)

Posted(l, e) == [balance |-> [l.balance EXCEPT ![e.wallet] = @ + e.amount],
                 hold    |-> l.hold,
                 keys    |-> l.keys \cup KeysOf(e)]

\* Several entries of one transaction: all of them, or an error.
PostStep(acc, e) ==
    IF acc.ok /\ Admits(acc.ledger, e)
    THEN [ok |-> TRUE, ledger |-> Posted(acc.ledger, e)]
    ELSE [acc EXCEPT !.ok = FALSE]

PostAll(l, es) == FoldLeft(PostStep, [ok |-> TRUE, ledger |-> l], es)
=============================================================================
