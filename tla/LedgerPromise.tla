--------------------------- MODULE LedgerPromise ---------------------------
(***************************************************************************)
(* What the ledger promises its callers: a transaction posts all of its    *)
(* entries or none, against the ledger every earlier transaction left, and *)
(* the orphaning of a deposit whose value is spent puts the wallet on hold *)
(* instead of overdrawing it.  LedgerTx implements it.                     *)
(***************************************************************************)
EXTENDS Ledger

CONSTANTS Programs,      \* the ledger effects of the operations that run
          InitialBalance \* [Wallets -> Nat]

VARIABLE led

Init == led = [balance |-> InitialBalance, hold |-> {}, keys |-> {}]

PostProgram(p) ==
    LET result == PostAll(led, p.entries)
    IN result.ok /\ led' = result.ledger

HoldInstead(p) ==
    /\ p.orphans
    /\ ~ Covers(led, p.entries[1])
    /\ led' = [led EXCEPT !.hold = @ \cup {p.entries[1].wallet}]

Next == \E p \in Programs : PostProgram(p) \/ HoldInstead(p)

Spec == Init /\ [][Next]_led
=============================================================================
