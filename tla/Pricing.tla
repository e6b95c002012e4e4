--------------------------------- MODULE Pricing ---------------------------------
(***************************************************************************)
(* Prices: the oracle that asks the providers one after the other and      *)
(* takes the median for each coin (crates/pricing), the cache its refresh  *)
(* overwrites in one transaction, and those who read a table of prices row *)
(* by row and refuse it when a coin is missing or stale                    *)
(* (crates/db/src/pricing.rs).                                             *)
(*                                                                         *)
(* The market is external, and so is whether a provider answers, for which *)
(* coins, and with its price or another.                                   *)
(***************************************************************************)
EXTENDS Naturals, Sequences, SequencesExt, FiniteSets

CONSTANTS
    Providers,  \* a sequence: the order they are asked in
    Serves,     \* provider -> the coins it lists
    Coins,      \* a sequence: the order tables are read in
    Markets,    \* coin -> the prices it may have, even numbers
    Par,        \* the price of USDT where nothing is asked for it
    Liars,      \* providers that may give any price of Markets
    Refreshers, \* worker processes
    FetchTicks, \* what the timeouts of one refresh allow
    MaxStale, MaxTime

VARIABLES
    hist,    \* the market at each tick, the last one now
    refresh, \* process -> [pc, next, got, lies, since, at]
    cache,   \* coin -> row [price, at, sound], at = 0 for no row;
             \* sound if most of the providers gave the market's price
    table    \* a table being read: [pc, next, began, rows]

vars == <<hist, refresh, cache, table>>

Now == Len(hist)
Market == hist[Now]
CoinSet == ToSet(Coins)
NoRow == [price |-> 0, at |-> 0, sound |-> FALSE]
Resting == [pc |-> "idle", next |-> 1, got |-> [c \in CoinSet |-> <<>>], lies |-> [c \in CoinSet |-> 0],
            since |-> 0, at |-> 0]

Init ==
    /\ hist \in {<<m>> : m \in {f \in [CoinSet -> UNION {Markets[c] : c \in CoinSet}] :
                                    \A c \in CoinSet : f[c] \in Markets[c]}}
    /\ refresh = [w \in Refreshers |-> Resting]
    /\ cache = [c \in CoinSet |-> NoRow]
    /\ table = [pc |-> "idle", next |-> 1, began |-> 0, rows |-> <<>>]

\* Bound: one table is read, at any time, and nothing after it.
Open == table.pc \in {"idle", "read"}

\* A request is given up when its timeout has passed.
Tick ==
    /\ Now < MaxTime /\ Open
    /\ \A w \in Refreshers : refresh[w].pc = "ask" => Now - refresh[w].since < FetchTicks
    /\ \E c \in CoinSet, p \in UNION {Markets[d] : d \in CoinSet} :
           /\ p \in Markets[c]
           /\ hist' = Append(hist, [Market EXCEPT ![c] = p])
    /\ UNCHANGED <<refresh, cache, table>>

(***************************************************************************)
(* refresh_all                                                             *)
(***************************************************************************)
\* The worker sleeps between refreshes: one begins at most once a tick.
BeginRefresh(w) ==
    /\ refresh[w].pc = "idle" /\ refresh[w].since < Now /\ Open
    /\ refresh' = [refresh EXCEPT ![w] = [Resting EXCEPT !.pc = "ask", !.since = Now]]
    /\ UNCHANGED <<hist, cache, table>>

\* Binance and OKX are not asked for USDT: it is at par.
AtPar(p) == IF p \in {"Binance", "OKX"} THEN CoinSet \cap {"USDT"} ELSE {}

\* fetch_prices: some of the coins a provider lists, none when it fails.
Answers(p) ==
    UNION {{a \in [S \cup AtPar(p) -> UNION {Markets[c] : c \in CoinSet} \cup {Par}] :
               \A c \in DOMAIN a : IF c \in AtPar(p) THEN a[c] = Par
                                   ELSE a[c] = Market[c] \/ (p \in Liars /\ a[c] \in Markets[c])}
              : S \in SUBSET (Serves[p] \cap CoinSet)}

\* fetch_usd_prices: one provider after the other; one that fails is passed over.
\* The rows are stamped when the last has answered, then written.
Ask(w) ==
    LET r == refresh[w]
        last == r.next = Len(Providers)
    IN /\ r.pc = "ask" /\ Open
       /\ \E a \in Answers(Providers[r.next]) :
              LET told(c) == c \in DOMAIN a
              IN refresh' = [refresh EXCEPT ![w] =
                    [r EXCEPT !.next = IF last THEN 1 ELSE @ + 1,
                              !.pc = IF last THEN "write" ELSE "ask",
                              !.at = IF last THEN Now ELSE 0,
                              !.got = [c \in CoinSet |->
                                         IF told(c) THEN SortSeq(Append(r.got[c], a[c]), <) ELSE r.got[c]],
                              !.lies = [c \in CoinSet |->
                                          r.lies[c] + IF told(c) /\ a[c] # Market[c] THEN 1 ELSE 0]]]
       /\ UNCHANGED <<hist, cache, table>>

\* Slip: the average.
Average(s) == FoldLeft(LAMBDA a, b : a + b, 0, s) \div Len(s)

\* median_f64 of sorted prices
Median(s) ==
    LET n == Len(s)
    IN IF n % 2 = 1 THEN s[(n + 1) \div 2] ELSE (s[n \div 2] + s[n \div 2 + 1]) \div 2

\* A coin nobody gave a price of keeps its row.
Commit(w) ==
    LET r == refresh[w]
    IN /\ r.pc = "write" /\ Open
       /\ cache' = [c \in CoinSet |->
                      IF r.got[c] = <<>> THEN cache[c]
                      ELSE [price |-> Median(r.got[c]), at |-> r.at, sound |-> 2 * r.lies[c] < Len(r.got[c])]]
       /\ refresh' = [refresh EXCEPT ![w] = [Resting EXCEPT !.since = r.since]]
       /\ UNCHANGED <<hist, table>>

RefreshFails(w) ==
    /\ refresh[w].pc = "write" /\ Open
    /\ refresh' = [refresh EXCEPT ![w] = [Resting EXCEPT !.since = refresh[w].since]]
    /\ UNCHANGED <<hist, cache, table>>

(***************************************************************************)
(* load_price_table                                                        *)
(***************************************************************************)
BeginTable ==
    /\ table.pc = "idle"
    /\ table' = [pc |-> "read", next |-> 1, began |-> Now, rows |-> <<>>]
    /\ UNCHANGED <<hist, refresh, cache>>

\* Slip: what is there is used.
AnyAge(row) == row.at > 0

Usable(row) == row.at > 0 /\ Now - row.at <= MaxStale

\* get_price, each a statement of its own.
GetPrice ==
    LET row == cache[Coins[table.next]]
    IN /\ table.pc = "read"
       /\ table' = IF ~ Usable(row) THEN [table EXCEPT !.pc = "refused", !.rows = <<>>]
                   ELSE [table EXCEPT !.rows = Append(@, row), !.next = @ + 1,
                                      !.pc = IF table.next = Len(Coins) THEN "used" ELSE "read"]
       /\ UNCHANGED <<hist, refresh, cache>>

Next ==
    \/ Tick
    \/ \E w \in Refreshers : BeginRefresh(w) \/ Ask(w) \/ Commit(w) \/ RefreshFails(w)
    \/ BeginTable \/ GetPrice

Spec == Init /\ [][Next]_vars

(***************************************************************************)
(* Properties                                                              *)
(***************************************************************************)
PricingTypeOK ==
    /\ Now \in 1 .. MaxTime
    /\ \A w \in Refreshers : refresh[w].pc \in {"idle", "ask", "write"} /\ refresh[w].next \in 1 .. Len(Providers)
    /\ \A c \in CoinSet : cache[c].at <= Now
    /\ table.pc \in {"idle", "read", "used", "refused"} /\ Len(table.rows) <= Len(Coins)

Window(from) == (IF from < 1 THEN 1 ELSE from) .. Now

\* A price in use is one the market had not long ago: it lies between what the
\* coin was worth at some tick and at another, of the time a table takes to read,
\* the age a row may have, and the time a refresh may ask around.  This is so if
\* most of the providers that gave a price of the coin gave the market's.
UsedIsRecent ==
    table.pc = "used" =>
        \A i \in DOMAIN Coins :
            LET row == table.rows[i]
                worth == {hist[t][Coins[i]] : t \in Window(table.began - MaxStale - FetchTicks)}
            IN row.sound =>
                   /\ \E v \in worth : v <= row.price
                   /\ \E v \in worth : row.price <= v

\* A table in use has a row of every coin.
TableWhole == table.pc = "used" => Len(table.rows) = Len(Coins)

\* What those who value coins in dollars rely on.
PricingInv == PricingTypeOK /\ UsedIsRecent /\ TableWhole
=============================================================================
