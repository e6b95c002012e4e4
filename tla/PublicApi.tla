----------------------------- MODULE PublicApi -----------------------------
(***************************************************************************)
(* Sends through the public API (db/public_api.rs): the replay protection  *)
(* of signed requests, and transfers that are idempotent and counted by    *)
(* day.  A signed request may reach the server more than once, and a       *)
(* client may sign a new one for the same idempotency key.                 *)
(*                                                                         *)
(* Verification is one step: it takes no time on the clock of the window.  *)
(* The transaction of a send is two: the wallet is picked before it is     *)
(* locked.  Amounts are above zero, which the handler leaves to clients.   *)
(***************************************************************************)
EXTENDS Accounts, FiniteSets

CONSTANTS Signed,         \* signed requests
          IdemKeys,       \* idempotency keys of the API key, references of the ledger
          IdemOf, SendOf, RecipientOf,  \* of a request: its key, amount and recipient's wallet
          MerchantPot, DeveloperPot,    \* the wallets of the owner
          PotBalance,     \* of the wallets, at first
          Handlers,       \* requests in progress at one time
          Skew,           \* public_api_signature_max_skew
          Ahead,          \* how far a client's clock may be ahead of the server's
          DayLength,
          MaxNow,         \* the bound on the time
          SendLimit,      \* public_api_daily_send_limit
          KeyExpires,     \* expires_at of the key
          RequireSignature  \* the key refuses requests that only carry it

\* A client repeats a send as it was; the recipient is somebody else (SendToSelf),
\* and gets it in a PERSONAL wallet.  That repeated sends have the recipient's
\* wallet in common is what makes them wait for each other.
ASSUME ApiAssumption ==
    /\ IdemKeys \subseteq Refs /\ IdemOf \in [Signed -> IdemKeys]
    /\ SendOf \in [Signed -> Nat \ {0}]
    /\ RecipientOf \in [Signed -> Wallets \ {MerchantPot, DeveloperPot}]
    /\ \A r, s \in Signed : IdemOf[r] = IdemOf[s] => RecipientOf[r] = RecipientOf[s]
    /\ {MerchantPot, DeveloperPot} \subseteq Wallets
    /\ {"TRANSFER_OUT", "TRANSFER_IN"} \subseteq Types
    /\ PotBalance \in [Wallets -> Int]
    /\ Skew \in Nat /\ Ahead \in Nat /\ DayLength \in Nat \ {0} /\ MaxNow \in Nat /\ SendLimit \in Nat

VARIABLES now,       \* the server's clock
          keyOn,     \* the key is not disabled
          stamp,     \* of a request: its timestamp, once it is signed
          nonces,    \* public_api_signature_nonces: a request and when it was seen
          call,      \* a handler, between two steps
          verified,  \* of a request: when its signature was accepted
          quota,     \* api_daily_send_quotas, by day
          sent,      \* transfers committed: a key and the day
          misjudged  \* sends refused for want of funds though a wallet could pay

apiVars == <<led, now, keyOn, stamp, nonces, call, verified, quota, sent, misjudged>>

NotSigned == -1000
Waiting == [at |-> "idle"]
Pots == {MerchantPot, DeveloperPot}
Day(t) == t \div DayLength

ApiInit ==
    /\ led = [balance |-> PotBalance, hold |-> {}, keys |-> {}]
    /\ now = 0
    /\ keyOn = TRUE
    /\ stamp = [s \in Signed |-> NotSigned]
    /\ nonces = {}
    /\ call = [h \in Handlers |-> Waiting]
    /\ verified = [s \in Signed |-> <<>>]
    /\ quota = [d \in 0..Day(MaxNow) |-> 0]
    /\ sent = {}
    /\ misjudged = {}

-----------------------------------------------------------------------------
\* A client signs, with a clock of its own.
Sign(s) ==
    /\ stamp[s] = NotSigned
    /\ \E t \in now..(now + Ahead) : stamp' = [stamp EXCEPT ![s] = t]
    /\ UNCHANGED <<led, now, keyOn, nonces, call, verified, quota, sent, misjudged>>

Abs(n) == IF n < 0 THEN -n ELSE n

InWindow(s) == stamp[s] # NotSigned /\ Abs(now - stamp[s]) <= Skew

\* Slip: a nonce is forgotten at the end of its window, not after it.
ForgottenEarly(n) == n.seen <= now - Skew

Forgotten(n) == n.seen < now - Skew

Kept == {n \in nonces : ~ Forgotten(n)}

\* check_usable.
Usable == keyOn /\ now < KeyExpires

\* authenticate_by_hash: the key itself is sent, and nothing is remembered.
AuthenticateByHash(h, s) ==
    /\ call[h] = Waiting
    /\ Usable /\ ~ RequireSignature
    /\ call' = [call EXCEPT ![h] = [at |-> "pick", sig |-> s]]
    /\ UNCHANGED <<led, now, keyOn, stamp, nonces, verified, quota, sent, misjudged>>

\* verify_signed_request: window, usable key, signature; old nonces of the
\* key are deleted, and the one of this request is new.
VerifySignedRequest(h, s) ==
    /\ call[h] = Waiting
    /\ InWindow(s) /\ Usable
    /\ IF \E n \in Kept : n.sig = s
       THEN nonces' = Kept /\ UNCHANGED <<call, verified>>
       ELSE /\ nonces' = Kept \cup {[sig |-> s, seen |-> now]}
            /\ verified' = [verified EXCEPT ![s] = Append(@, now)]
            /\ call' = [call EXCEPT ![h] = [at |-> "pick", sig |-> s]]
    /\ UNCHANGED <<led, now, keyOn, stamp, quota, sent, misjudged>>

-----------------------------------------------------------------------------
\* send_to_user: the wallet that covers the amount, MERCHANT first.
CoveredBy(w, a) == led.balance[w] >= a

\* Slip: MERCHANT, whatever it holds.
MerchantAlways(a) == MerchantPot

PickWallet(a) ==
    IF CoveredBy(MerchantPot, a) THEN MerchantPot
    ELSE IF CoveredBy(DeveloperPot, a) THEN DeveloperPot ELSE MerchantPot

PickFrom(h) ==
    /\ call[h].at = "pick"
    /\ LET s == call[h].sig IN
          call' = [call EXCEPT ![h] = [at |-> "send", sig |-> s, from |-> PickWallet(SendOf[s]),
                                       saw |-> [w \in Pots |-> led.balance[w]]]]
    /\ UNCHANGED <<led, now, keyOn, stamp, nonces, verified, quota, sent, misjudged>>

Transferred(k) == \E e \in led.keys : e[3] = k

\* Slip: the day's count is not looked at.
NoLimit == TRUE

WithinQuota == quota[Day(now)] < SendLimit

Transfer(from, s) == <<Entry(from, -SendOf[s], "TRANSFER_OUT", IdemOf[s]),
                       Entry(RecipientOf[s], SendOf[s], "TRANSFER_IN", IdemOf[s])>>

\* Under the locks of both wallets: a transfer that was made is not repeated
\* and takes nothing of the quota; a failure takes the reservation back.
SendToUser(h) ==
    /\ call[h].at = "send"
    /\ LET s == call[h].sig
           es == Transfer(call[h].from, s)
       IN \/ /\ Transferred(IdemOf[s])
             /\ UNCHANGED <<led, quota, sent, misjudged>>
          \/ /\ ~ Transferred(IdemOf[s]) /\ WithinQuota /\ AdmitsEach(es)
             /\ PostEach(es)
             /\ quota' = [quota EXCEPT ![Day(now)] = @ + 1]
             /\ sent' = sent \cup {[key |-> IdemOf[s], day |-> Day(now)]}
             /\ UNCHANGED misjudged
          \/ /\ ~ Transferred(IdemOf[s]) /\ ~ (WithinQuota /\ AdmitsEach(es))
             /\ misjudged' = IF /\ WithinQuota
                                /\ \E w \in Pots : CoveredBy(w, SendOf[s])
                                /\ \A w \in Pots : led.balance[w] >= call[h].saw[w]
                             THEN misjudged \cup {s} ELSE misjudged
             /\ UNCHANGED <<led, quota, sent>>
    /\ call' = [call EXCEPT ![h] = Waiting]
    /\ UNCHANGED <<now, keyOn, stamp, nonces, verified>>

\* The handler stops: its transaction rolls back.
HandlerStops(h) ==
    /\ call[h] # Waiting
    /\ call' = [call EXCEPT ![h] = Waiting]
    /\ UNCHANGED <<led, now, keyOn, stamp, nonces, verified, quota, sent, misjudged>>

DisableApiKey ==
    /\ keyOn
    /\ keyOn' = FALSE
    /\ UNCHANGED <<led, now, stamp, nonces, call, verified, quota, sent, misjudged>>

Tick ==
    /\ now < MaxNow
    /\ now' = now + 1
    /\ UNCHANGED <<led, keyOn, stamp, nonces, call, verified, quota, sent, misjudged>>

ApiNext ==
    \/ \E s \in Signed : Sign(s)
    \/ \E h \in Handlers :
          \/ \E s \in Signed : VerifySignedRequest(h, s) \/ AuthenticateByHash(h, s)
          \/ PickFrom(h) \/ SendToUser(h) \/ HandlerStops(h)
    \/ DisableApiKey
    \/ Tick

ApiSpec == ApiInit /\ [][ApiNext]_apiVars

-----------------------------------------------------------------------------
Picking == [at : {"pick"}, sig : Signed]
Sending == [at : {"send"}, sig : Signed, from : Pots, saw : [Pots -> Int]]

ApiTypeOK ==
    /\ led \in Ledgers
    /\ now \in 0..MaxNow /\ keyOn \in BOOLEAN
    /\ stamp \in [Signed -> Int] /\ verified \in [Signed -> Seq(0..MaxNow)]
    /\ \A n \in nonces : n \in [sig : Signed, seen : 0..MaxNow]
    /\ call \in [Handlers -> {Waiting} \cup Picking \cup Sending]
    /\ quota \in [0..Day(MaxNow) -> Nat]
    /\ sent \subseteq [key : IdemKeys, day : 0..Day(MaxNow)]
    /\ misjudged \subseteq Signed

\* "Reenviar a mesma requisicao assinada dentro da janela responde
\* SIGNATURE_REPLAY" (public-api-hmac.md:94-96), though nonces are deleted:
\* a nonce lives as long as its request is in the window, unless its stamp
\* was ahead of the server's clock when it came first.
NeverReplayed ==
    \A s \in Signed : Len(verified[s]) > 1 => stamp[s] > verified[s][1]

\* One key is one transfer, whichever requests carry it and whichever wallet
\* each of them picks; the quota of a day counts the transfers of the day
\* and nothing else, and is never passed.
KeysPaidOnce ==
    /\ \A t, u \in sent : t.key = u.key => t = u
    /\ \A k \in IdemKeys : Transferred(k) <=> \E t \in sent : t.key = k
    /\ \A d \in DOMAIN quota : /\ quota[d] = Cardinality({t \in sent : t.day = d})
                               /\ quota[d] <= SendLimit

\* "Spend the wallet that can cover `amount`" (public_api.rs:361): a send is
\* refused for want of funds while one of the wallets could pay only if a
\* wallet has lost money since they were read.
FundsAreFound == misjudged = {}

ApiInv == ApiTypeOK /\ NeverReplayed /\ KeysPaidOnce /\ FundsAreFound

=============================================================================
