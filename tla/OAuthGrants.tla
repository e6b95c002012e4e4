---------------------------- MODULE OAuthGrants ----------------------------
(***************************************************************************)
(* What one user grants to one application (db/oauth.rs): a consent, the   *)
(* authorization codes it is worth, the access tokens exchanged for them.  *)
(* No operation is a transaction, so every statement is a step.  The       *)
(* secret, the redirect and PKCE are checked on rows that do not change,   *)
(* and are taken as right.                                                 *)
(***************************************************************************)
EXTENDS Integers, FiniteSets

CONSTANTS Grants,          \* authorization codes
          Bearers,         \* access tokens
          OAuthRequests    \* requests in progress at one time

VARIABLES app,         \* "active", or "deleted" with all its rows
          consent,     \* the row of oauth_user_consents
          grant,       \* rows of oauth_authorization_codes
          bearer,      \* rows of oauth_access_tokens
          oreq,        \* a request, between two of its statements
          raced,       \* codes that two exchanges have read unused
          leftOver     \* a code could still be exchanged when the consent was revoked

oauthVars == <<app, consent, grant, bearer, oreq, raced, leftOver>>

NoGrant == "none"

ASSUME OAuthAssumption == NoGrant \notin Grants

NotBusy == [at |-> "idle", code |-> NoGrant]

Stage(s) == {r \in OAuthRequests : oreq[r].at = s}
Exchanging == Stage("app") \cup Stage("mark") \cup Stage("mint")
At(r, s, c) == oreq' = [oreq EXCEPT ![r] = [at |-> s, code |-> c]]
Done(r) == oreq' = [oreq EXCEPT ![r] = NotBusy]

OAuthInit ==
    /\ app = "active"
    /\ consent = FALSE
    /\ grant = [c \in Grants |-> "none"]
    /\ bearer = [t \in Bearers |-> [st |-> "none", code |-> NoGrant]]
    /\ oreq = [r \in OAuthRequests |-> NotBusy]
    /\ raced = {}
    /\ leftOver = FALSE

-----------------------------------------------------------------------------
\* The user approves: a code, then the consent.
AuthorizeSubmit(r) ==
    /\ oreq[r] = NotBusy /\ app = "active"
    /\ \E c \in Grants :
          /\ grant[c] = "none"
          /\ grant' = [grant EXCEPT ![c] = "fresh"]
          /\ At(r, "consent", c)
    /\ UNCHANGED <<app, consent, bearer, raced, leftOver>>

\* Foreign keys: nothing is stored for an application that is gone.
RecordConsent(r) ==
    /\ oreq[r].at = "consent"
    /\ consent' = (app = "active")
    /\ Done(r)
    /\ UNCHANGED <<app, grant, bearer, raced, leftOver>>

-----------------------------------------------------------------------------
\* exchange_authorization_code: the application ...
FetchApp(r, c) ==
    /\ oreq[r] = NotBusy /\ app = "active" /\ grant[c] # "none" /\ c \notin {oreq[q].code : q \in Stage("consent")}
    /\ At(r, "app", c)
    /\ UNCHANGED <<app, consent, grant, bearer, raced, leftOver>>

\* ... the code, if it is there, unused and not expired ...
ReadCode(r) ==
    /\ oreq[r].at = "app"
    /\ LET c == oreq[r].code IN
          IF grant[c] = "fresh"
          THEN /\ At(r, "mark", c)
               /\ raced' = IF \E q \in Stage("mark") : oreq[q].code = c THEN raced \cup {c} ELSE raced
          ELSE Done(r) /\ UNCHANGED raced
    /\ UNCHANGED <<app, consent, grant, bearer, leftOver>>

\* Slip: used_at is never set.
StaysUnused(c) == grant

\* ... which is marked as used, whatever it is now ...
UsedNow(c) == [grant EXCEPT ![c] = IF @ = "deleted" THEN @ ELSE "used"]

MarkCodeUsed(r) ==
    /\ oreq[r].at = "mark"
    /\ grant' = UsedNow(oreq[r].code)
    /\ At(r, "mint", oreq[r].code)
    /\ UNCHANGED <<app, consent, bearer, raced, leftOver>>

\* ... and a token.
MintToken(r) ==
    /\ oreq[r].at = "mint"
    /\ IF app = "active"
       THEN \E t \in Bearers : /\ bearer[t].st = "none"
                               /\ bearer' = [bearer EXCEPT ![t] = [st |-> "good", code |-> oreq[r].code]]
       ELSE UNCHANGED bearer
    /\ Done(r)
    /\ UNCHANGED <<app, consent, grant, raced, leftOver>>

-----------------------------------------------------------------------------
\* revoke_user_consent: the consent, then the tokens there are.
RevokeConsent(r) ==
    /\ oreq[r] = NotBusy
    /\ consent' = FALSE
    /\ At(r, "tokens", NoGrant)
    /\ leftOver' = (leftOver \/ Exchanging # {} \/ \E c \in Grants : grant[c] = "fresh")
    /\ UNCHANGED <<app, grant, bearer, raced>>

\* Slip: only the consent is deleted.
TokensKept == bearer

TokensRevoked == [t \in Bearers |-> IF bearer[t].st = "good" THEN [bearer[t] EXCEPT !.st = "revoked"] ELSE bearer[t]]

RevokeTokens(r) ==
    /\ oreq[r].at = "tokens"
    /\ bearer' = TokensRevoked
    /\ Done(r)
    /\ UNCHANGED <<app, consent, grant, raced, leftOver>>

\* ON DELETE CASCADE.
DeleteApplication ==
    /\ app = "active"
    /\ app' = "deleted"
    /\ consent' = FALSE
    /\ grant' = [c \in Grants |-> IF grant[c] = "none" THEN "none" ELSE "deleted"]
    /\ bearer' = [t \in Bearers |-> IF bearer[t].st = "none" THEN bearer[t] ELSE [bearer[t] EXCEPT !.st = "deleted"]]
    /\ UNCHANGED <<oreq, raced, leftOver>>

\* Ten minutes for a code, thirty days for a token.
LapseGrant(c) ==
    /\ grant[c] = "fresh"
    /\ grant' = [grant EXCEPT ![c] = "lapsed"]
    /\ UNCHANGED <<app, consent, bearer, oreq, raced, leftOver>>

LapseToken(t) ==
    /\ bearer[t].st = "good"
    /\ bearer' = [bearer EXCEPT ![t].st = "lapsed"]
    /\ UNCHANGED <<app, consent, grant, oreq, raced, leftOver>>

OAuthNext ==
    \/ \E r \in OAuthRequests :
          \/ AuthorizeSubmit(r) \/ RecordConsent(r)
          \/ \E c \in Grants : FetchApp(r, c)
          \/ ReadCode(r) \/ MarkCodeUsed(r) \/ MintToken(r)
          \/ RevokeConsent(r) \/ RevokeTokens(r)
    \/ DeleteApplication
    \/ \E c \in Grants : LapseGrant(c)
    \/ \E t \in Bearers : LapseToken(t)

OAuthSpec == OAuthInit /\ [][OAuthNext]_oauthVars

-----------------------------------------------------------------------------
OAuthTypeOK ==
    /\ app \in {"active", "deleted"}
    /\ consent \in BOOLEAN
    /\ grant \in [Grants -> {"none", "fresh", "used", "lapsed", "deleted"}]
    /\ bearer \in [Bearers -> [st : {"none", "good", "revoked", "lapsed", "deleted"}, code : Grants \cup {NoGrant}]]
    /\ oreq \in [OAuthRequests -> [at : {"idle", "consent", "app", "mark", "mint", "tokens"},
                                   code : Grants \cup {NoGrant}]]
    /\ raced \subseteq Grants
    /\ leftOver \in BOOLEAN

Minted(c) == {t \in Bearers : bearer[t].code = c}

\* "O codigo e de uso unico" (http-api-reference.md:821) holds of exchanges
\* one after the other, however they interleave with a revocation.  Two that
\* read the code unused both mint: used_at is set without looking again.
ExchangedOnceUnlessRaced ==
    \A c \in Grants : c \in raced \/ \A t, u \in Minted(c) : t = u

\* "Revoga o consentimento e invalida os tokens daquele app"
\* (http-api-reference.md:847): no token is good without a consent, while no
\* request is between its statements - unless a code outlived the
\* revocation, which nothing invalidates.
GoodTokensHaveConsent ==
    \/ leftOver \/ consent
    \/ Stage("tokens") \cup Stage("consent") # {}
    \/ \A t \in Bearers : bearer[t].st # "good"

OAuthInv == OAuthTypeOK /\ ExchangedOnceUnlessRaced /\ GoodTokensHaveConsent

=============================================================================
