------------------------------ MODULE Sessions ------------------------------
(***************************************************************************)
(* The sessions of one account (domain/auth/service.rs over db/auth.rs):   *)
(* a session is a chain of refresh tokens, each exchanged for the next.    *)
(* Every statement of a request is a step of its own, so the tabs and      *)
(* devices of one user interleave, and a request may stop in the middle.   *)
(*                                                                         *)
(* Of a token the model keeps what the claim and the reuse check read.     *)
(* The role and the profile of the account are left out: no property of    *)
(* the sessions depends on them, and each request reads them again.        *)
(***************************************************************************)
EXTENDS Integers

CONSTANTS MaxTokens,          \* the bound on the refresh tokens of the account
          Requests,           \* requests in progress at one time
          Grace               \* refresh_reuse_grace_secs is above zero

VARIABLES account,    \* "none", "open" or "erased"
          tok,        \* rows of refresh_tokens
          req,        \* a request, between two of its statements
          ended,      \* the sessions that signing out the others has ended
          slipped     \* those of them that were about to store a token just then

sessionVars == <<account, tok, req, ended, slipped>>

Tokens == 1..MaxTokens
NoToken == 0

\* "stale" is revoked for longer than the grace, or revoked and expired.
TokenStates == {"free", "live", "lapsed", "revoked", "stale", "deleted"}

Idle == [at |-> "idle", parent |-> NoToken, how |-> "none"]

With(s) == {t \in Tokens : tok[t].st = s}
Issued == Tokens \ With("free")
SessionsEver == {tok[t].session : t \in Issued}

SessionsInit ==
    /\ account = "none"
    /\ tok = [t \in Tokens |-> [st |-> "free", session |-> NoToken, parent |-> NoToken, how |-> "none"]]
    /\ req = [r \in Requests |-> Idle]
    /\ ended = {}
    /\ slipped = {}

Goes(r, at, parent, how) == req' = [req EXCEPT ![r] = [at |-> at, parent |-> parent, how |-> how]]
Ends(r) == req' = [req EXCEPT ![r] = Idle]
Become(T, s) == tok' = [t \in Tokens |-> IF t \in T THEN [tok[t] EXCEPT !.st = s] ELSE tok[t]]

\* revoked_at = now, where it is null: an expired row has no grace.
Revoked == [t \in Tokens |-> CASE tok[t].st = "live" -> [tok[t] EXCEPT !.st = "revoked"]
                               [] tok[t].st = "lapsed" -> [tok[t] EXCEPT !.st = "stale"]
                               [] OTHER -> tok[t]]

-----------------------------------------------------------------------------
(***************************************************************************)
(* Sign-up and sign-in end in the same statement as a refresh.             *)
(***************************************************************************)
CreateUser == account = "none" /\ account' = "open"

\* The password and the code are right: an erased account has no password.
SignedIn == account = "open" /\ UNCHANGED account

Register(r) ==
    /\ req[r] = Idle /\ CreateUser
    /\ Goes(r, "issue", NoToken, "signin")
    /\ UNCHANGED <<tok, ended, slipped>>

Login(r) ==
    /\ req[r] = Idle /\ SignedIn
    /\ Goes(r, "issue", NoToken, "signin")
    /\ UNCHANGED <<tok, ended, slipped>>

\* create_refresh_token.
IssueTokens(r) ==
    /\ req[r].at = "issue"
    /\ \E t \in With("free") :
          /\ \A u \in With("free") : t <= u
          /\ tok' = [tok EXCEPT ![t] =
                       [st |-> "live", parent |-> req[r].parent, how |-> req[r].how,
                        session |-> IF req[r].parent = NoToken THEN t ELSE tok[req[r].parent].session]]
    /\ Ends(r)
    /\ UNCHANGED <<account, ended, slipped>>

-----------------------------------------------------------------------------
(***************************************************************************)
(* refresh                                                                 *)
(***************************************************************************)

\* Slip: the claim forgets revoked_at IS NULL.
ClaimableAnyway(t) == tok[t].st \in {"live", "revoked"}

Claimable(t) == tok[t].st = "live"

ClaimRefreshToken(r, t) ==
    /\ req[r] = Idle /\ t \in Issued
    /\ IF Claimable(t) THEN /\ Become({t}, "revoked")
                            /\ Goes(r, "claimed", t, "claim")
                       ELSE /\ UNCHANGED tok
                            /\ Goes(r, "missed", t, "grace")
    /\ UNCHANGED <<account, ended, slipped>>

\* find_refresh_token_with_user, after the claim.
ReadClaimed(r) ==
    /\ req[r].at = "claimed"
    /\ IF tok[req[r].parent].st = "deleted" THEN Ends(r) ELSE Goes(r, "issue", req[r].parent, "claim")
    /\ UNCHANGED <<account, tok, ended, slipped>>

\* find_refresh_token: a row that was never revoked has only expired.
ReadMissed(r) ==
    /\ req[r].at = "missed"
    /\ LET s == tok[req[r].parent].st IN
          \/ s \in {"lapsed", "deleted"} /\ Ends(r)
          \/ s = "revoked" /\ Grace /\ Goes(r, "excused", req[r].parent, "grace")
          \/ s = "stale" /\ Goes(r, "reused", req[r].parent, "none")
          \/ s = "revoked" /\ ~ Grace /\ Goes(r, "reused", req[r].parent, "none")
    /\ UNCHANGED <<account, tok, ended, slipped>>

\* find_refresh_token_with_user, within the grace: a row that has gone falls
\* through to the alarm.
ReadExcused(r) ==
    /\ req[r].at = "excused"
    /\ IF tok[req[r].parent].st = "deleted"
       THEN Goes(r, "reused", req[r].parent, "none")
       ELSE Goes(r, "issue", req[r].parent, "grace")
    /\ UNCHANGED <<account, tok, ended, slipped>>

\* revoke_all_user_refresh_tokens.
RevokeAll(r) ==
    /\ req[r].at = "reused"
    /\ tok' = Revoked
    /\ Ends(r)
    /\ UNCHANGED <<account, ended, slipped>>

-----------------------------------------------------------------------------
(***************************************************************************)
(* Signing out.                                                            *)
(***************************************************************************)
Logout(t) ==
    /\ tok[t].st \in {"live", "lapsed"}
    /\ tok' = [tok EXCEPT ![t] = Revoked[t]]
    /\ UNCHANGED <<account, req, ended, slipped>>

\* Slip: the rows are revoked, not deleted.
RevokedInstead(T) == Become(T \cap With("live"), "revoked")

DeleteAll(T) == Become(T, "deleted")

\* revoke_other_sessions deletes every row ...
RevokeOthers(r) ==
    /\ req[r] = Idle /\ account = "open" /\ Issued # {}
    /\ DeleteAll(Issued)
    /\ Goes(r, "issue", NoToken, "only")
    /\ ended' = ended \cup SessionsEver
    /\ slipped' = slipped \cup {tok[req[q].parent].session :
                                  q \in {p \in Requests : req[p].at = "issue" /\ req[p].parent # NoToken}}
    /\ UNCHANGED <<account>>
    \* ... and IssueTokens follows.

\* erase_user, one transaction.
EraseUser ==
    /\ account = "open"
    /\ account' = "erased"
    /\ tok' = Revoked
    /\ UNCHANGED <<req, ended, slipped>>

-----------------------------------------------------------------------------
(***************************************************************************)
(* Time, and requests that stop between two statements.                    *)
(***************************************************************************)
Lapse(t) ==
    /\ tok[t].st \in {"live", "revoked"}
    /\ Become({t}, IF tok[t].st = "live" THEN "lapsed" ELSE "stale")
    /\ UNCHANGED <<account, req, ended, slipped>>

Abort(r) ==
    /\ req[r] # Idle
    /\ Ends(r)
    /\ UNCHANGED <<account, tok, ended, slipped>>

SessionsNext ==
    \/ \E r \in Requests :
          \/ Register(r) \/ Login(r) \/ IssueTokens(r)
          \/ \E t \in Tokens : ClaimRefreshToken(r, t)
          \/ ReadClaimed(r) \/ ReadMissed(r) \/ ReadExcused(r) \/ RevokeAll(r)
          \/ RevokeOthers(r) \/ Abort(r)
    \/ \E t \in Tokens : Logout(t) \/ Lapse(t)
    \/ EraseUser

SessionsSpec == SessionsInit /\ [][SessionsNext]_sessionVars

-----------------------------------------------------------------------------
(***************************************************************************)
(* Properties.                                                             *)
(***************************************************************************)
SessionsTypeOK ==
    /\ account \in {"none", "open", "erased"}
    /\ tok \in [Tokens -> [st : TokenStates, session : Tokens \cup {NoToken},
                           parent : Tokens \cup {NoToken}, how : {"none", "signin", "claim", "grace", "only"}]]
    /\ req \in [Requests -> [at : {"idle", "issue", "claimed", "missed", "excused", "reused"},
                             parent : Tokens \cup {NoToken}, how : {"none", "signin", "claim", "grace", "only"}]]
    /\ ended \subseteq Tokens
    /\ slipped \subseteq Tokens

\* "Atomic single-use claim on the token row prevents two concurrent
\* /auth/refresh calls from both minting a valid session out of one cookie"
\* (service.rs:226-227): however tabs, retries, sign-outs and alarms
\* interleave, at most one of the tokens minted from a token is due to a
\* claim (a claim in progress counts), and a live token was never claimed.
Heirs(t) == {u \in Tokens : tok[u].parent = t /\ tok[u].how = "claim"}
Claimants(t) == {r \in Requests : req[r].parent = t /\ req[r].how = "claim"}

ClaimedOnce ==
    \A t \in Tokens :
       /\ \A u, v \in Heirs(t) : u = v
       /\ \A q, r \in Claimants(t) : q = r
       /\ Heirs(t) = {} \/ Claimants(t) = {}
       /\ tok[t].st \in {"free", "live"} => Heirs(t) = {} /\ Claimants(t) = {}

\* "only the current browser keeps a session ... no cascade, no grace"
\* (service.rs:273-282): a session that was signed out from another device
\* is never alive again, unless one of its refreshes had been accepted and
\* was about to store its token at that moment.
SignedOutStaysOut ==
    \A t \in With("live") : tok[t].session \in ended => tok[t].session \in slipped

\* Who is signed in, and who is not any more.
SessionsInv == SessionsTypeOK /\ ClaimedOnce /\ SignedOutStaysOut
=============================================================================
