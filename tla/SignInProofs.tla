----------------------------- MODULE SignInProofs -----------------------------
(***************************************************************************)
(* Proofs about signing in and signed requests, for any number of tokens,  *)
(* codes, keys and requests:                                               *)
(* a refresh token is claimed once and what was signed out stays out       *)
(* (Sessions); a mailed code lets one request in (EmailCodes); an          *)
(* authorization code is exchanged once, and no token outlives its consent *)
(* (OAuthGrants), but for the races that the invariants name; a signed     *)
(* request is accepted once, a key is paid once and within the quota, and  *)
(* a send is refused for want of funds only if a wallet lost some          *)
(* (PublicApi).                                                            *)
(***************************************************************************)
EXTENDS Sessions, EmailCodes, OAuthGrants, PublicApi, LedgerLemmas

-------------------------------------------------------------------------------
(***************************************************************************)
(* Sessions.                                                               *)
(***************************************************************************)
\* A session is named by its first token, the one before a token is there,
\* and a slot that is free has none.
Chains ==
    /\ \A t \in Tokens : tok[t].st = "free" => tok[t].parent = NoToken
    /\ \A t \in Tokens : tok[t].st # "free" =>
          tok[t].session \in Tokens /\ tok[tok[t].session].st # "free"

\* What a request holds is a token there is.
Hands ==
    \A r \in Requests :
        /\ req[r].parent # NoToken => tok[req[r].parent].st # "free"
        /\ req[r].at \in {"claimed", "missed", "excused", "reused"} => req[r].parent # NoToken
        /\ req[r].at = "claimed" => req[r].how = "claim"

\* Of a session that ended the rows are deleted, unless one slipped: then a
\* token that is stored, or will be, is one of its own.
Endings ==
    /\ \A t \in ended : tok[t].st # "free"
    /\ \A t \in Tokens : tok[t].st # "free" /\ tok[t].session \in ended =>
          tok[t].st = "deleted" \/ tok[t].session \in slipped
    /\ \A r \in Requests :
          req[r].at = "issue" /\ req[r].parent # NoToken /\ tok[req[r].parent].session \in ended
          => tok[req[r].parent].session \in slipped

\* The inductive invariant.
SessionsIInv == SessionsTypeOK /\ ClaimedOnce /\ Chains /\ Hands /\ Endings

-------------------------------------------------------------------------------
\* Before anybody signed in.
LEMMA SessionsInitInv == SessionsInit => SessionsIInv
<1> SUFFICES ASSUME SessionsInit PROVE SessionsIInv
    OBVIOUS
<1> USE DEF SessionsInit, Idle, NoToken
<1>1. SessionsTypeOK
    BY DEF SessionsTypeOK, TokenStates
<1>2. ClaimedOnce
    BY DEF ClaimedOnce, Heirs, Claimants
<1>3. Chains /\ Hands /\ Endings
    BY DEF Chains, Hands, Endings
<1> QED
    BY <1>1, <1>2, <1>3 DEF SessionsIInv

\* A step that leaves who descends from whom, and takes no claim, keeps the
\* claims: rows are not freed or made live again.
LEMMA SameClaims ==
    ASSUME ClaimedOnce,
           \A t \in Tokens : tok'[t].parent = tok[t].parent /\ tok'[t].how = tok[t].how,
           \A t \in Tokens : tok'[t].st \in {"free", "live"} => tok[t].st \in {"free", "live"},
           \A r \in Requests : req'[r].how = "claim" =>
               req[r].how = "claim" /\ req'[r].parent = req[r].parent
    PROVE  ClaimedOnce'
<1>1. \A t \in Tokens : Heirs(t)' = Heirs(t)
    BY DEF Heirs, Tokens
<1>2. \A t \in Tokens : Claimants(t)' \subseteq Claimants(t)
    BY DEF Claimants
<1>3. Tokens' = Tokens
    BY DEF Tokens
<1> QED
    BY <1>1, <1>2, <1>3 DEF ClaimedOnce

\* Steps that move a request on, or end it, and touch no token.
LEMMA RequestMovesInv ==
    ASSUME SessionsIInv, NEW r \in Requests,
           NEW at \in {"issue", "missed", "excused", "reused"},
           NEW parent \in Tokens \cup {NoToken},
           NEW how \in {"none", "signin", "claim", "grace"},
           Goes(r, at, parent, how) \/ Ends(r),
           \/ parent = NoToken /\ at = "issue" /\ how = "signin"
           \/ /\ parent \in Tokens /\ tok[parent].st # "free"
              /\ how = "claim" => req[r].how = "claim" /\ parent = req[r].parent
              /\ at = "issue" => tok[parent].st # "deleted",
           account' \in {"none", "open", "erased"},
           tok' = tok, ended' = ended, slipped' = slipped
    PROVE  SessionsIInv'
<1> USE DEF SessionsIInv
<1> DEFINE new == [at |-> at, parent |-> parent, how |-> how]
<1>1. PICK q \in {new, Idle} : req' = [req EXCEPT ![r] = q]
    BY DEF Goes, Ends
<1>2. /\ q \in [at : {"idle", "issue", "claimed", "missed", "excused", "reused"},
                parent : Tokens \cup {NoToken}, how : {"none", "signin", "claim", "grace", "only"}]
      /\ q.how = "claim" => req[r].how = "claim" /\ q.parent = req[r].parent
    BY DEF Idle
<1>3. SessionsTypeOK'
    BY <1>1, <1>2 DEF SessionsTypeOK, Tokens
<1>4. \A s \in Requests : req'[s] = IF s = r THEN q ELSE req[s]
    BY <1>1 DEF SessionsTypeOK
<1>5. ClaimedOnce'
    BY <1>2, <1>4, SameClaims
<1>6. Chains'
    BY DEF Chains, Tokens
<1>7. Hands'
    BY <1>4 DEF Hands, Idle, NoToken, Tokens
<1>8. Endings'
    BY <1>4 DEF Endings, Idle, Tokens
<1> QED
    BY <1>3, <1>5, <1>6, <1>7, <1>8

\* Rows that are what they were, or less.
Fade(rows) ==
    /\ rows \in [Tokens -> [st : TokenStates, session : Tokens \cup {NoToken}, parent : Tokens \cup {NoToken},
                            how : {"none", "signin", "claim", "grace", "only"}]]
    /\ \A t \in Tokens :
          /\ rows[t].parent = tok[t].parent /\ rows[t].how = tok[t].how /\ rows[t].session = tok[t].session
          /\ rows[t].st = "free" <=> tok[t].st = "free"
          /\ rows[t].st = "live" => tok[t].st = "live"
          /\ tok[t].st = "deleted" => rows[t].st = "deleted"

\* Revoking takes live tokens out of use and gives none a new life.
LEMMA RevokedFade == SessionsTypeOK => Fade(Revoked)
BY DEF Fade, Revoked, SessionsTypeOK, TokenStates

\* Steps that take tokens out of use, and may let a request end.
LEMMA TokensFadeInv ==
    ASSUME SessionsIInv,
           Fade(tok'), req' = req \/ \E r \in Requests : Ends(r),
           account' \in {"none", "open", "erased"},
           ended' = ended, slipped' = slipped
    PROVE  SessionsIInv'
<1> USE DEF SessionsIInv, Fade
<1>1. /\ \A r \in Requests : req'[r] \in {req[r], Idle}
      /\ DOMAIN req' = Requests /\ req' = [r \in Requests |-> req'[r]]
    BY DEF Ends, SessionsTypeOK
<1>2. SessionsTypeOK'
    BY <1>1 DEF SessionsTypeOK, Tokens, Idle
<1>3. ClaimedOnce'
    BY <1>1, SameClaims DEF Idle
<1>4. Chains'
    BY DEF Chains, Tokens
<1>5. \A r \in Requests : req[r].parent # NoToken => req[r].parent \in Tokens
    BY DEF SessionsTypeOK
<1>6. Hands'
    BY <1>1, <1>5 DEF Hands, Idle
<1>7. Endings'
    BY <1>1, <1>5 DEF Endings, Idle, SessionsTypeOK, Tokens
<1> QED
    BY <1>2, <1>3, <1>4, <1>6, <1>7

\* A claim: the token was live, and so claimed by nobody.
LEMMA ClaimInv ==
    ASSUME SessionsIInv, NEW r \in Requests, NEW t \in Tokens, ClaimRefreshToken(r, t)
    PROVE  SessionsIInv'
<1> USE DEF SessionsIInv
<1>1. CASE ~ Claimable(t)
    <2>1. tok[t].st # "free" /\ tok' = tok /\ Goes(r, "missed", t, "grace")
        BY <1>1 DEF ClaimRefreshToken, Issued, With
    <2> QED
        BY <2>1, RequestMovesInv DEF ClaimRefreshToken, SessionsTypeOK
<1>2. CASE Claimable(t)
    <2> DEFINE new == [at |-> "claimed", parent |-> t, how |-> "claim"]
    <2>1. /\ tok[t].st = "live"
          /\ \A s \in Requests : req'[s] = IF s = r THEN new ELSE req[s]
          /\ req' = [req EXCEPT ![r] = new]
          /\ tok' = [u \in Tokens |-> IF u = t THEN [tok[u] EXCEPT !.st = "revoked"] ELSE tok[u]]
        BY <1>2 DEF ClaimRefreshToken, Claimable, Goes, Become, SessionsTypeOK
    <2>2. /\ \A u \in Tokens : /\ tok'[u].parent = tok[u].parent /\ tok'[u].how = tok[u].how
                               /\ tok'[u].session = tok[u].session
                               /\ tok'[u].st = IF u = t THEN "revoked" ELSE tok[u].st
          /\ UNCHANGED <<account, ended, slipped>>
        BY <2>1 DEF SessionsTypeOK, ClaimRefreshToken
    <2>3. SessionsTypeOK'
        BY <2>1, <2>2 DEF SessionsTypeOK, Tokens, TokenStates
    <2>4. ClaimedOnce'
        <3>1. \A u \in Tokens : Heirs(u)' = Heirs(u)
            BY <2>2 DEF Heirs, Tokens
        <3>2. \A u \in Tokens : Claimants(u)' \subseteq IF u = t THEN {r} ELSE Claimants(u)
            <4>1. Heirs(t) = {} /\ Claimants(t) = {}
                BY <2>1 DEF ClaimedOnce
            <4> QED
                BY <4>1, <2>1 DEF Claimants
        <3>3. Heirs(t) = {}
            BY <2>1 DEF ClaimedOnce
        <3>4. Tokens' = Tokens
            BY DEF Tokens
        <3> QED
            BY <2>2, <3>1, <3>2, <3>3, <3>4 DEF ClaimedOnce
    <2>5. Chains'
        BY <2>1, <2>2 DEF Chains, Tokens
    <2>6. \A s \in Requests : req[s].parent # NoToken => req[s].parent \in Tokens
        BY DEF SessionsTypeOK
    <2>7. Hands'
        BY <2>1, <2>2, <2>6 DEF Hands, NoToken, Tokens
    <2>8. Endings'
        BY <2>1, <2>2, <2>6 DEF Endings, SessionsTypeOK, NoToken, Tokens
    <2> QED
        BY <2>3, <2>4, <2>5, <2>7, <2>8
<1> QED
    BY <1>1, <1>2

\* A token is stored: the heir of the token its request claimed, if it did.
LEMMA IssueInv ==
    ASSUME SessionsIInv, NEW r \in Requests, IssueTokens(r)
    PROVE  SessionsIInv'
<1> USE DEF SessionsIInv
<1> DEFINE p == req[r].parent
<1>1. PICK t \in Tokens :
          /\ tok[t].st = "free"
          /\ tok' = [tok EXCEPT ![t] =
                       [st |-> "live", parent |-> p, how |-> req[r].how,
                        session |-> IF p = NoToken THEN t ELSE tok[p].session]]
    BY DEF IssueTokens, With
<1>2. /\ req[r].at = "issue" /\ req' = [req EXCEPT ![r] = Idle]
      /\ UNCHANGED <<account, ended, slipped>>
    BY DEF IssueTokens, Ends
<1>3. /\ p \in Tokens \cup {NoToken}
      /\ p # NoToken => p \in Tokens /\ p # t /\ tok[p].st # "free" /\ tok[p].session \in Tokens
                        /\ tok[tok[p].session].st # "free"
    BY <1>1 DEF SessionsTypeOK, Hands, Chains
<1> DEFINE ses == IF p = NoToken THEN t ELSE tok[p].session
<1>4. /\ \A u \in Tokens \ {t} : tok'[u] = tok[u]
      /\ tok'[t].st = "live" /\ tok'[t].parent = p /\ tok'[t].how = req[r].how /\ tok'[t].session = ses
      /\ \A s \in Requests : req'[s] = IF s = r THEN Idle ELSE req[s]
    BY <1>1, <1>2 DEF SessionsTypeOK
<1>5. SessionsTypeOK'
    <2>1. [st |-> "live", parent |-> p, how |-> req[r].how, session |-> ses]
             \in [st : TokenStates, session : Tokens \cup {NoToken}, parent : Tokens \cup {NoToken},
                  how : {"none", "signin", "claim", "grace", "only"}]
        BY <1>3 DEF SessionsTypeOK, TokenStates
    <2> QED
        BY <1>1, <1>2, <2>1 DEF SessionsTypeOK, Tokens, Idle
<1>6. ClaimedOnce'
    <2>1. \A u \in Tokens : Heirs(u)' = IF u = p /\ req[r].how = "claim" THEN Heirs(u) \cup {t} ELSE Heirs(u)
        <3>1. tok[t].parent = NoToken
            BY <1>1 DEF Chains
        <3> QED
            BY <1>3, <1>4, <3>1 DEF Heirs, Tokens, NoToken
    <2>2. \A u \in Tokens : Claimants(u)' = Claimants(u) \ {r}
        BY <1>4 DEF Claimants, Idle, Tokens, NoToken
    <2>3. p \in Tokens /\ req[r].how = "claim" =>
             /\ r \in Claimants(p) /\ Heirs(p) = {} /\ tok[p].st \notin {"free", "live"}
             /\ Claimants(p) = {r}
        BY DEF ClaimedOnce, Claimants
    <2>4. Heirs(t) = {} /\ Claimants(t) = {}
        BY <1>1 DEF ClaimedOnce
    <2>5. Tokens' = Tokens
        BY DEF Tokens
    <2> QED
        BY <1>3, <1>4, <2>1, <2>2, <2>3, <2>4, <2>5 DEF ClaimedOnce
<1>7. Chains'
    BY <1>1, <1>3, <1>4 DEF Chains, Tokens
<1>8. \A s \in Requests : req[s].parent # NoToken => req[s].parent \in Tokens \ {t}
    BY <1>1 DEF SessionsTypeOK, Hands
<1>9. Hands'
    BY <1>4, <1>8 DEF Hands, Idle, NoToken, Tokens
<1>10. Endings'
    <2>1. t \notin ended
        BY <1>1 DEF Endings
    <2>2. ses \in ended => ses \in slipped
        BY <1>2, <1>3, <2>1 DEF Endings
    <2> QED
        BY <1>1, <1>2, <1>4, <1>8, <2>2 DEF Endings, Idle, SessionsTypeOK, NoToken, Tokens
<1> QED
    BY <1>5, <1>6, <1>7, <1>9, <1>10

\* The others are signed out: every row is deleted.
LEMMA RevokeOthersInv ==
    ASSUME SessionsIInv, NEW r \in Requests, RevokeOthers(r)
    PROVE  SessionsIInv'
<1> USE DEF SessionsIInv
<1> DEFINE new == [at |-> "issue", parent |-> NoToken, how |-> "only"]
<1>1. /\ tok' = [t \in Tokens |-> IF tok[t].st # "free" THEN [tok[t] EXCEPT !.st = "deleted"] ELSE tok[t]]
      /\ req' = [req EXCEPT ![r] = new]
      /\ ended' = ended \cup SessionsEver
      /\ slipped' = slipped \cup {tok[req[q].parent].session :
                                  q \in {p \in Requests : req[p].at = "issue" /\ req[p].parent # NoToken}}
      /\ account' = account /\ req[r] = Idle
    BY DEF RevokeOthers, DeleteAll, Become, Goes, Issued, With
<1>2. \A t \in Tokens : /\ tok'[t].parent = tok[t].parent /\ tok'[t].how = tok[t].how
                        /\ tok'[t].session = tok[t].session
                        /\ tok'[t].st = IF tok[t].st = "free" THEN "free" ELSE "deleted"
    BY <1>1 DEF SessionsTypeOK
<1>3. \A s \in Requests : req'[s] = IF s = r THEN new ELSE req[s]
    BY <1>1 DEF SessionsTypeOK
<1>4. \A s \in Requests : req[s].parent # NoToken =>
         /\ req[s].parent \in Tokens /\ tok[req[s].parent].st # "free"
         /\ tok[req[s].parent].session \in Tokens
    BY DEF SessionsTypeOK, Hands, Chains
<1>5. \A e \in SessionsEver : e \in Tokens /\ tok[e].st # "free"
    BY DEF SessionsEver, Issued, With, Chains
<1>6. SessionsTypeOK'
    <2>1. ended' \subseteq Tokens /\ slipped' \subseteq Tokens
        BY <1>1, <1>4, <1>5 DEF SessionsTypeOK
    <2>2. tok' \in [Tokens -> [st : TokenStates, session : Tokens \cup {NoToken}, parent : Tokens \cup {NoToken},
                              how : {"none", "signin", "claim", "grace", "only"}]]
        BY <1>1 DEF SessionsTypeOK, TokenStates
    <2>3. req' \in [Requests -> [at : {"idle", "issue", "claimed", "missed", "excused", "reused"},
                                parent : Tokens \cup {NoToken}, how : {"none", "signin", "claim", "grace", "only"}]]
        BY <1>1 DEF SessionsTypeOK
    <2> QED
        BY <1>1, <2>1, <2>2, <2>3 DEF SessionsTypeOK, Tokens
<1>7. ClaimedOnce'
    BY <1>2, <1>3, SameClaims
<1>8. Chains'
    BY <1>2 DEF Chains, Tokens
<1>9. Hands'
    BY <1>2, <1>3, <1>4 DEF Hands, Tokens
<1>10. Endings'
    <2>1. \A e \in ended' : e \in Tokens /\ tok'[e].st # "free"
        BY <1>1, <1>2, <1>5 DEF Endings, SessionsTypeOK
    <2>2. \A t \in Tokens : tok'[t].st # "free" => tok'[t].st = "deleted"
        BY <1>2
    <2>3. \A s \in Requests : req'[s].at = "issue" /\ req'[s].parent # NoToken
              => tok'[req'[s].parent].session \in slipped'
        BY <1>1, <1>2, <1>3, <1>4
    <2> QED
        BY <2>1, <2>2, <2>3 DEF Endings, Tokens
<1> QED
    BY <1>6, <1>7, <1>8, <1>9, <1>10

\* Every step keeps the invariant.
LEMMA SessionsNextInv == SessionsIInv /\ [SessionsNext]_sessionVars => SessionsIInv'
<1> SUFFICES ASSUME SessionsIInv, [SessionsNext]_sessionVars PROVE SessionsIInv'
    OBVIOUS
<1>1. SessionsTypeOK /\ Chains /\ Hands /\ Endings
    BY DEF SessionsIInv
<1>2. CASE UNCHANGED sessionVars
    <2>1. \A t \in Tokens : Heirs(t)' = Heirs(t) /\ Claimants(t)' = Claimants(t)
        BY <1>2 DEF sessionVars, Heirs, Claimants, Tokens
    <2> QED
        BY <1>2, <2>1 DEF sessionVars, SessionsIInv, SessionsTypeOK, ClaimedOnce, Chains, Hands, Endings, Tokens
<1>3. ASSUME NEW r \in Requests, Register(r) \/ Login(r) PROVE SessionsIInv'
    <2>1. /\ Goes(r, "issue", NoToken, "signin") /\ account' \in {"none", "open", "erased"}
          /\ UNCHANGED <<tok, ended, slipped>>
        BY <1>3 DEF Register, Login, CreateUser, SignedIn
    <2> QED
        BY <2>1, RequestMovesInv
<1>4. ASSUME NEW r \in Requests, IssueTokens(r) PROVE SessionsIInv'
    BY <1>4, IssueInv
<1>5. ASSUME NEW r \in Requests, NEW t \in Tokens, ClaimRefreshToken(r, t) PROVE SessionsIInv'
    BY <1>5, ClaimInv
<1>6. ASSUME NEW r \in Requests, ReadClaimed(r) \/ ReadMissed(r) \/ ReadExcused(r) PROVE SessionsIInv'
    <2> DEFINE p == req[r].parent
    <2>1. p \in Tokens /\ tok[p].st # "free" /\ account \in {"none", "open", "erased"}
        BY <1>1, <1>6 DEF ReadClaimed, ReadMissed, ReadExcused, SessionsTypeOK, Hands
    <2>2. UNCHANGED <<account, tok, ended, slipped>>
        BY <1>6 DEF ReadClaimed, ReadMissed, ReadExcused
    <2>3. CASE ReadClaimed(r)
        <3>1. req[r].how = "claim"
            BY <1>1, <2>3 DEF ReadClaimed, Hands
        <3>2. CASE Ends(r)
            BY <2>1, <2>2, <3>2, RequestMovesInv
        <3>3. CASE tok[p].st # "deleted" /\ Goes(r, "issue", p, "claim")
            BY <2>1, <2>2, <3>1, <3>3, RequestMovesInv
        <3> QED
            BY <2>3, <3>2, <3>3 DEF ReadClaimed
    <2>4. CASE ReadMissed(r)
        BY <2>1, <2>2, <2>4, RequestMovesInv DEF ReadMissed
    <2>5. CASE ReadExcused(r)
        BY <2>1, <2>2, <2>5, RequestMovesInv DEF ReadExcused
    <2> QED
        BY <1>6, <2>3, <2>4, <2>5
<1>7. ASSUME NEW r \in Requests, RevokeAll(r) PROVE SessionsIInv'
    <2>1. tok' = Revoked /\ Ends(r) /\ UNCHANGED <<account, ended, slipped>>
        BY <1>7 DEF RevokeAll
    <2>2. Fade(tok') /\ \E s \in Requests : Ends(s)
        BY <1>1, <2>1, RevokedFade
    <2>3. account' \in {"none", "open", "erased"}
        BY <1>1, <2>1 DEF SessionsTypeOK
    <2> QED
        BY <2>1, <2>2, <2>3, TokensFadeInv
<1>8. ASSUME NEW r \in Requests, RevokeOthers(r) PROVE SessionsIInv'
    BY <1>8, RevokeOthersInv
<1>9. ASSUME NEW r \in Requests, Abort(r) PROVE SessionsIInv'
    <2>1. Ends(r) /\ UNCHANGED <<account, tok, ended, slipped>>
        BY <1>9 DEF Abort
    <2>2. Fade(tok') /\ account' \in {"none", "open", "erased"}
        BY <1>1, <2>1 DEF Fade, SessionsTypeOK
    <2> QED
        BY <2>1, <2>2, TokensFadeInv
<1>10. ASSUME NEW t \in Tokens, Logout(t) PROVE SessionsIInv'
    <2>1. tok' = [tok EXCEPT ![t] = Revoked[t]] /\ UNCHANGED <<account, req, ended, slipped>>
        BY <1>10 DEF Logout
    <2>2. Fade(tok') /\ account' \in {"none", "open", "erased"}
        BY <1>1, <2>1, RevokedFade DEF Fade, SessionsTypeOK
    <2> QED
        BY <2>1, <2>2, TokensFadeInv
<1>11. ASSUME NEW t \in Tokens, Lapse(t) PROVE SessionsIInv'
    <2>1. /\ tok' = [u \in Tokens |-> IF u = t THEN [tok[u] EXCEPT !.st = IF tok[t].st = "live" THEN "lapsed" ELSE "stale"]
                                      ELSE tok[u]]
          /\ tok[t].st \in {"live", "revoked"} /\ UNCHANGED <<account, req, ended, slipped>>
        BY <1>11 DEF Lapse, Become
    <2>2. Fade(tok')
        BY <1>1, <2>1 DEF SessionsTypeOK, TokenStates, Fade
    <2>4. account' \in {"none", "open", "erased"}
        BY <1>1, <2>1 DEF SessionsTypeOK
    <2> QED
        BY <2>1, <2>2, <2>4, TokensFadeInv
<1>12. ASSUME EraseUser PROVE SessionsIInv'
    <2>1. tok' = Revoked /\ account' = "erased" /\ UNCHANGED <<req, ended, slipped>>
        BY <1>12 DEF EraseUser
    <2> QED
        BY <1>1, <2>1, RevokedFade, TokensFadeInv
<1> QED
    BY <1>2, <1>3, <1>4, <1>5, <1>6, <1>7, <1>8, <1>9, <1>10, <1>11, <1>12 DEF SessionsNext

(***************************************************************************)
(* However the requests of an account's tabs and devices interleave, at    *)
(* most one of the tokens minted from a token is due to a claim, and a     *)
(* session that was signed out is never alive again, unless a refresh of   *)
(* it was about to store its token just then (service.rs:226-227, 273-282).*)
(***************************************************************************)
THEOREM SessionsInvariant == SessionsSpec => []SessionsInv
<1>1. SessionsIInv => SessionsInv
    BY DEF SessionsIInv, SessionsInv, Endings, SignedOutStaysOut, With
<1> QED
    BY <1>1, SessionsInitInv, SessionsNextInv, PTL DEF SessionsSpec

-------------------------------------------------------------------------------
(***************************************************************************)
(* EmailCodes.                                                             *)
(***************************************************************************)
\* The states of a request.
Asking == {NotAsking, [at |-> "rotate"]}
          \cup [at : {"insert"}, older : SUBSET Codes]
          \cup [at : {"claim", "count", "burn"}, row : Codes]

\* The requests that compared a code with c and have not written yet.
Comparing(c) == {r \in CodeRequests : creq[r].at \in {"claim", "count"} /\ creq[r].row = c}

\* Codes are stored in order, and a slot that is free has no history.
Slots ==
    /\ \E n \in 0..MaxCodes : Sent = 1..n
    /\ \A c \in Codes : code[c].st = "none" => code[c].tries = 0
    /\ \A r \in CodeRequests :
          /\ creq[r].at = "insert" => creq[r].older \subseteq Sent
          /\ creq[r].at \in {"claim", "count", "burn"} => creq[r].row \in Sent

\* Every comparison is counted or still in progress, until a row is consumed.
Counted ==
    \A c \in Codes : code[c].st # "consumed" =>
        guesses[c] = code[c].tries + Cardinality(Comparing(c))

\* While rotations have not overlapped there is one at most, and it knows of
\* every code that is not consumed.
Rotations ==
    crossed \/
    /\ \A q, r \in CodeRequests : creq[q].at = "insert" /\ creq[r].at = "insert" => q = r
    /\ \A r \in CodeRequests : creq[r].at = "insert" =>
          \A c \in Sent : c \in creq[r].older \/ code[c].st = "consumed"

\* The inductive invariant.
CodesIInv ==
    /\ CodesTypeOK /\ creq \in [CodeRequests -> Asking]
    /\ CodeUsedOnce /\ GuessesBounded /\ ReplacedCodesDie
    /\ Slots /\ Counted /\ Rotations

-------------------------------------------------------------------------------
\* The bound on the guesses is a number.
LEMMA ComparingFinite ==
    ASSUME CodesAssumption, NEW c
    PROVE  /\ IsFiniteSet(Comparing(c)) /\ Cardinality(Comparing(c)) \in Nat
           /\ Cardinality(CodeRequests) \in Nat
           /\ Cardinality(Comparing(c)) <= Cardinality(CodeRequests)
<1>1. Comparing(c) \in SUBSET CodeRequests
    BY DEF Comparing
<1> QED
    BY <1>1, FS_Subset, FS_CardinalityType DEF CodesAssumption

\* Before any code was asked for.
LEMMA CodesInitInv ==
    ASSUME CodesAssumption, CodesInit PROVE CodesIInv
<1> USE DEF CodesAssumption, CodesInit, NotAsking
<1>1. CodesTypeOK /\ creq \in [CodeRequests -> Asking]
    BY DEF CodesTypeOK, Asking
<1>2. Sent = {} /\ 1..0 = {}
    BY DEF Sent
<1>3. Slots
    <2>1. 0 \in 0..MaxCodes /\ Sent = 1..0
        BY <1>2
    <2> QED
        BY <2>1 DEF Slots
<1>4. \A c \in Codes : Comparing(c) = {}
    BY DEF Comparing
<1>5. Cardinality(CodeRequests) \in Nat /\ Cardinality({}) = 0
    BY FS_CardinalityType, FS_EmptySet
<1>6. Counted
    BY <1>4, <1>5 DEF Counted
<1>8. GuessesBounded
    BY <1>5 DEF GuessesBounded
<1>7. CodeUsedOnce /\ ReplacedCodesDie /\ Rotations
    BY <1>2 DEF CodeUsedOnce, ReplacedCodesDie, Rotations
<1> QED
    BY <1>1, <1>3, <1>6, <1>7, <1>8 DEF CodesIInv

\* The steps of a rotation but the last, and of time: no row is compared,
\* claimed or created.
LEMMA QuietInv ==
    ASSUME CodesAssumption, CodesIInv,
           code' \in [Codes -> [st : {"none", "active", "lapsed", "consumed"}, tries : Nat, recent : BOOLEAN]],
           \A c \in Codes : /\ code'[c].tries = code[c].tries
                            /\ code'[c].st = "none" <=> code[c].st = "none"
                            /\ code'[c].st = "consumed" <=> code[c].st = "consumed",
           creq' \in [CodeRequests -> Asking],
           \A r \in CodeRequests : creq'[r] # creq[r] =>
               /\ creq[r].at \in {"idle", "rotate"} /\ creq'[r].at \in {"rotate", "insert"}
               /\ creq'[r].at = "insert" => creq'[r].older \subseteq Sent,
           guesses' = guesses, accepted' = accepted, crossed' \in BOOLEAN, crossed => crossed', Rotations'
    PROVE  CodesIInv'
<1> USE DEF CodesIInv
<1>1. CodesTypeOK'
    BY DEF CodesTypeOK, Asking, Codes
<1>2. Sent' = Sent /\ Codes' = Codes
    BY DEF Sent, Codes
<1>3. \A c \in Codes : Comparing(c)' = Comparing(c)
    BY DEF Comparing
<1>4. CodeUsedOnce' /\ GuessesBounded' /\ Counted'
    BY <1>2, <1>3 DEF CodeUsedOnce, GuessesBounded, Counted
<1>5. Slots'
    <2>1. \E n \in 0..MaxCodes : Sent' = 1..n
        BY <1>2 DEF Slots
    <2> QED
        BY <1>2, <2>1 DEF Slots
<1>6. ReplacedCodesDie'
    <2>1. \A c, d \in Sent : c < d => crossed' \/ code'[c].st = "consumed"
        BY DEF ReplacedCodesDie, Sent
    <2> QED
        BY <1>2, <2>1 DEF ReplacedCodesDie
<1> QED
    BY <1>1, <1>4, <1>5, <1>6

\* The codes there are: 1 to the number of them.
LEMMA NextSlot ==
    ASSUME CodesAssumption, Slots
    PROVE  /\ Cardinality(Sent) \in 0..MaxCodes
           /\ Sent = 1..Cardinality(Sent)
<1>1. PICK n \in 0..MaxCodes : Sent = 1..n
    BY DEF Slots
<1>2. Cardinality(1..n) = n
    BY <1>1, FS_Interval
<1> QED
    BY <1>1, <1>2

\* The new code takes the next slot, and the older ones are consumed.
LEMMA StoreInv ==
    ASSUME CodesAssumption, CodesIInv, NEW r \in CodeRequests, StoreCode(r)
    PROVE  CodesIInv'
<1> USE DEF CodesIInv
<1> DEFINE n == Cardinality(Sent)
<1> DEFINE fresh == [st |-> "active", tries |-> 0, recent |-> TRUE]
<1>1. n \in 0..(MaxCodes - 1) /\ Sent = 1..n /\ n + 1 \in Codes
    BY NextSlot DEF StoreCode, Codes, CodesAssumption
<1> HIDE DEF n
<1>2. /\ creq[r].at = "insert" /\ creq' = [creq EXCEPT ![r] = NotAsking]
      /\ creq[r].older \in SUBSET Codes
      /\ code' = [c \in Codes |-> IF c \in creq[r].older THEN [code[c] EXCEPT !.st = "consumed"]
                                ELSE IF c = n + 1 THEN fresh ELSE code[c]]
      /\ UNCHANGED <<guesses, accepted, crossed>>
    BY DEF StoreCode, Older, n, Asking, NotAsking
<1>3. \A c \in Codes :
          /\ code'[c].st = IF c \in creq[r].older THEN "consumed" ELSE IF c = n + 1 THEN "active" ELSE code[c].st
          /\ code'[c].tries = IF c = n + 1 /\ c \notin creq[r].older THEN 0 ELSE code[c].tries
    BY <1>2 DEF CodesTypeOK
<1>4. CodesTypeOK' /\ (creq \in [CodeRequests -> Asking])'
    <2>1. creq' \in [CodeRequests -> Asking]
        BY <1>2 DEF Asking
    <2>2. code' \in [Codes -> [st : {"none", "active", "lapsed", "consumed"}, tries : Nat, recent : BOOLEAN]]
        BY <1>2 DEF CodesTypeOK
    <2> QED
        BY <1>2, <2>1, <2>2 DEF CodesTypeOK, Asking, Codes
<1>5. code[n + 1].st = "none" /\ code[n + 1].tries = 0
    BY <1>1 DEF Sent, Slots
<1>6. CodeUsedOnce'
    BY <1>2, <1>3, <1>5 DEF CodeUsedOnce, CodesTypeOK, Codes
<1>7. GuessesBounded'
    BY <1>2 DEF GuessesBounded, Codes
<1>8. Counted'
    <2>1. \A c \in Codes : Comparing(c)' = Comparing(c)
        BY <1>2 DEF Comparing, NotAsking
    <2>2. \A c \in Codes : code'[c].st # "consumed" => code[c].st # "consumed" /\ code'[c].tries = code[c].tries
        BY <1>3, <1>5
    <2> QED
        BY <1>2, <2>1, <2>2 DEF Counted, Codes
<1>9. creq[r].older \subseteq Sent /\ n + 1 \notin Sent
    BY <1>1, <1>2 DEF Slots
<1>10. Sent' = 1..(n + 1) /\ Sent \subseteq Sent'
    <2>1. \A c \in Codes : c \in Sent' <=> c \in Sent \/ c = n + 1
        BY <1>3, <1>9 DEF Sent, Codes
    <2> QED
        BY <1>1, <2>1 DEF Sent, Codes, CodesAssumption
<1>11. Slots'
    <2>1. n + 1 \in 0..MaxCodes
        BY <1>1 DEF CodesAssumption
    <2>2. \A c \in Codes : code'[c].st = "none" => code'[c].tries = 0
        BY <1>3 DEF Slots
    <2>3. \A q \in CodeRequests : creq'[q].at = "insert" => creq'[q] = creq[q]
        BY <1>2 DEF NotAsking
    <2>4. \A q \in CodeRequests : creq'[q].at = "insert" => creq'[q].older \subseteq Sent'
        BY <1>10, <2>3 DEF Slots
    <2>5. \A q \in CodeRequests : creq'[q].at \in {"claim", "count", "burn"} => creq'[q].row \in Sent'
        BY <1>2, <1>10 DEF Slots, NotAsking
    <2> QED
        BY <1>10, <2>1, <2>2, <2>4, <2>5 DEF Slots, Codes
<1>12. Rotations'
    BY <1>2 DEF Rotations, NotAsking
<1>13. ReplacedCodesDie'
    <2>1. CASE crossed
        BY <1>2, <2>1 DEF ReplacedCodesDie
    <2>2. CASE ~ crossed
        <3>1. \A c \in Sent : c \in creq[r].older \/ code[c].st = "consumed"
            BY <1>2, <2>2 DEF Rotations
        <3>2. \A c \in Sent : code'[c].st = "consumed"
            BY <1>3, <1>9, <3>1 DEF Sent
        <3>3. \A c, d \in Sent' : c < d => c \in Sent
            BY <1>1, <1>10
        <3> QED
            BY <3>2, <3>3 DEF ReplacedCodesDie
    <2> QED
        BY <2>1, <2>2
<1> QED
    BY <1>4, <1>6, <1>7, <1>8, <1>11, <1>12, <1>13


\* There is a newest row among those that are active.
LEMMA NewestIsActive ==
    ASSUME CodesAssumption, Active # {}
    PROVE  Newest(Active) \in Active
<1> DEFINE Ages == {MaxCodes - c : c \in Active}
<1>1. \A c \in Active : c \in Nat /\ c <= MaxCodes /\ MaxCodes \in Nat
    BY DEF CodesAssumption, Active, Codes
<1>2. Ages \in SUBSET Nat /\ Ages # {}
    BY <1>1
<1>3. PICK a \in Ages : \A b \in Ages : a <= b
    BY <1>2, LeastNatural
<1>4. PICK c \in Active : a = MaxCodes - c
    BY <1>3
<1>5. ASSUME NEW d \in Active PROVE d <= c
    <2>1. a <= MaxCodes - d
        BY <1>3
    <2> QED
        BY <1>1, <1>4, <2>1
<1> QED
    BY <1>4, <1>5 DEF Newest

\* A code is compared: one guess more, and one comparison in progress.
LEMMA FindActiveInv ==
    ASSUME CodesAssumption, CodesIInv, NEW r \in CodeRequests, FindActiveOtp(r)
    PROVE  CodesIInv'
<1> USE DEF CodesIInv
<1>1. PICK c \in Codes : c = Newest(Active) /\ code[c].st = "active" /\ c \in Sent
    BY NewestIsActive DEF FindActiveOtp, Active, Sent
<1>2. creq[r] = NotAsking /\ UNCHANGED <<code, accepted, crossed>>
    BY DEF FindActiveOtp
<1>3. PICK at \in {"burn", "claim", "count"} :
          /\ creq' = [creq EXCEPT ![r] = [at |-> at, row |-> c]]
          /\ guesses' = IF at = "burn" THEN guesses ELSE [guesses EXCEPT ![c] = @ + 1]
          /\ at # "burn" => ~ (code[c].tries >= MaxAttempts)
    BY <1>1 DEF FindActiveOtp
<1>4. \A q \in CodeRequests : creq'[q] = IF q = r THEN [at |-> at, row |-> c] ELSE creq[q]
    BY <1>3
<1>5. CodesTypeOK' /\ (creq \in [CodeRequests -> Asking])'
    <2>1. creq' \in [CodeRequests -> Asking]
        BY <1>1, <1>3 DEF Asking
    <2>2. guesses' \in [Codes -> Nat]
        BY <1>1, <1>3 DEF CodesTypeOK, Codes
    <2>3. \A q \in CodeRequests : creq'[q] \in Asking
        BY <2>1
    <2>4. \A q \in CodeRequests :
             \/ creq'[q] = NotAsking \/ creq'[q] = [at |-> "rotate"]
             \/ creq'[q] \in [at : {"insert"}, older : SUBSET Codes]
             \/ creq'[q] \in [at : {"claim", "count", "burn"}, row : Codes]
        BY <2>3, Zenon DEF Asking
    <2> QED
        BY <1>2, <2>1, <2>2, <2>4 DEF CodesTypeOK, Codes
<1>6. Sent' = Sent /\ Codes' = Codes
    BY <1>2 DEF Sent, Codes
<1>7. Slots'
    BY <1>1, <1>2, <1>4, <1>6 DEF Slots
<1>14. ReplacedCodesDie' /\ CodeUsedOnce' /\ Rotations'
    BY <1>2, <1>3, <1>4, <1>6 DEF ReplacedCodesDie, CodeUsedOnce, Rotations
<1>8. \A d \in Codes : Comparing(d)' = IF at # "burn" /\ d = c THEN Comparing(d) \cup {r} ELSE Comparing(d)
    BY <1>2, <1>3, <1>4 DEF Comparing, NotAsking
<1>9. r \notin Comparing(c)
    BY <1>2 DEF Comparing, NotAsking
<1>10. Cardinality(Comparing(c) \cup {r}) = Cardinality(Comparing(c)) + 1
    BY <1>9, ComparingFinite, FS_AddElement
<1>11. Counted'
    <2>1. \A d \in Codes : guesses'[d] = IF at # "burn" /\ d = c THEN guesses[d] + 1 ELSE guesses[d]
        BY <1>3 DEF CodesTypeOK
    <2>2. ASSUME NEW d \in Codes, code[d].st # "consumed"
          PROVE  guesses'[d] = code[d].tries + Cardinality(Comparing(d)')
        <3>1. guesses[d] = code[d].tries + Cardinality(Comparing(d)) /\ code[d].tries \in Nat
            BY <2>2 DEF Counted, CodesTypeOK
        <3>2. CASE at # "burn" /\ d = c
            <4>1. Comparing(d)' = Comparing(c) \cup {r}
                BY <1>8, <3>2
            <4> QED
                BY <1>10, <2>1, <3>1, <3>2, <4>1, ComparingFinite
        <3>3. CASE ~ (at # "burn" /\ d = c)
            <4>1. Comparing(d)' = Comparing(d)
                BY <1>8, <3>3
            <4> QED
                BY <2>1, <3>1, <3>3, <4>1
        <3> QED
            BY <3>2, <3>3
    <2> QED
        BY <1>2, <1>6, <2>2 DEF Counted
<1>12. Cardinality(Comparing(c)) <= Cardinality(CodeRequests) - 1
    <2>1. Comparing(c) \in SUBSET (CodeRequests \ {r})
        BY <1>9 DEF Comparing
    <2>2. IsFiniteSet(CodeRequests \ {r}) /\ Cardinality(CodeRequests \ {r}) = Cardinality(CodeRequests) - 1
        BY FS_RemoveElement DEF CodesAssumption
    <2> QED
        BY <2>1, <2>2, FS_Subset
<1>13. GuessesBounded'
    <2>1. code[c].tries \in Nat /\ guesses[c] = code[c].tries + Cardinality(Comparing(c))
        BY <1>1 DEF Counted, CodesTypeOK
    <2>2. \A d \in Codes : guesses'[d] = IF at # "burn" /\ d = c THEN guesses[d] + 1 ELSE guesses[d]
        BY <1>3 DEF CodesTypeOK
    <2>3. at # "burn" => guesses[c] + 1 <= MaxAttempts + Cardinality(CodeRequests) - 1
        BY <1>3, <1>12, <2>1, ComparingFinite DEF CodesAssumption
    <2> QED
        BY <1>6, <2>2, <2>3 DEF GuessesBounded
<1> QED
    BY <1>5, <1>7, <1>11, <1>13, <1>14

\* A comparison is written down: the count, or the row is consumed.
LEMMA WriteInv ==
    ASSUME CodesAssumption, CodesIInv, NEW r \in CodeRequests,
           IncrementOtpAttempts(r) \/ ClaimOtp(r)
    PROVE  CodesIInv'
<1> USE DEF CodesIInv
<1>0. creq[r].at \in {"count", "claim", "burn"} /\ creq[r].row \in Codes
    <2>1. creq[r] \in Asking /\ creq[r].at \in {"count", "claim", "burn"}
        BY DEF IncrementOtpAttempts, ClaimOtp
    <2> QED
        BY <2>1 DEF Asking, NotAsking
<1>1. PICK c \in Codes, Count \in BOOLEAN :
      /\ creq[r].at \in {"count", "claim", "burn"} /\ c = creq[r].row
      /\ Count <=> creq[r].at = "count"
      /\ creq' = [creq EXCEPT ![r] = NotAsking]
      /\ UNCHANGED <<guesses, crossed>>
      /\ IncrementOtpAttempts(r) <=> Count
      /\ code[c].st # "none"
    BY <1>0 DEF Slots, Sent, IncrementOtpAttempts, ClaimOtp
<1>2. /\ code' \in [Codes -> [st : {"none", "active", "lapsed", "consumed"}, tries : Nat, recent : BOOLEAN]]
      /\ \A d \in Codes : code'[d].st = IF d = c /\ ~ Count /\ Unconsumed(c) THEN "consumed" ELSE code[d].st
      /\ \A d \in Codes : code'[d].tries = IF d = c /\ Count THEN code[d].tries + 1 ELSE code[d].tries
    <2> code \in [Codes -> [st : {"none", "active", "lapsed", "consumed"}, tries : Nat, recent : BOOLEAN]]
        BY DEF CodesTypeOK
    <2>1. CASE Count
        <3>1. code' = [code EXCEPT ![c].tries = @ + 1]
            BY <1>1, <2>1 DEF IncrementOtpAttempts, OneMoreTry
        <3> QED
            BY <2>1, <3>1
    <2>2. CASE ~ Count
        <3>1. code' = IF Unconsumed(c) THEN [code EXCEPT ![c].st = "consumed"] ELSE code
            BY <1>1, <2>2 DEF ClaimOtp
        <3> QED
            BY <2>2, <3>1 DEF Unconsumed
    <2> QED
        BY <1>1, <2>1, <2>2
<1>3. /\ accepted' \in [Codes -> Nat]
      /\ \A d \in Codes : accepted'[d] = accepted[d]
                          \/ (d = c /\ ~ Count /\ Unconsumed(c) /\ accepted'[d] = accepted[d] + 1)
    BY <1>1 DEF IncrementOtpAttempts, ClaimOtp, CodesTypeOK
<1>4. \A q \in CodeRequests : creq'[q] = IF q = r THEN NotAsking ELSE creq[q]
    BY <1>1
<1>5. CodesTypeOK' /\ (creq \in [CodeRequests -> Asking])'
    <2>1. creq' \in [CodeRequests -> Asking]
        BY <1>1 DEF Asking
    <2> QED
        BY <1>1, <1>2, <1>3, <2>1 DEF CodesTypeOK, Asking, Codes
<1>6. /\ Codes' = Codes /\ Sent' = Sent
      /\ \A d \in Codes : code[d].st = "consumed" => code'[d].st = "consumed"
    BY <1>1, <1>2 DEF Sent, Codes, Unconsumed
<1>7. CodeUsedOnce'
    BY <1>2, <1>3, <1>6 DEF CodeUsedOnce, Unconsumed, CodesTypeOK
<1>8. GuessesBounded'
    BY <1>1, <1>6 DEF GuessesBounded
<1>9. ReplacedCodesDie' /\ Rotations'
    BY <1>1, <1>4, <1>6 DEF ReplacedCodesDie, Rotations, Sent, NotAsking
<1>10. Slots'
    <2>1. \A d \in Codes : code'[d].st = "none" => code'[d].tries = 0
        BY <1>1, <1>2 DEF Slots
    <2> QED
        BY <1>4, <1>6, <2>1 DEF Slots, NotAsking
<1>11. Counted'
    <2>1. \A d \in Codes : Comparing(d)' = Comparing(d) \ {r}
        BY <1>4 DEF Comparing, NotAsking
    <2>2. \A d \in Codes : d # c => Comparing(d)' = Comparing(d)
        BY <1>1, <2>1 DEF Comparing
    <2>3. Count => r \in Comparing(c)
        BY <1>1 DEF Comparing
    <2>4. Count => Cardinality(Comparing(c)') = Cardinality(Comparing(c)) - 1
        BY <1>1, <2>1, <2>3, ComparingFinite, FS_RemoveElement
    <2>5. ~ Count => code'[c].st = "consumed"
        BY <1>1, <1>2 DEF Unconsumed, CodesTypeOK
    <2>6. ASSUME NEW d \in Codes, d # c, code'[d].st # "consumed"
          PROVE  guesses'[d] = code'[d].tries + Cardinality(Comparing(d)')
        BY <1>1, <1>2, <2>2, <2>6 DEF Counted, CodesTypeOK
    <2>7. ASSUME code'[c].st # "consumed"
          PROVE  guesses'[c] = code'[c].tries + Cardinality(Comparing(c)')
        BY <1>1, <1>2, <2>4, <2>5, <2>7, ComparingFinite DEF Counted, CodesTypeOK
    <2> QED
        BY <1>6, <2>6, <2>7, Zenon DEF Counted
<1> QED
    BY <1>5, <1>7, <1>8, <1>9, <1>10, <1>11

\* Every step keeps the invariant.
LEMMA CodesNextInv ==
    ASSUME CodesAssumption, CodesIInv, [CodesNext]_codeVars
    PROVE  CodesIInv'
<1> USE DEF CodesIInv
<1> DEFINE Rows == [Codes -> [st : {"none", "active", "lapsed", "consumed"}, tries : Nat, recent : BOOLEAN]]
<1>1. code \in Rows /\ crossed \in BOOLEAN
    BY DEF CodesTypeOK
<1>2. CASE UNCHANGED codeVars
    <2>1. Rotations'
        BY <1>2 DEF codeVars, Rotations, Sent, Codes
    <2> QED
        BY <1>1, <1>2, <2>1, QuietInv DEF codeVars
<1>3. ASSUME NEW r \in CodeRequests, FindRecentOtp(r) PROVE CodesIInv'
    <2>1. /\ creq[r] = NotAsking /\ creq' = [creq EXCEPT ![r] = [at |-> "rotate"]]
          /\ UNCHANGED <<code, guesses, accepted, crossed>>
        BY <1>3 DEF FindRecentOtp
    <2>2. \A q \in CodeRequests : creq'[q] = IF q = r THEN [at |-> "rotate"] ELSE creq[q]
        BY <2>1
    <2>3. Rotations'
        BY <2>1, <2>2 DEF Rotations, Sent, Codes
    <2>4. creq' \in [CodeRequests -> Asking]
        BY <2>1 DEF Asking
    <2> QED
        BY <1>1, <2>1, <2>2, <2>3, <2>4, QuietInv DEF NotAsking
<1>4. ASSUME NEW r \in CodeRequests, ConsumeOlder(r) PROVE CodesIInv'
    <2> DEFINE older == {c \in Codes : code[c].st \in {"active", "lapsed"}}
    <2>1. /\ creq[r].at = "rotate" /\ creq' = [creq EXCEPT ![r] = [at |-> "insert", older |-> older]]
          /\ crossed' = (crossed \/ \E q \in CodeRequests : creq[q].at = "insert")
          /\ UNCHANGED <<code, guesses, accepted>>
        BY <1>4 DEF ConsumeOlder
    <2>2. \A q \in CodeRequests : creq'[q] = IF q = r THEN [at |-> "insert", older |-> older] ELSE creq[q]
        BY <2>1
    <2>3. \A c \in Sent : c \in older \/ code[c].st = "consumed"
        BY <1>1 DEF Sent
    <2>4. Rotations'
        BY <2>1, <2>2, <2>3 DEF Rotations, Sent, Codes
    <2>5. creq' \in [CodeRequests -> Asking]
        BY <2>1 DEF Asking
    <2>6. older \subseteq Sent
        BY DEF Sent
    <2> QED
        BY <1>1, <2>1, <2>2, <2>4, <2>5, <2>6, QuietInv
<1>5. ASSUME NEW r \in CodeRequests, StoreCode(r) PROVE CodesIInv'
    BY <1>5, StoreInv
<1>6. ASSUME NEW r \in CodeRequests, FindActiveOtp(r) PROVE CodesIInv'
    BY <1>6, FindActiveInv
<1>7. ASSUME NEW r \in CodeRequests, IncrementOtpAttempts(r) \/ ClaimOtp(r) PROVE CodesIInv'
    BY <1>7, WriteInv
<1>8. ASSUME NEW c \in Codes, CoolDown(c) \/ LapseCode(c) PROVE CodesIInv'
    <2>1. UNCHANGED <<creq, guesses, accepted, crossed>>
        BY <1>8 DEF CoolDown, LapseCode
    <2>2. /\ code' \in Rows
          /\ \A d \in Codes : /\ code'[d].tries = code[d].tries
                              /\ code'[d].st = "none" <=> code[d].st = "none"
                              /\ code'[d].st = "consumed" <=> code[d].st = "consumed"
        <3>1. CASE CoolDown(c)
            BY <1>1, <3>1 DEF CoolDown
        <3>2. CASE LapseCode(c)
            BY <1>1, <3>2 DEF LapseCode
        <3> QED
            BY <1>8, <3>1, <3>2
    <2>3. Rotations'
        BY <2>1, <2>2 DEF Rotations, Sent, Codes
    <2> QED
        BY <1>1, <2>1, <2>2, <2>3, QuietInv
<1> QED
    BY <1>2, <1>3, <1>4, <1>5, <1>6, <1>7, <1>8 DEF CodesNext

(***************************************************************************)
(* One code lets one request in, requests that race on it get through one  *)
(* guess each beyond the limit and no more, and a code that was replaced   *)
(* is consumed unless two rotations overlapped                             *)
(* (docs/api/http-api-reference.md:158, db/auth.rs).                       *)
(***************************************************************************)
THEOREM CodesInvariant == CodesSpec => []CodesInv
<1>1. CodesInit => CodesIInv
    BY CodesAssumption, CodesInitInv
<1>2. CodesIInv /\ [CodesNext]_codeVars => CodesIInv'
    BY CodesAssumption, CodesNextInv
<1>3. CodesIInv => CodesInv
    BY DEF CodesIInv, CodesInv
<1> QED
    BY <1>1, <1>2, <1>3, PTL DEF CodesSpec

-------------------------------------------------------------------------------
(***************************************************************************)
(* OAuthGrants.                                                            *)
(***************************************************************************)
\* Requests past the look at code c, of which each will mint a token.
Minting(c) == {r \in OAuthRequests : oreq[r].at \in {"mark", "mint"} /\ oreq[r].code = c}

\* A code that may still be exchanged has not been; one that was read by one
\* exchange alone has one token at most, minted or to be minted.
Exchanges ==
    /\ \A r \in OAuthRequests : oreq[r].at \in {"consent", "app", "mark", "mint"} => oreq[r].code \in Grants
    /\ \A c \in Grants : grant[c] \in {"none", "fresh"} =>
          Minted(c) = {} /\ \A r \in OAuthRequests : ~ (oreq[r].at = "mint" /\ oreq[r].code = c)
    /\ \A c \in Grants \ raced :
          /\ \A q, r \in Minting(c) : q = r
          /\ Minting(c) # {} => Minted(c) = {}

Good == {t \in Bearers : bearer[t].st = "good"}

\* Nothing can become or stay a token once the consent is revoked.
NothingLeft ==
    /\ \A c \in Grants : grant[c] # "fresh" /\ Minting(c) = {}
    /\ Good = {} \/ Stage("tokens") # {}

Consents ==
    /\ app = "deleted" => Good = {} /\ ~ consent
    /\ app = "active" => leftOver \/ consent \/ Stage("consent") # {} \/ NothingLeft

\* The inductive invariant.
OAuthIInv == OAuthTypeOK /\ ExchangedOnceUnlessRaced /\ Exchanges /\ Consents

-------------------------------------------------------------------------------
\* No code, no token, no consent and no request.
LEMMA OAuthInitInv ==
    ASSUME OAuthAssumption, OAuthInit PROVE OAuthIInv
<1> USE DEF OAuthInit, NotBusy
<1>1. OAuthTypeOK
    BY DEF OAuthTypeOK
<1>2. \A c \in Grants : Minted(c) = {} /\ Minting(c) = {}
    BY DEF Minted, Minting, OAuthAssumption
<1>3. ExchangedOnceUnlessRaced /\ Exchanges
    BY <1>2 DEF ExchangedOnceUnlessRaced, Exchanges
<1>4. Good = {}
    BY DEF Good
<1>5. Consents
    BY <1>2, <1>4 DEF Consents, NothingLeft
<1> QED
    BY <1>1, <1>3, <1>5 DEF OAuthIInv

\* A step of one request that does not mint.
LEMMA ExchangeKept ==
    ASSUME OAuthIInv, NEW r \in OAuthRequests,
           NEW at \in {"idle", "consent", "app", "mark", "mint", "tokens"},
           NEW c \in Grants \cup {NoGrant},
           oreq' = [oreq EXCEPT ![r] = [at |-> at, code |-> c]],
           at \in {"consent", "app", "mark", "mint"} => c \in Grants,
           grant' \in [Grants -> {"none", "fresh", "used", "lapsed", "deleted"}],
           \A g \in Grants : grant'[g] \in {"none", "fresh"} => grant[g] \in {"none", "fresh"},
           at = "mint" => oreq[r].at = "mark" /\ oreq[r].code = c /\ grant'[c] \notin {"none", "fresh"},
           at = "mark" => grant[c] = "fresh" /\ (c \in raced' \/ Minting(c) = {}),
           \A t \in Bearers : bearer'[t].code = bearer[t].code,
           raced \subseteq raced'
    PROVE  ExchangedOnceUnlessRaced' /\ Exchanges'
<1> USE DEF OAuthIInv
<1>1. \A q \in OAuthRequests : oreq'[q] = IF q = r THEN [at |-> at, code |-> c] ELSE oreq[q]
    BY DEF OAuthTypeOK
<1>2. \A g \in Grants : Minted(g)' = Minted(g)
    BY DEF Minted
<1>3. \A g \in Grants : Minting(g)' \subseteq IF at = "mark" /\ g = c THEN Minting(g) \cup {r} ELSE Minting(g)
    BY <1>1 DEF Minting
<1>4. ExchangedOnceUnlessRaced'
    BY <1>2 DEF ExchangedOnceUnlessRaced
<1>5. Exchanges'
    <2>1. \A q \in OAuthRequests : oreq'[q].at \in {"consent", "app", "mark", "mint"} => oreq'[q].code \in Grants
        BY <1>1 DEF Exchanges
    <2>2. ASSUME NEW g \in Grants, grant'[g] \in {"none", "fresh"}
          PROVE  Minted(g)' = {} /\ \A q \in OAuthRequests : ~ (oreq'[q].at = "mint" /\ oreq'[q].code = g)
        BY <1>1, <1>2, <2>2 DEF Exchanges
    <2>3. ASSUME NEW g \in Grants \ raced'
          PROVE  /\ \A p, q \in Minting(g)' : p = q
                 /\ Minting(g)' # {} => Minted(g)' = {}
        <3>1. CASE at = "mark" /\ g = c
            <4>1. Minting(g)' \subseteq {r} /\ Minted(g)' = {}
                BY <1>2, <1>3, <2>3, <3>1 DEF Exchanges
            <4> QED
                BY <4>1
        <3>2. CASE ~ (at = "mark" /\ g = c)
            BY <1>2, <1>3, <2>3, <3>2 DEF Exchanges
        <3> QED
            BY <3>1, <3>2
    <2> QED
        BY <2>1, <2>2, <2>3 DEF Exchanges
<1> QED
    BY <1>4, <1>5

\* A step of one request that leaves the application and keeps what consent
\* there is; only a code that is fresh is read for a token.
LEMMA ConsentsKept ==
    ASSUME OAuthIInv, NEW r \in OAuthRequests,
           NEW at \in {"idle", "app", "mark", "mint"}, NEW c \in Grants \cup {NoGrant},
           oreq' = [oreq EXCEPT ![r] = [at |-> at, code |-> c]],
           oreq[r].at \notin {"consent", "tokens"},
           app' = app, consent' = consent, leftOver' = leftOver,
           \A g \in Grants : grant'[g] = "fresh" => grant[g] = "fresh",
           at \in {"mark", "mint"} => c \in Grants /\ (grant[c] = "fresh" \/ Minting(c) # {}),
           Good' = Good \/ (app = "active" /\ \E g \in Grants : Minting(g) # {})
    PROVE  Consents'
<1> USE DEF OAuthIInv
<1>1. \A q \in OAuthRequests : oreq'[q] = IF q = r THEN [at |-> at, code |-> c] ELSE oreq[q]
    BY DEF OAuthTypeOK
<1>2. Stage("consent")' = Stage("consent") /\ Stage("tokens")' = Stage("tokens")
    BY <1>1 DEF Stage
<1>3. NothingLeft => NothingLeft'
    <2> SUFFICES ASSUME NothingLeft PROVE NothingLeft'
        OBVIOUS
    <2>1. at \notin {"mark", "mint"} /\ Good' = Good
        BY DEF NothingLeft
    <2>2. \A g \in Grants : Minting(g)' \subseteq Minting(g)
        BY <1>1, <2>1 DEF Minting
    <2> QED
        BY <1>2, <2>1, <2>2 DEF NothingLeft
<1> QED
    BY <1>2, <1>3 DEF Consents

\* A code is given, and the consent is about to be.
LEMMA AuthorizeSubmitInv ==
    ASSUME OAuthIInv, NEW r \in OAuthRequests, AuthorizeSubmit(r) PROVE OAuthIInv'
<1> USE DEF OAuthIInv
<1>1. PICK c \in Grants : /\ grant[c] = "none" /\ grant' = [grant EXCEPT ![c] = "fresh"]
                          /\ oreq' = [oreq EXCEPT ![r] = [at |-> "consent", code |-> c]]
    BY DEF AuthorizeSubmit, At
<1>2. OAuthTypeOK'
    BY <1>1 DEF AuthorizeSubmit, OAuthTypeOK
<1>3. ExchangedOnceUnlessRaced' /\ Exchanges'
    <2>1. \A g \in Grants : grant'[g] \in {"none", "fresh"} => grant[g] \in {"none", "fresh"}
        BY <1>1 DEF OAuthTypeOK
    <2> QED
        BY <1>1, <1>2, <2>1, ExchangeKept DEF AuthorizeSubmit, OAuthTypeOK
<1>4. Consents'
    <2>1. r \in Stage("consent")'
        BY <1>1 DEF Stage, OAuthTypeOK
    <2> QED
        BY <2>1 DEF Consents, AuthorizeSubmit
<1> QED
    BY <1>2, <1>3, <1>4

\* The consent, if the application is still there.
LEMMA RecordConsentInv ==
    ASSUME OAuthAssumption, OAuthIInv, NEW r \in OAuthRequests, RecordConsent(r) PROVE OAuthIInv'
<1> USE DEF OAuthIInv
<1>1. oreq' = [oreq EXCEPT ![r] = [at |-> "idle", code |-> NoGrant]]
    BY DEF RecordConsent, Done, NotBusy
<1>2. OAuthTypeOK'
    BY <1>1 DEF RecordConsent, OAuthTypeOK
<1>3. ExchangedOnceUnlessRaced' /\ Exchanges'
    BY <1>1, <1>2, ExchangeKept DEF RecordConsent, OAuthTypeOK
<1>4. Consents'
    BY DEF Consents, RecordConsent, Good
<1> QED
    BY <1>2, <1>3, <1>4

\* The steps of an exchange up to its token.
LEMMA ExchangeInv ==
    ASSUME OAuthAssumption, OAuthIInv, NEW r \in OAuthRequests,
           (\E c \in Grants : FetchApp(r, c)) \/ ReadCode(r) \/ MarkCodeUsed(r)
    PROVE  OAuthIInv'
<1> USE DEF OAuthIInv
<1>0. Good' = Good
    BY DEF Good, FetchApp, ReadCode, MarkCodeUsed
<1>1. CASE \E c \in Grants : FetchApp(r, c)
    <2>1. PICK c \in Grants : FetchApp(r, c)
        BY <1>1
    <2>2. oreq' = [oreq EXCEPT ![r] = [at |-> "app", code |-> c]]
        BY <2>1 DEF FetchApp, At
    <2>3. OAuthTypeOK'
        BY <2>1, <2>2 DEF FetchApp, OAuthTypeOK
    <2>4. ExchangedOnceUnlessRaced' /\ Exchanges'
        BY <2>1, <2>2, <2>3, ExchangeKept DEF FetchApp, OAuthTypeOK
    <2>5. Consents'
        <3>1. /\ oreq[r].at \notin {"consent", "tokens"} /\ app' = app /\ consent' = consent
              /\ leftOver' = leftOver /\ \A g \in Grants : grant'[g] = "fresh" => grant[g] = "fresh"
            BY <2>1 DEF FetchApp, NotBusy
        <3> HIDE DEF OAuthIInv
        <3> QED
            BY <1>0, <2>2, <3>1, ConsentsKept
    <2> QED
        BY <2>3, <2>4, <2>5
<1>2. CASE ReadCode(r)
    <2> DEFINE c == oreq[r].code
    <2>1. c \in Grants
        BY <1>2 DEF ReadCode, Exchanges
    <2>2. CASE grant[c] = "fresh"
        <3>1. /\ oreq' = [oreq EXCEPT ![r] = [at |-> "mark", code |-> c]]
              /\ raced' = IF \E q \in Stage("mark") : oreq[q].code = c THEN raced \cup {c} ELSE raced
            BY <1>2, <2>2 DEF ReadCode, At
        <3>2. OAuthTypeOK'
            BY <1>2, <2>1, <3>1 DEF ReadCode, OAuthTypeOK
        <3>3. c \in raced' \/ Minting(c) = {}
            BY <2>1, <2>2, <3>1 DEF Exchanges, Minting, Stage
        <3>4. ExchangedOnceUnlessRaced' /\ Exchanges'
            <4>1. /\ bearer' = bearer /\ grant' = grant /\ raced \subseteq raced'
                  /\ grant \in [Grants -> {"none", "fresh", "used", "lapsed", "deleted"}]
                BY <1>2, <3>1 DEF ReadCode, OAuthTypeOK
            <4> HIDE DEF OAuthIInv
            <4> QED
                BY <2>1, <2>2, <3>1, <3>3, <4>1, ExchangeKept
        <3>5. Consents'
            <4>1. /\ oreq[r].at \notin {"consent", "tokens"} /\ app' = app /\ consent' = consent
                  /\ leftOver' = leftOver /\ \A g \in Grants : grant'[g] = "fresh" => grant[g] = "fresh"
                BY <1>2 DEF ReadCode
            <4> HIDE DEF OAuthIInv
            <4> QED
                BY <1>0, <2>1, <2>2, <3>1, <4>1, ConsentsKept
        <3> QED
            BY <3>2, <3>4, <3>5
    <2>3. CASE grant[c] # "fresh"
        <3>1. oreq' = [oreq EXCEPT ![r] = [at |-> "idle", code |-> NoGrant]] /\ raced' = raced
            BY <1>2, <2>3 DEF ReadCode, Done, NotBusy
        <3>2. OAuthTypeOK'
            BY <1>2, <3>1 DEF ReadCode, OAuthTypeOK
        <3>3. ExchangedOnceUnlessRaced' /\ Exchanges'
            BY <1>2, <3>1, <3>2, ExchangeKept DEF ReadCode, OAuthTypeOK
        <3>4. Consents'
            <4>1. /\ oreq[r].at \notin {"consent", "tokens"} /\ app' = app /\ consent' = consent
                  /\ leftOver' = leftOver /\ \A g \in Grants : grant'[g] = "fresh" => grant[g] = "fresh"
                BY <1>2 DEF ReadCode
            <4> HIDE DEF OAuthIInv
            <4> QED
                BY <1>0, <3>1, <4>1, ConsentsKept
        <3> QED
            BY <3>2, <3>3, <3>4
    <2> QED
        BY <2>2, <2>3
<1>3. CASE MarkCodeUsed(r)
    <2> DEFINE c == oreq[r].code
    <2>1. c \in Grants
        BY <1>3 DEF MarkCodeUsed, Exchanges
    <2>2. /\ oreq' = [oreq EXCEPT ![r] = [at |-> "mint", code |-> c]]
          /\ grant' = [grant EXCEPT ![c] = IF @ = "deleted" THEN @ ELSE "used"]
        BY <1>3 DEF MarkCodeUsed, At, UsedNow
    <2>3. OAuthTypeOK'
        BY <1>3, <2>1, <2>2 DEF MarkCodeUsed, OAuthTypeOK
    <2>4. /\ grant'[c] \notin {"none", "fresh"}
          /\ \A g \in Grants : grant'[g] \in {"none", "fresh"} => grant[g] = grant'[g]
        BY <2>1, <2>2 DEF OAuthTypeOK
    <2>5. ExchangedOnceUnlessRaced' /\ Exchanges'
        BY <1>3, <2>1, <2>2, <2>3, <2>4, ExchangeKept DEF MarkCodeUsed, OAuthTypeOK
    <2>6. r \in Minting(c)
        BY <1>3 DEF MarkCodeUsed, Minting
    <2>7. Consents'
        BY <1>0, <1>3, <2>1, <2>2, <2>4, <2>6, ConsentsKept DEF MarkCodeUsed
    <2> QED
        BY <2>3, <2>5, <2>7
<1> QED
    BY <1>1, <1>2, <1>3

\* The token of an exchange: the only one of its code, unless raced.
LEMMA MintTokenInv ==
    ASSUME OAuthAssumption, OAuthIInv, NEW r \in OAuthRequests, MintToken(r) PROVE OAuthIInv'
<1> USE DEF OAuthIInv
<1> DEFINE c == oreq[r].code
<1>1. oreq' = [oreq EXCEPT ![r] = [at |-> "idle", code |-> NoGrant]]
    BY DEF MintToken, Done, NotBusy
<1>2. c \in Grants /\ r \in Minting(c)
    BY DEF MintToken, Exchanges, Minting
<1>3. OAuthTypeOK'
    BY <1>1, <1>2 DEF MintToken, OAuthTypeOK
<1>4. CASE app # "active"
    <2>1. bearer' = bearer
        BY <1>4 DEF MintToken
    <2>2. ExchangedOnceUnlessRaced' /\ Exchanges'
        BY <1>1, <1>3, <2>1, ExchangeKept DEF MintToken, OAuthTypeOK
    <2>3. Consents'
        <3>1. /\ oreq[r].at \notin {"consent", "tokens"} /\ app' = app /\ consent' = consent
              /\ leftOver' = leftOver /\ \A g \in Grants : (grant'[g] = "fresh" => grant[g] = "fresh")
              /\ Good' = Good
            BY <2>1 DEF MintToken, Good
        <3> HIDE DEF OAuthIInv
        <3> QED
            BY <1>1, <3>1, ConsentsKept
    <2> QED
        BY <1>3, <2>2, <2>3
<1>5. CASE app = "active"
    <2>1. PICK t \in Bearers : /\ bearer[t].st = "none"
                               /\ bearer' = [bearer EXCEPT ![t] = [st |-> "good", code |-> c]]
        BY <1>5 DEF MintToken
    <2>2. \A u \in Bearers : bearer'[u] = IF u = t THEN [st |-> "good", code |-> c] ELSE bearer[u]
        BY <2>1 DEF OAuthTypeOK
    <2>3. \A g \in Grants : Minted(g)' \subseteq IF g = c THEN Minted(g) \cup {t} ELSE Minted(g)
        BY <2>2 DEF Minted
    <2>4. \A q \in OAuthRequests : oreq'[q] = IF q = r THEN [at |-> "idle", code |-> NoGrant] ELSE oreq[q]
        BY <1>1 DEF OAuthTypeOK
    <2>5. \A g \in Grants : Minting(g)' = Minting(g) \ {r}
        BY <2>4 DEF Minting
    <2>6. c \notin raced => Minted(c) = {} /\ Minting(c) = {r}
        BY <1>2 DEF Exchanges
    <2>7. raced' = raced /\ grant' = grant
        BY DEF MintToken
    <2>8. ExchangedOnceUnlessRaced'
        <3> SUFFICES ASSUME NEW g \in Grants \ raced PROVE \A u, v \in Minted(g)' : u = v
            BY <2>7 DEF ExchangedOnceUnlessRaced
        <3>1. CASE g = c
            BY <2>3, <2>6, <3>1
        <3>2. CASE g # c
            BY <2>3, <3>2 DEF ExchangedOnceUnlessRaced
        <3> QED
            BY <3>1, <3>2
    <2>9. Exchanges'
        <3>1. \A q \in OAuthRequests : oreq'[q].at \in {"consent", "app", "mark", "mint"} => oreq'[q].code \in Grants
            BY <2>4 DEF Exchanges
        <3>2. grant[c] \notin {"none", "fresh"}
            BY <1>2 DEF Exchanges, MintToken
        <3>3. ASSUME NEW g \in Grants, grant'[g] \in {"none", "fresh"}
              PROVE  Minted(g)' = {} /\ \A q \in OAuthRequests : ~ (oreq'[q].at = "mint" /\ oreq'[q].code = g)
            BY <2>3, <2>4, <2>7, <3>2, <3>3 DEF Exchanges
        <3>4. ASSUME NEW g \in Grants \ raced'
              PROVE  /\ \A p, q \in Minting(g)' : p = q
                     /\ Minting(g)' # {} => Minted(g)' = {}
            <4>1. CASE g = c
                BY <2>5, <2>6, <2>7, <3>4, <4>1
            <4>2. CASE g # c
                BY <2>3, <2>5, <2>7, <3>4, <4>2 DEF Exchanges
            <4> QED
                BY <4>1, <4>2
        <3> QED
            BY <3>1, <3>3, <3>4 DEF Exchanges
    <2>10. Consents'
        BY <1>1, <1>2, <1>5, ConsentsKept DEF MintToken
    <2> QED
        BY <1>3, <2>8, <2>9, <2>10
<1> QED
    BY <1>4, <1>5

\* What is left when the consent goes is on record; the tokens are next.
LEMMA RevokeConsentInv ==
    ASSUME OAuthAssumption, OAuthIInv, NEW r \in OAuthRequests, RevokeConsent(r) PROVE OAuthIInv'
<1> USE DEF OAuthIInv
<1>1. oreq' = [oreq EXCEPT ![r] = [at |-> "tokens", code |-> NoGrant]]
    BY DEF RevokeConsent, At
<1>2. OAuthTypeOK'
    BY <1>1 DEF RevokeConsent, OAuthTypeOK
<1>3. ExchangedOnceUnlessRaced' /\ Exchanges'
    BY <1>1, <1>2, ExchangeKept DEF RevokeConsent, OAuthTypeOK
<1>4. Good' = Good
    BY DEF Good, RevokeConsent
<1>5. \A q \in OAuthRequests : oreq'[q] = IF q = r THEN [at |-> "tokens", code |-> NoGrant] ELSE oreq[q]
    BY <1>1 DEF OAuthTypeOK
<1>6. leftOver' \/ NothingLeft'
    <2> SUFFICES ASSUME ~ leftOver' PROVE NothingLeft'
        OBVIOUS
    <2>1. Exchanging = {} /\ \A g \in Grants : grant'[g] # "fresh"
        BY DEF RevokeConsent
    <2>2. \A g \in Grants : Minting(g)' = {}
        BY <1>5, <2>1 DEF Minting, Exchanging, Stage
    <2>3. r \in Stage("tokens")'
        BY <1>5 DEF Stage
    <2> QED
        BY <2>1, <2>2, <2>3 DEF NothingLeft
<1>7. Consents'
    BY <1>4, <1>6 DEF Consents, RevokeConsent
<1> QED
    BY <1>2, <1>3, <1>7

\* No token there is stays good.
LEMMA RevokeTokensInv ==
    ASSUME OAuthAssumption, OAuthIInv, NEW r \in OAuthRequests, RevokeTokens(r) PROVE OAuthIInv'
<1> USE DEF OAuthIInv
<1>1. oreq' = [oreq EXCEPT ![r] = [at |-> "idle", code |-> NoGrant]]
    BY DEF RevokeTokens, Done, NotBusy
<1>2. \A t \in Bearers : bearer'[t].st # "good" /\ bearer'[t].code = bearer[t].code
    BY DEF RevokeTokens, TokensRevoked, OAuthTypeOK
<1>3. OAuthTypeOK'
    BY <1>1 DEF RevokeTokens, TokensRevoked, OAuthTypeOK
<1>4. ExchangedOnceUnlessRaced' /\ Exchanges'
    BY <1>1, <1>2, <1>3, ExchangeKept DEF RevokeTokens, OAuthTypeOK
<1>5. Good' = {}
    BY <1>2 DEF Good
<1>6. \A q \in OAuthRequests : oreq'[q] = IF q = r THEN [at |-> "idle", code |-> NoGrant] ELSE oreq[q]
    BY <1>1 DEF OAuthTypeOK
<1>7. /\ Stage("consent")' = Stage("consent")
      /\ \A g \in Grants : Minting(g)' \subseteq Minting(g)
    BY <1>6 DEF Stage, Minting, RevokeTokens
<1>8. Consents'
    BY <1>5, <1>7 DEF Consents, NothingLeft, RevokeTokens
<1> QED
    BY <1>3, <1>4, <1>8

\* The application goes with its rows, or a code or a token lapses.
LEMMA RowsFadeInv ==
    ASSUME OAuthIInv,
           \/ DeleteApplication
           \/ \E c \in Grants : LapseGrant(c)
           \/ \E t \in Bearers : LapseToken(t)
    PROVE  OAuthIInv'
<1> USE DEF OAuthIInv
<1>1. oreq' = oreq /\ raced' = raced /\ leftOver' = leftOver
    BY DEF DeleteApplication, LapseGrant, LapseToken
<1>2. OAuthTypeOK'
    <2>1. CASE DeleteApplication
        BY <1>1, <2>1 DEF DeleteApplication, OAuthTypeOK
    <2>2. CASE \E c \in Grants : LapseGrant(c)
        BY <1>1, <2>2 DEF LapseGrant, OAuthTypeOK
    <2>3. CASE \E t \in Bearers : LapseToken(t)
        <3>1. PICK t \in Bearers : LapseToken(t)
            BY <2>3
        <3> DEFINE rows == [st : {"none", "good", "revoked", "lapsed", "deleted"}, code : Grants \cup {NoGrant}]
        <3>2. bearer[t] \in rows /\ [bearer[t] EXCEPT !.st = "lapsed"] \in rows
            BY <3>1 DEF OAuthTypeOK
        <3>3. bearer' \in [Bearers -> rows]
            BY <3>1, <3>2 DEF LapseToken, OAuthTypeOK
        <3> QED
            BY <1>1, <3>1, <3>3 DEF LapseToken, OAuthTypeOK
    <2> QED
        BY <2>1, <2>2, <2>3
<1>3. \A g \in Grants : grant'[g] \in {"none", "fresh"} => grant'[g] = grant[g]
    BY DEF DeleteApplication, LapseGrant, LapseToken, OAuthTypeOK
<1>4. \A t \in Bearers : bearer'[t].code = bearer[t].code /\ (bearer'[t].st = "good" => bearer[t].st = "good")
    BY DEF DeleteApplication, LapseGrant, LapseToken, OAuthTypeOK
<1>5. /\ \A g \in Grants : Minted(g)' = Minted(g) /\ Minting(g)' = Minting(g)
      /\ Stage("consent")' = Stage("consent") /\ Stage("tokens")' = Stage("tokens")
      /\ Good' \subseteq Good
    BY <1>1, <1>4 DEF Minted, Minting, Stage, Good
<1>6. ExchangedOnceUnlessRaced'
    BY <1>1, <1>5 DEF ExchangedOnceUnlessRaced
<1>7. Exchanges'
    BY <1>1, <1>3, <1>5 DEF Exchanges
<1>8. NothingLeft => NothingLeft'
    BY <1>3, <1>5 DEF NothingLeft
<1>9. app' = "deleted" => Good' = {} /\ ~ consent'
    <2>1. CASE DeleteApplication
        BY <2>1 DEF DeleteApplication, Good, OAuthTypeOK
    <2>2. CASE ~ DeleteApplication
        BY <1>5, <2>2 DEF LapseGrant, LapseToken, Consents
    <2> QED
        BY <2>1, <2>2
<1>10. app' = "active" => leftOver' \/ consent' \/ Stage("consent")' # {} \/ NothingLeft'
    BY <1>1, <1>5, <1>8 DEF DeleteApplication, LapseGrant, LapseToken, Consents
<1>11. Consents'
    BY <1>9, <1>10 DEF Consents
<1> QED
    BY <1>2, <1>6, <1>7, <1>11

\* Nothing changes.
LEMMA StutterInv ==
    ASSUME OAuthIInv, UNCHANGED oauthVars PROVE OAuthIInv'
BY DEF OAuthIInv, oauthVars, OAuthTypeOK, ExchangedOnceUnlessRaced, Minted, Exchanges, Minting,
       Consents, NothingLeft, Good, Stage

\* Every step keeps the inductive invariant.
LEMMA OAuthNextInv ==
    ASSUME OAuthAssumption, OAuthIInv, [OAuthNext]_oauthVars PROVE OAuthIInv'
<1>1. ASSUME NEW r \in OAuthRequests, AuthorizeSubmit(r) PROVE OAuthIInv'
    BY <1>1, AuthorizeSubmitInv
<1>2. ASSUME NEW r \in OAuthRequests, RecordConsent(r) PROVE OAuthIInv'
    BY <1>2, RecordConsentInv
<1>3. ASSUME NEW r \in OAuthRequests,
             (\E c \in Grants : FetchApp(r, c)) \/ ReadCode(r) \/ MarkCodeUsed(r)
      PROVE  OAuthIInv'
    BY <1>3, ExchangeInv
<1>4. ASSUME NEW r \in OAuthRequests, MintToken(r) PROVE OAuthIInv'
    BY <1>4, MintTokenInv
<1>5. ASSUME NEW r \in OAuthRequests, RevokeConsent(r) PROVE OAuthIInv'
    BY <1>5, RevokeConsentInv
<1>6. ASSUME NEW r \in OAuthRequests, RevokeTokens(r) PROVE OAuthIInv'
    BY <1>6, RevokeTokensInv
<1>7. DeleteApplication \/ (\E c \in Grants : LapseGrant(c)) \/ (\E t \in Bearers : LapseToken(t)) => OAuthIInv'
    BY RowsFadeInv
<1>8. UNCHANGED oauthVars => OAuthIInv'
    BY StutterInv
<1> QED
    BY <1>1, <1>2, <1>3, <1>4, <1>5, <1>6, <1>7, <1>8 DEF OAuthNext

\* "O codigo e de uso unico" (http-api-reference.md:821), unless two exchanges
\* of db/oauth.rs read it together; "revoga o consentimento e invalida os
\* tokens" (http-api-reference.md:847), unless a code outlived the revocation.
THEOREM OAuthInvariant == OAuthSpec => []OAuthInv
<1>1. OAuthInit => OAuthIInv
    BY OAuthAssumption, OAuthInitInv
<1>2. OAuthIInv /\ [OAuthNext]_oauthVars => OAuthIInv'
    BY OAuthAssumption, OAuthNextInv
<1>3. OAuthIInv => OAuthInv
    <2> SUFFICES ASSUME OAuthIInv PROVE GoodTokensHaveConsent
        BY DEF OAuthIInv, OAuthInv
    <2>1. (\A t \in Bearers : bearer[t].st # "good") <=> Good = {}
        BY DEF Good
    <2> QED
        BY <2>1 DEF OAuthIInv, OAuthTypeOK, Consents, NothingLeft, GoodTokensHaveConsent
<1> QED
    BY <1>1, <1>2, <1>3, PTL DEF OAuthSpec

-------------------------------------------------------------------------------
(***************************************************************************)
(* Signed requests and sends.                                              *)
(***************************************************************************)
\* The nonce of a request lives as long as the window of its first arrival.
NoncesKept ==
    \A s \in Signed : Len(verified[s]) > 0 =>
        /\ stamp[s] # NotSigned
        /\ \/ [sig |-> s, seen |-> verified[s][1]] \in nonces
           \/ verified[s][1] < now - Skew

\* A send works with the wallet that its two readings gave, and no wallet of the
\* owner has gained since.
PicksHold ==
    \A h \in Handlers : call[h].at = "send" =>
        LET c == call[h] IN
        /\ \A w \in Pots : led.balance[w] <= c.saw[w]
        /\ c.saw[c.from] >= SendOf[c.sig] \/ \A w \in Pots : c.saw[w] < SendOf[c.sig]

ApiIInv ==
    /\ ApiTypeOK /\ NoncesKept /\ PicksHold /\ NeverReplayed /\ KeysPaidOnce /\ FundsAreFound
    /\ IsFiniteSet(sent) /\ led.hold = {}

\* The days of the run.
LEMMA DaysOfTheRun == ASSUME ApiAssumption, ApiTypeOK PROVE Day(now) \in 0..Day(MaxNow) /\ now \in Nat
<1>1. now \in Nat /\ now <= MaxNow /\ MaxNow \in Nat /\ DayLength \in Nat \ {0}
  BY DEF ApiAssumption, ApiTypeOK
<1>2. now \div DayLength \in Nat
  BY <1>1, DivNat
<1>3. MaxNow \div DayLength \in Nat
  BY <1>1, DivNat
<1>4. now \div DayLength <= MaxNow \div DayLength
  <2>1. PICK a, c, b : a = now /\ c = MaxNow /\ b = DayLength
    OBVIOUS
  <2>2. a \in Int /\ c \in Int /\ b \in Nat \ {0} /\ a <= c
    BY <1>1, <2>1
  <2>3. a \div b <= c \div b
    BY <2>2, DivMono
  <2> QED BY <2>1, <2>3
<1> QED BY <1>1, <1>2, <1>3, <1>4 DEF Day

\* The fields of a handler.
LEMMA CallFields ==
    ASSUME ApiTypeOK, NEW h \in Handlers
    PROVE  /\ call[h].at = "pick" => call[h] \in Picking
           /\ call[h].at = "send" => call[h] \in Sending
           /\ call[h].at \in {"idle", "pick", "send"}
<1>1. call[h] = Waiting \/ call[h] \in Picking \/ call[h] \in Sending
  BY DEF ApiTypeOK
<1>2. Waiting.at = "idle" /\ (\A c \in Picking : c.at = "pick") /\ (\A c \in Sending : c.at = "send")
  BY DEF Waiting, Picking, Sending
<1> QED BY <1>1, <1>2

\* Nothing was asked yet.
LEMMA ApiStarts == ASSUME ApiAssumption, ApiInit PROVE ApiIInv
<1>1. ApiTypeOK
  <2>1. NotSigned \in Int /\ 0 \in 0..MaxNow
    BY DEF NotSigned, ApiAssumption
  <2>2. led \in Ledgers
    BY DEF ApiInit, Ledgers, Keys, ApiAssumption
  <2>3. \A s \in Signed : verified[s] = <<>> /\ <<>> \in Seq(0..MaxNow)
    BY DEF ApiInit
  <2>4. verified \in [Signed -> Seq(0..MaxNow)] /\ stamp \in [Signed -> Int]
    BY <2>1, <2>3 DEF ApiInit
  <2> QED BY <2>1, <2>2, <2>4 DEF ApiInit, ApiTypeOK
<1>2. \A s \in Signed : Len(verified[s]) = 0
  BY DEF ApiInit
<1>3. NoncesKept /\ NeverReplayed
  BY <1>2 DEF NoncesKept, NeverReplayed
<1>4. PicksHold
  BY DEF ApiInit, PicksHold, Waiting
<1>5. KeysPaidOnce
  <2>1. \A d : {t \in sent : t.day = d} = {}
    BY DEF ApiInit
  <2>2. \A d : Cardinality({t \in sent : t.day = d}) = 0
    BY <2>1, FS_EmptySet
  <2> QED BY <2>2 DEF ApiInit, KeysPaidOnce, Transferred, ApiAssumption
<1>6. IsFiniteSet(sent) /\ FundsAreFound /\ led.hold = {}
  BY FS_EmptySet DEF ApiInit, FundsAreFound
<1> QED BY <1>1, <1>3, <1>4, <1>5, <1>6 DEF ApiIInv

\* A client signs.
LEMMA SignKeepsInv == ASSUME ApiAssumption, ApiIInv, NEW s \in Signed, Sign(s) PROVE ApiIInv'
<1> USE DEF ApiIInv
<1>1. PICK t \in now..(now + Ahead) : stamp' = [stamp EXCEPT ![s] = t]
  BY DEF Sign
<1>2. UNCHANGED <<led, now, keyOn, nonces, call, verified, quota, sent, misjudged>> /\ stamp[s] = NotSigned
  BY DEF Sign
<1>3. now \in Nat /\ t \in Nat
  BY <1>1, DaysOfTheRun DEF ApiAssumption
<1>4. \A r \in Signed \ {s} : stamp'[r] = stamp[r]
  BY <1>1 DEF ApiTypeOK
<1>5. Len(verified[s]) = 0
  <2>1. ~ Len(verified[s]) > 0
    BY <1>2 DEF NoncesKept
  <2> QED BY <2>1 DEF ApiTypeOK
<1>6. ApiTypeOK'
  BY <1>1, <1>2, <1>3 DEF ApiTypeOK
<1>7. NoncesKept' /\ NeverReplayed'
  <2>1. \A r \in Signed : Len(verified[r]) > 0 => r # s /\ stamp'[r] = stamp[r]
    BY <1>4, <1>5
  <2>2. \A r \in Signed : Len(verified[r]) > 1 => Len(verified[r]) > 0
    BY DEF ApiTypeOK
  <2> QED BY <1>2, <2>1, <2>2 DEF NoncesKept, NeverReplayed
<1>8. PicksHold' /\ KeysPaidOnce' /\ FundsAreFound'
  BY <1>2 DEF PicksHold, KeysPaidOnce, FundsAreFound, Transferred
<1> QED BY <1>2, <1>6, <1>7, <1>8

\* A handler moves, and nothing else.
LEMMA CallKeepsInv ==
    ASSUME ApiIInv, NEW h \in Handlers, NEW c \in {Waiting} \cup Picking \cup Sending,
           call' = [call EXCEPT ![h] = c],
           UNCHANGED <<led, now, keyOn, stamp, nonces, verified, quota, sent, misjudged>>,
           c.at = "send" =>
               /\ \A w \in Pots : led.balance[w] <= c.saw[w]
               /\ c.saw[c.from] >= SendOf[c.sig] \/ \A w \in Pots : c.saw[w] < SendOf[c.sig]
    PROVE  ApiIInv'
<1> USE DEF ApiIInv
<1>1. call'[h] = c /\ \A g \in Handlers \ {h} : call'[g] = call[g]
  BY DEF ApiTypeOK
<1>2. ApiTypeOK'
  BY DEF ApiTypeOK
<1>3. PicksHold'
  BY <1>1 DEF PicksHold
<1>4. NoncesKept' /\ NeverReplayed' /\ KeysPaidOnce' /\ FundsAreFound'
  BY DEF NoncesKept, NeverReplayed, KeysPaidOnce, FundsAreFound, Transferred
<1> QED BY <1>2, <1>3, <1>4

\* The key is sent itself.
LEMMA HashKeepsInv ==
    ASSUME ApiIInv, NEW h \in Handlers, NEW s \in Signed, AuthenticateByHash(h, s)
    PROVE  ApiIInv'
<1>1. PICK c : c = [at |-> "pick", sig |-> s]
  OBVIOUS
<1>2. c \in Picking /\ c.at = "pick"
  BY <1>1 DEF Picking
<1>3. call' = [call EXCEPT ![h] = c]
  BY <1>1 DEF AuthenticateByHash
<1> QED BY <1>2, <1>3, CallKeepsInv DEF AuthenticateByHash

\* A handler stops.
LEMMA StopKeepsInv ==
    ASSUME ApiIInv, NEW h \in Handlers, HandlerStops(h)
    PROVE  ApiIInv'
<1>1. Waiting.at = "idle"
  BY DEF Waiting
<1> QED BY <1>1, CallKeepsInv DEF HandlerStops

\* The wallet is picked.
LEMMA PickKeepsInv ==
    ASSUME ApiAssumption, ApiIInv, NEW h \in Handlers, PickFrom(h)
    PROVE  ApiIInv'
<1>1. call[h] \in Picking /\ call[h].sig \in Signed
  BY CallFields DEF PickFrom, ApiIInv, Picking
<1>2. PICK s, saw, from : s = call[h].sig /\ saw = [w \in Pots |-> led.balance[w]] /\ from = PickWallet(SendOf[s])
  OBVIOUS
<1>3. PICK c : c = [at |-> "send", sig |-> s, from |-> from, saw |-> saw]
  OBVIOUS
<1>4. call' = [call EXCEPT ![h] = c]
  BY <1>2, <1>3 DEF PickFrom
<1>5. \A w \in Pots : led.balance[w] \in Int /\ saw[w] = led.balance[w]
  BY <1>2 DEF ApiIInv, ApiTypeOK, Ledgers, ApiAssumption, Pots
<1>6. from \in Pots /\ SendOf[s] \in Nat
  BY <1>1, <1>2 DEF PickWallet, Pots, ApiAssumption
<1>7. c \in Sending /\ c.sig = s /\ c.from = from /\ c.saw = saw
  <2>1. saw \in [Pots -> Int]
    BY <1>2, <1>5
  <2> QED BY <1>1, <1>2, <1>3, <1>6, <2>1 DEF Sending
<1>8. saw[from] >= SendOf[s] \/ \A w \in Pots : saw[w] < SendOf[s]
  <2>1. CASE led.balance[MerchantPot] >= SendOf[s]
    BY <1>2, <1>5, <1>6, <2>1 DEF PickWallet, CoveredBy, Pots
  <2>2. CASE ~ led.balance[MerchantPot] >= SendOf[s] /\ led.balance[DeveloperPot] >= SendOf[s]
    BY <1>2, <1>5, <1>6, <2>2 DEF PickWallet, CoveredBy, Pots
  <2>3. CASE ~ led.balance[MerchantPot] >= SendOf[s] /\ ~ led.balance[DeveloperPot] >= SendOf[s]
    BY <1>5, <1>6, <2>3 DEF Pots
  <2> QED BY <2>1, <2>2, <2>3
<1>9. UNCHANGED <<led, now, keyOn, stamp, nonces, verified, quota, sent, misjudged>>
  BY DEF PickFrom
<1>10. \A w \in Pots : led.balance[w] <= c.saw[w]
  BY <1>5, <1>7
<1> QED BY <1>4, <1>7, <1>8, <1>9, <1>10, CallKeepsInv

\* The clock, and the switch of the key.
LEMMA TickKeepsInv == ASSUME ApiAssumption, ApiIInv, Tick PROVE ApiIInv'
<1> USE DEF ApiIInv
<1>1. UNCHANGED <<led, keyOn, stamp, nonces, call, verified, quota, sent, misjudged>>
      /\ now' = now + 1 /\ now \in Nat /\ now' \in 0..MaxNow
  BY DaysOfTheRun DEF Tick, ApiTypeOK
<1>2. ApiTypeOK'
  BY <1>1 DEF ApiTypeOK
<1>3. NoncesKept'
  <2>1. \A s \in Signed : Len(verified[s]) > 0 => verified[s][1] \in Nat
    BY DEF ApiTypeOK
  <2> QED BY <1>1, <2>1 DEF NoncesKept, ApiAssumption
<1>4. PicksHold' /\ NeverReplayed' /\ KeysPaidOnce' /\ FundsAreFound'
  BY <1>1 DEF PicksHold, NeverReplayed, KeysPaidOnce, FundsAreFound, Transferred
<1> QED BY <1>1, <1>2, <1>3, <1>4

\* A key that is switched off touches no send that is under way.
LEMMA DisableKeepsInv == ASSUME ApiIInv, DisableApiKey PROVE ApiIInv'
  BY DEF DisableApiKey, ApiIInv, ApiTypeOK, NoncesKept, PicksHold, NeverReplayed, KeysPaidOnce, FundsAreFound,
         Transferred

\* A signed request comes: its nonce is new, or it is refused.
LEMMA VerifyKeepsInv ==
    ASSUME ApiAssumption, ApiIInv, NEW h \in Handlers, NEW s \in Signed, VerifySignedRequest(h, s)
    PROVE  ApiIInv'
<1> USE DEF ApiIInv
<1>1. /\ UNCHANGED <<led, now, keyOn, stamp, quota, sent, misjudged>> /\ InWindow(s)
      /\ now \in Nat /\ now <= MaxNow /\ Skew \in Nat
  BY DaysOfTheRun DEF VerifySignedRequest, ApiTypeOK, ApiAssumption
<1>2. \A n \in nonces : n.sig \in Signed /\ n.seen \in Nat
  BY DEF ApiTypeOK
<1>3. \A r \in Signed : verified[r] \in Seq(0..MaxNow) /\ (Len(verified[r]) > 0 => verified[r][1] \in Nat)
  BY DEF ApiTypeOK
<1>4. \A r \in Signed : Len(verified[r]) > 0 =>
          \/ [sig |-> r, seen |-> verified[r][1]] \in Kept
          \/ verified[r][1] < now - Skew
  <2> SUFFICES ASSUME NEW r \in Signed, Len(verified[r]) > 0, ~ verified[r][1] < now - Skew
               PROVE  [sig |-> r, seen |-> verified[r][1]] \in Kept
    OBVIOUS
  <2>1. PICK n : n = [sig |-> r, seen |-> verified[r][1]]
    OBVIOUS
  <2>2. n \in nonces /\ n.seen = verified[r][1]
    BY <2>1 DEF NoncesKept
  <2>3. n \in Kept
    BY <2>2 DEF Kept, Forgotten
  <2> QED BY <2>1, <2>3
<1>5. Kept \subseteq nonces
  BY DEF Kept
<1>6. CASE \E n \in Kept : n.sig = s
  <2>1. nonces' = Kept /\ UNCHANGED <<call, verified>>
    BY <1>6 DEF VerifySignedRequest
  <2>2. ApiTypeOK'
    BY <1>1, <1>5, <2>1 DEF ApiTypeOK
  <2>3. NoncesKept'
    BY <1>1, <1>4, <2>1 DEF NoncesKept
  <2>4. PicksHold' /\ NeverReplayed' /\ KeysPaidOnce' /\ FundsAreFound'
    BY <1>1, <2>1 DEF PicksHold, NeverReplayed, KeysPaidOnce, FundsAreFound, Transferred
  <2> QED BY <1>1, <2>2, <2>3, <2>4
<1>7. CASE ~ \E n \in Kept : n.sig = s
  <2>1. PICK m, c : m = [sig |-> s, seen |-> now] /\ c = [at |-> "pick", sig |-> s]
    OBVIOUS
  <2>2. /\ nonces' = Kept \cup {m}
        /\ verified' = [verified EXCEPT ![s] = Append(@, now)]
        /\ call' = [call EXCEPT ![h] = c]
    BY <1>7, <2>1 DEF VerifySignedRequest
  <2>3. c \in Picking /\ c.at = "pick" /\ m \in [sig : Signed, seen : 0..MaxNow]
    BY <1>1, <2>1 DEF Picking
  <2>4. /\ verified'[s] = Append(verified[s], now)
        /\ \A r \in Signed \ {s} : verified'[r] = verified[r]
        /\ call'[h] = c /\ \A g \in Handlers \ {h} : call'[g] = call[g]
    BY <2>2 DEF ApiTypeOK
  <2>5. /\ Len(verified'[s]) = Len(verified[s]) + 1
        /\ Len(verified[s]) > 0 => verified'[s][1] = verified[s][1]
        /\ Len(verified[s]) = 0 => verified'[s][1] = now
        /\ Len(verified[s]) \in Nat
    BY <1>1, <1>3, <2>4
  <2>6. ApiTypeOK'
    <3>1. now \in 0..MaxNow
      BY DEF ApiTypeOK
    <3>2. verified' \in [Signed -> Seq(0..MaxNow)]
      BY <2>2, <3>1 DEF ApiTypeOK
    <3>3. call' \in [Handlers -> {Waiting} \cup Picking \cup Sending]
      BY <2>2, <2>3 DEF ApiTypeOK
    <3> QED BY <1>1, <1>5, <2>2, <2>3, <3>2, <3>3 DEF ApiTypeOK
  <2>7. stamp[s] # NotSigned /\ stamp[s] \in Int /\ stamp[s] >= now - Skew
    <3>1. stamp[s] \in Int /\ now - stamp[s] \in Int
      BY <1>1 DEF ApiTypeOK
    <3> QED BY <1>1, <3>1 DEF InWindow, Abs
  <2>8. Len(verified[s]) > 0 => verified[s][1] < now - Skew
    <3>1. PICK n : n = [sig |-> s, seen |-> verified[s][1]]
      OBVIOUS
    <3>2. n.sig = s
      BY <3>1
    <3> QED BY <1>4, <1>7, <3>1, <3>2
  <2>9. NoncesKept'
    <3> SUFFICES ASSUME NEW r \in Signed, Len(verified'[r]) > 0
                 PROVE  /\ stamp[r] # NotSigned
                        /\ [sig |-> r, seen |-> verified'[r][1]] \in nonces' \/ verified'[r][1] < now - Skew
      BY <1>1 DEF NoncesKept
    <3>1. CASE r # s
      BY <1>4, <2>2, <2>4, <3>1 DEF NoncesKept
    <3>2. CASE r = s /\ Len(verified[s]) > 0
      BY <2>5, <2>7, <2>8, <3>2
    <3>3. CASE r = s /\ Len(verified[s]) = 0
      <4>1. [sig |-> r, seen |-> verified'[r][1]] = m
        BY <2>1, <2>5, <3>3
      <4> QED BY <2>2, <2>7, <3>3, <4>1
    <3> QED BY <2>5, <3>1, <3>2, <3>3
  <2>10. NeverReplayed'
    <3> SUFFICES ASSUME NEW r \in Signed, Len(verified'[r]) > 1 PROVE stamp[r] > verified'[r][1]
      BY <1>1 DEF NeverReplayed
    <3>1. CASE r # s
      BY <2>4, <3>1 DEF NeverReplayed
    <3>2. CASE r = s
      <4>1. Len(verified[s]) > 0
        BY <2>5, <3>2
      <4> QED BY <1>1, <1>3, <2>5, <2>7, <2>8, <3>2, <4>1
    <3> QED BY <3>1, <3>2
  <2>11. PicksHold'
    BY <1>1, <2>3, <2>4 DEF PicksHold
  <2>12. KeysPaidOnce' /\ FundsAreFound'
    BY <1>1 DEF KeysPaidOnce, FundsAreFound, Transferred
  <2> QED BY <1>1, <2>6, <2>9, <2>10, <2>11, <2>12
<1> QED BY <1>6, <1>7

-----------------------------------------------------------------------------
\* A handler that is about to send.
LEMMA SendFields ==
    ASSUME ApiAssumption, ApiIInv, NEW h \in Handlers, call[h].at = "send"
    PROVE  /\ call[h].sig \in Signed /\ call[h].from \in Pots
           /\ SendOf[call[h].sig] \in Nat \ {0}
           /\ RecipientOf[call[h].sig] \in Wallets \ Pots
           /\ IdemOf[call[h].sig] \in IdemKeys /\ IdemOf[call[h].sig] \in Refs
           /\ call[h].saw \in [Pots -> Int]
<1>1. call[h] \in Sending
  BY CallFields DEF ApiIInv
<1>2. \A c \in Sending : c.sig \in Signed /\ c.from \in Pots /\ c.saw \in [Pots -> Int]
  BY DEF Sending
<1> QED BY <1>1, <1>2 DEF ApiAssumption, Pots

\* The two entries of a send.
LEMMA TransferEntries ==
    ASSUME ApiAssumption, NEW s \in Signed, NEW from \in Pots
    PROVE  \E a \in Entries, b \in Entries :
              /\ Transfer(from, s) = <<a, b>>
              /\ a.wallet = from /\ a.amount = -SendOf[s] /\ a.type = "TRANSFER_OUT" /\ a.ref = IdemOf[s]
              /\ b.wallet = RecipientOf[s] /\ b.amount = SendOf[s] /\ b.type = "TRANSFER_IN" /\ b.ref = IdemOf[s]
<1>1. PICK a, b : /\ a = Entry(from, -SendOf[s], "TRANSFER_OUT", IdemOf[s])
                  /\ b = Entry(RecipientOf[s], SendOf[s], "TRANSFER_IN", IdemOf[s])
  OBVIOUS
<1>2. Transfer(from, s) = <<a, b>>
  BY <1>1, Zenon DEF Transfer
<1>3. from \in Wallets /\ IdemOf[s] \in Refs /\ SendOf[s] \in Nat /\ RecipientOf[s] \in Wallets
  BY DEF ApiAssumption, Pots
<1>4. a \in Entries /\ b \in Entries
  BY <1>1, <1>3 DEF Entry, Entries, ApiAssumption
<1> QED BY <1>1, <1>2, <1>4 DEF Entry

\* A key that is paid for the first time.
LEMMA PaidKeepsInv ==
    ASSUME ApiAssumption, RefAssumption, ApiIInv, NEW h \in Handlers, call[h].at = "send",
           NEW s, s = call[h].sig, ~ Transferred(IdemOf[s]), WithinQuota,
           PostEach(Transfer(call[h].from, s)),
           quota' = [quota EXCEPT ![Day(now)] = @ + 1],
           sent' = sent \cup {[key |-> IdemOf[s], day |-> Day(now)]},
           call' = [call EXCEPT ![h] = Waiting],
           UNCHANGED <<now, keyOn, stamp, nonces, verified, misjudged>>
    PROVE  ApiIInv'
<1> USE DEF ApiIInv
<1>1. /\ s \in Signed /\ call[h].from \in Pots /\ SendOf[s] \in Nat \ {0} /\ RecipientOf[s] \in Wallets \ Pots
      /\ IdemOf[s] \in IdemKeys /\ IdemOf[s] \in Refs /\ led \in Ledgers
  BY SendFields DEF ApiTypeOK
<1>2. PICK a \in Entries, b \in Entries :
          /\ Transfer(call[h].from, s) = <<a, b>>
          /\ a.wallet = call[h].from /\ a.amount = -SendOf[s] /\ a.type = "TRANSFER_OUT" /\ a.ref = IdemOf[s]
          /\ b.wallet = RecipientOf[s] /\ b.amount = SendOf[s] /\ b.type = "TRANSFER_IN" /\ b.ref = IdemOf[s]
  BY <1>1, TransferEntries
<1>3. PostAll(led, <<a, b>>).ok /\ led' = PostAll(led, <<a, b>>).ledger
  BY <1>2, Zenon DEF PostEach
<1>4. led' = Posted(Posted(led, a), b)
  BY <1>1, <1>3, PostAllTwo
<1>5. PICK m : m = Posted(led, a)
  OBVIOUS
<1>6. /\ m \in Ledgers
      /\ m.balance[a.wallet] = led.balance[a.wallet] + a.amount
      /\ \A w \in Wallets \ {a.wallet} : m.balance[w] = led.balance[w]
      /\ m.hold = led.hold
      /\ \A w, ty, r : <<w, ty, r>> \in m.keys <=>
             \/ <<w, ty, r>> \in led.keys
             \/ w = a.wallet /\ ty = a.type /\ r = a.ref /\ r # NoRef
  BY <1>1, <1>5, PostedChanges
<1>7. /\ led' \in Ledgers
      /\ \A w \in Wallets \ {b.wallet} : led'.balance[w] = m.balance[w]
      /\ led'.hold = m.hold
      /\ \A w, ty, r : <<w, ty, r>> \in led'.keys <=>
             \/ <<w, ty, r>> \in m.keys
             \/ w = b.wallet /\ ty = b.type /\ r = b.ref /\ r # NoRef
  <2>1. led' = Posted(m, b)
    BY <1>4, <1>5
  <2>2. /\ Posted(m, b) \in Ledgers
        /\ \A w \in Wallets \ {b.wallet} : Posted(m, b).balance[w] = m.balance[w]
        /\ Posted(m, b).hold = m.hold
        /\ \A w, ty, r : <<w, ty, r>> \in Posted(m, b).keys <=>
               \/ <<w, ty, r>> \in m.keys
               \/ w = b.wallet /\ ty = b.type /\ r = b.ref /\ r # NoRef
    BY <1>6, PostedChanges
  <2> QED BY <2>1, <2>2
<1>8. \A w \in Pots : led.balance[w] \in Int /\ led'.balance[w] <= led.balance[w]
  <2>1. \A w \in Pots : w \in Wallets /\ w # b.wallet /\ led.balance[w] \in Int
    BY <1>1, <1>2 DEF Pots, ApiAssumption, Ledgers
  <2>2. SendOf[s] \in Nat
    BY <1>1
  <2> QED BY <1>2, <1>6, <1>7, <2>1, <2>2
<1>9. \A k \in IdemKeys : Transferred(k)' <=> Transferred(k) \/ k = IdemOf[s]
  <2>1. /\ \A e \in led.keys : \E w, ty, r : e = <<w, ty, r>>
        /\ \A e \in led'.keys : \E w, ty, r : e = <<w, ty, r>>
    <3>1. led.keys \subseteq Keys /\ led'.keys \subseteq Keys
      BY <1>1, <1>7 DEF Ledgers
    <3> QED BY <3>1 DEF Keys
  <2>2. \A e \in led.keys : e \in led'.keys
    BY <1>6, <1>7, <2>1
  <2>3. <<a.wallet, a.type, IdemOf[s]>> \in led'.keys
    <3>1. IdemOf[s] # NoRef
      BY <1>1
    <3> QED BY <1>2, <1>6, <1>7, <3>1
  <2>4. \A e \in led'.keys : e \in led.keys \/ e[3] = IdemOf[s]
    BY <1>2, <1>6, <1>7, <2>1
  <2>5. <<a.wallet, a.type, IdemOf[s]>>[3] = IdemOf[s]
    OBVIOUS
  <2> QED BY <2>2, <2>3, <2>4, <2>5 DEF Transferred
<1>10. Day(now) \in 0..Day(MaxNow) /\ now \in Nat
  BY DaysOfTheRun
<1>11. PICK d, t : d = Day(now) /\ t = [key |-> IdemOf[s], day |-> d]
  OBVIOUS
<1>12. /\ sent' = sent \cup {t} /\ t.key = IdemOf[s] /\ t.day = d
       /\ t \in [key : IdemKeys, day : 0..Day(MaxNow)]
  BY <1>1, <1>10, <1>11
<1>13. quota \in [0..Day(MaxNow) -> Nat] /\ quota'[d] = quota[d] + 1 /\ quota[d] \in Nat
       /\ (\A o \in (0..Day(MaxNow)) \ {d} : quota'[o] = quota[o]) /\ quota' \in [0..Day(MaxNow) -> Nat]
  BY <1>10, <1>11 DEF ApiTypeOK
<1>14. t \notin sent /\ \A u \in sent : u.key # t.key
  BY <1>1, <1>12 DEF KeysPaidOnce
<1>15. call'[h] = Waiting /\ \A g \in Handlers \ {h} : call'[g] = call[g]
  BY DEF ApiTypeOK
<1>16. ApiTypeOK'
  <2>1. call' \in [Handlers -> {Waiting} \cup Picking \cup Sending]
    BY DEF ApiTypeOK
  <2>2. sent' \subseteq [key : IdemKeys, day : 0..Day(MaxNow)]
    BY <1>12 DEF ApiTypeOK
  <2> QED BY <1>7, <1>13, <2>1, <2>2 DEF ApiTypeOK
<1>17. NoncesKept' /\ NeverReplayed'
  BY DEF NoncesKept, NeverReplayed
<1>18. PicksHold'
  <2> SUFFICES ASSUME NEW g \in Handlers, call'[g].at = "send"
               PROVE  LET c == call'[g] IN
                      /\ \A w \in Pots : led'.balance[w] <= c.saw[w]
                      /\ c.saw[c.from] >= SendOf[c.sig] \/ \A w \in Pots : c.saw[w] < SendOf[c.sig]
    BY DEF PicksHold
  <2>1. g # h /\ call'[g] = call[g]
    BY <1>15 DEF Waiting
  <2>2. \A w \in Pots : call[g].saw[w] \in Int /\ led'.balance[w] \in Int
    BY <1>7, <2>1, SendFields DEF ApiAssumption, Pots, Ledgers
  <2>3. \A w \in Pots : led.balance[w] <= call[g].saw[w]
    BY <2>1 DEF PicksHold
  <2>4. \A w \in Pots : led'.balance[w] <= call[g].saw[w]
    BY <1>8, <2>2, <2>3
  <2> QED BY <2>1, <2>4 DEF PicksHold
<1>19. KeysPaidOnce'
  <2>1. \A u, v \in sent' : u.key = v.key => u = v
    BY <1>12, <1>14 DEF KeysPaidOnce
  <2>2. \A k \in IdemKeys : Transferred(k)' <=> \E u \in sent' : u.key = k
    BY <1>9, <1>12 DEF KeysPaidOnce
  <2>3. ASSUME NEW o \in 0..Day(MaxNow)
        PROVE  quota'[o] = Cardinality({u \in sent' : u.day = o}) /\ quota'[o] <= SendLimit
    <3>1. PICK S, T : S = {u \in sent : u.day = o} /\ T = {u \in sent' : u.day = o}
      OBVIOUS
    <3>2. quota[o] = Cardinality(S) /\ quota[o] <= SendLimit
      BY <1>13, <3>1 DEF KeysPaidOnce
    <3>3. CASE o = d
      <4>1. T = S \cup {t} /\ t \notin S
        BY <1>12, <1>14, <3>1, <3>3
      <4>2. IsFiniteSet(S)
        BY <3>1, FS_Subset
      <4>3. Cardinality(S \cup {t}) = Cardinality(S) + 1
        BY <4>1, <4>2, FS_AddElement
      <4>4. Cardinality(T) = quota[o] + 1
        BY <3>2, <4>1, <4>3, Zenon
      <4>5. quota[o] < SendLimit
        BY <1>11, <3>3 DEF WithinQuota
      <4> QED BY <1>13, <3>1, <3>3, <4>4, <4>5 DEF ApiAssumption
    <3>4. CASE o # d
      <4>1. T = S
        BY <1>12, <3>1, <3>4
      <4> QED BY <1>13, <3>1, <3>2, <3>4, <4>1, Zenon
    <3> QED BY <3>3, <3>4
  <2>4. DOMAIN quota' = 0..Day(MaxNow)
    BY <1>13
  <2> QED BY <2>1, <2>2, <2>3, <2>4 DEF KeysPaidOnce
<1>20. FundsAreFound'
  BY DEF FundsAreFound
<1>21. IsFiniteSet(sent') /\ led'.hold = {}
  BY <1>6, <1>7, <1>12, FS_AddElement
<1> QED BY <1>16, <1>17, <1>18, <1>19, <1>20, <1>21

\* A send is refused only if no wallet could pay.
LEMMA RefusedForGood ==
    ASSUME ApiAssumption, RefAssumption, ApiIInv, NEW h \in Handlers, call[h].at = "send",
           NEW s, s = call[h].sig, ~ Transferred(IdemOf[s]), ~ AdmitsEach(Transfer(call[h].from, s)),
           \A w \in Pots : led.balance[w] >= call[h].saw[w]
    PROVE  \A w \in Pots : ~ CoveredBy(w, SendOf[s])
<1> USE DEF ApiIInv
<1>1. /\ s \in Signed /\ call[h].from \in Pots /\ SendOf[s] \in Nat \ {0} /\ RecipientOf[s] \in Wallets \ Pots
      /\ IdemOf[s] \in Refs /\ led \in Ledgers /\ led.hold = {} /\ call[h].saw \in [Pots -> Int]
  BY SendFields DEF ApiTypeOK
<1>2. \A w \in Pots : led.balance[w] = call[h].saw[w] /\ led.balance[w] \in Int
  <2>1. \A w \in Pots : led.balance[w] \in Int /\ call[h].saw[w] \in Int
    BY <1>1 DEF Ledgers, Pots, ApiAssumption
  <2>2. \A w \in Pots : led.balance[w] <= call[h].saw[w]
    BY DEF PicksHold
  <2> QED BY <2>1, <2>2
<1>3. CASE led.balance[call[h].from] >= SendOf[s]
  <2>1. PICK a \in Entries, b \in Entries :
          /\ Transfer(call[h].from, s) = <<a, b>>
          /\ a.wallet = call[h].from /\ a.amount = -SendOf[s] /\ a.type = "TRANSFER_OUT" /\ a.ref = IdemOf[s]
          /\ b.wallet = RecipientOf[s] /\ b.amount = SendOf[s] /\ b.type = "TRANSFER_IN" /\ b.ref = IdemOf[s]
    BY <1>1, TransferEntries
  <2>2. ~ PostAll(led, <<a, b>>).ok
    BY <2>1, Zenon DEF AdmitsEach
  <2>3. ~ (Admits(led, a) /\ Admits(Posted(led, a), b))
    BY <1>1, <2>2, PostAllTwo
  <2>4. \A e \in led.keys : e[3] # IdemOf[s]
    BY DEF Transferred
  <2>5. Admits(led, a)
    <3>1. KeysOf(a) \cap led.keys = {}
      <4>1. \A e \in KeysOf(a) : e[3] = IdemOf[s]
        BY <2>1 DEF KeysOf
      <4> QED BY <2>4, <4>1
    <3>2. led.balance[a.wallet] + a.amount >= 0
      BY <1>1, <1>2, <1>3, <2>1
    <3> QED BY <1>1, <3>1, <3>2 DEF Admits, HoldPermits, Covers, Fresh
  <2>6. Admits(Posted(led, a), b)
    <3>1. KeysOf(b) \cap Posted(led, a).keys = {}
      <4>1. Posted(led, a).keys = led.keys \cup KeysOf(a)
        BY DEF Posted
      <4>2. \A e \in KeysOf(b) : e[3] = IdemOf[s] /\ e[2] = "TRANSFER_IN"
        BY <2>1 DEF KeysOf
      <4>3. \A e \in KeysOf(a) : e[2] = "TRANSFER_OUT"
        BY <2>1 DEF KeysOf
      <4> QED BY <2>4, <4>1, <4>2, <4>3
    <3>2. Posted(led, a).hold = {}
      BY <1>1 DEF Posted
    <3>3. ~ b.amount < 0
      BY <1>1, <2>1
    <3> QED BY <3>1, <3>2, <3>3 DEF Admits, HoldPermits, Covers, Fresh
  <2> QED BY <2>3, <2>5, <2>6
<1>4. CASE ~ led.balance[call[h].from] >= SendOf[s]
  <2>1. \A w \in Pots : call[h].saw[w] < SendOf[s]
    BY <1>1, <1>2, <1>4 DEF PicksHold
  <2> QED BY <1>1, <1>2, <2>1 DEF CoveredBy
<1> QED BY <1>3, <1>4

\* A replay through the API is refused, a key is paid once and within its quota, and
\* funds are found (db/public_api.rs), for any requests, keys, handlers and times.
THEOREM ApiInvariant == ApiSpec => []ApiInv
<1>1. ApiInit => ApiIInv
  BY ApiAssumption, ApiStarts
<1>2. ApiIInv /\ [ApiNext]_apiVars => ApiIInv'
  <2> SUFFICES ASSUME ApiIInv, [ApiNext]_apiVars PROVE ApiIInv'
    OBVIOUS
  <2> USE ApiAssumption
  <2>1. ASSUME NEW s \in Signed, Sign(s) PROVE ApiIInv'
    BY <2>1, SignKeepsInv
  <2>2. ASSUME NEW h \in Handlers, NEW s \in Signed, VerifySignedRequest(h, s) PROVE ApiIInv'
    BY <2>2, VerifyKeepsInv
  <2>3. ASSUME NEW h \in Handlers, NEW s \in Signed, AuthenticateByHash(h, s) PROVE ApiIInv'
    BY <2>3, HashKeepsInv
  <2>4. ASSUME NEW h \in Handlers, PickFrom(h) PROVE ApiIInv'
    BY <2>4, PickKeepsInv
  <2>5. ASSUME NEW h \in Handlers, SendToUser(h) PROVE ApiIInv'
    <3>1. PICK s : s = call[h].sig
      OBVIOUS
    <3>2. /\ call[h].at = "send" /\ call' = [call EXCEPT ![h] = Waiting]
          /\ UNCHANGED <<now, keyOn, stamp, nonces, verified>> /\ Waiting.at = "idle"
      BY <2>5 DEF SendToUser, Waiting
    <3>3. CASE UNCHANGED <<led, quota, sent, misjudged>>
      BY <3>2, <3>3, CallKeepsInv
    <3>4. CASE /\ ~ Transferred(IdemOf[s]) /\ WithinQuota /\ PostEach(Transfer(call[h].from, s))
               /\ quota' = [quota EXCEPT ![Day(now)] = @ + 1]
               /\ sent' = sent \cup {[key |-> IdemOf[s], day |-> Day(now)]}
               /\ UNCHANGED misjudged
      BY <3>1, <3>2, <3>4, RefAssumption, PaidKeepsInv
    <3>5. CASE /\ ~ Transferred(IdemOf[s]) /\ ~ (WithinQuota /\ AdmitsEach(Transfer(call[h].from, s)))
               /\ misjudged' = IF /\ WithinQuota
                                  /\ \E w \in Pots : CoveredBy(w, SendOf[s])
                                  /\ \A w \in Pots : led.balance[w] >= call[h].saw[w]
                               THEN misjudged \cup {s} ELSE misjudged
               /\ UNCHANGED <<led, quota, sent>>
      <4>1. misjudged' = misjudged
        BY <3>1, <3>2, <3>5, RefAssumption, RefusedForGood
      <4> QED BY <3>2, <3>5, <4>1, CallKeepsInv
    <3> QED BY <2>5, <3>1, <3>3, <3>4, <3>5, Zenon DEF SendToUser
  <2>6. ASSUME NEW h \in Handlers, HandlerStops(h) PROVE ApiIInv'
    BY <2>6, StopKeepsInv
  <2>7. CASE DisableApiKey
    BY <2>7, DisableKeepsInv
  <2>8. CASE Tick
    BY <2>8, TickKeepsInv
  <2>9. CASE UNCHANGED apiVars
    BY <2>9 DEF apiVars, ApiIInv, ApiTypeOK, NoncesKept, PicksHold, NeverReplayed, KeysPaidOnce, FundsAreFound,
                Transferred
  <2> QED BY <2>1, <2>2, <2>3, <2>4, <2>5, <2>6, <2>7, <2>8, <2>9 DEF ApiNext
<1>3. ApiIInv => ApiInv
  BY DEF ApiIInv, ApiInv
<1> QED BY <1>1, <1>2, <1>3, PTL DEF ApiSpec
===============================================================================
