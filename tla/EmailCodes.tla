----------------------------- MODULE EmailCodes -----------------------------
(***************************************************************************)
(* The codes sent by e-mail for one purpose of one account: sign-in, the   *)
(* switch of the second factor, the step-up of a withdrawal or of an admin *)
(* (domain/auth/service.rs over db/auth.rs).  Every statement of a request *)
(* is a step of its own.  A rotation reads the rows it will consume when   *)
(* it starts and writes when it commits: two of them do not see each       *)
(* other's new row.                                                        *)
(***************************************************************************)
EXTENDS Integers, FiniteSets

CONSTANTS MaxCodes,        \* the bound on the codes sent
          CodeRequests,    \* requests in progress at one time
          MaxAttempts      \* otp_max_attempts

ASSUME CodesAssumption ==
    MaxCodes \in Nat /\ MaxAttempts \in Nat \ {0} /\ IsFiniteSet(CodeRequests)

VARIABLES code,       \* rows of email_otps, in the order of their creation
          creq,       \* a request, between two of its statements
          guesses,    \* codes compared with a row
          accepted,   \* successful verifications of a row
          crossed     \* two rotations have overlapped

codeVars == <<code, creq, guesses, accepted, crossed>>

Codes == 1..MaxCodes
NotAsking == [at |-> "idle"]

Sent == {c \in Codes : code[c].st # "none"}
Active == {c \in Codes : code[c].st = "active"}
Newest(C) == CHOOSE c \in C : \A d \in C : d <= c

CodesInit ==
    /\ code = [c \in Codes |-> [st |-> "none", tries |-> 0, recent |-> FALSE]]
    /\ creq = [r \in CodeRequests |-> NotAsking]
    /\ guesses = [c \in Codes |-> 0]
    /\ accepted = [c \in Codes |-> 0]
    /\ crossed = FALSE

-----------------------------------------------------------------------------
\* request_email_otp: the cooldown is a query of its own ...
FindRecentOtp(r) ==
    /\ creq[r] = NotAsking
    /\ \A c \in Codes : ~ code[c].recent
    /\ creq' = [creq EXCEPT ![r] = [at |-> "rotate"]]
    /\ UNCHANGED <<code, guesses, accepted, crossed>>

\* ... and rotate_otp a transaction: it consumes the codes there are ...
ConsumeOlder(r) ==
    /\ creq[r].at = "rotate"
    /\ creq' = [creq EXCEPT ![r] = [at |-> "insert", older |-> {c \in Codes : code[c].st \in {"active", "lapsed"}}]]
    /\ crossed' = (crossed \/ \E q \in CodeRequests : creq[q].at = "insert")
    /\ UNCHANGED <<code, guesses, accepted>>

\* Slip: the codes sent before stay good.
NothingOlder(r) == {}

Older(r) == creq[r].older

\* ... and stores the new one, which is sent.
StoreCode(r) ==
    /\ creq[r].at = "insert" /\ Cardinality(Sent) < MaxCodes
    /\ code' = [c \in Codes |->
                  IF c \in Older(r) THEN [code[c] EXCEPT !.st = "consumed"]
                  ELSE IF c = Cardinality(Sent) + 1 THEN [st |-> "active", tries |-> 0, recent |-> TRUE]
                  ELSE code[c]]
    /\ creq' = [creq EXCEPT ![r] = NotAsking]
    /\ UNCHANGED <<guesses, accepted, crossed>>

-----------------------------------------------------------------------------
\* verify_email_otp, with a code that was sent or with any other: the
\* newest active row is read, and the code compared with it.
FindActiveOtp(r) ==
    /\ creq[r] = NotAsking /\ Active # {}
    /\ LET c == Newest(Active) IN
          IF code[c].tries >= MaxAttempts
          THEN /\ creq' = [creq EXCEPT ![r] = [at |-> "burn", row |-> c]]
               /\ UNCHANGED guesses
          ELSE /\ \E right \in BOOLEAN :
                     creq' = [creq EXCEPT ![r] = [at |-> IF right THEN "claim" ELSE "count", row |-> c]]
               /\ guesses' = [guesses EXCEPT ![c] = @ + 1]
    /\ UNCHANGED <<code, accepted, crossed>>

\* Slip: a wrong code is counted as none.
CountNothing(c) == code

OneMoreTry(c) == [code EXCEPT ![c].tries = @ + 1]

IncrementOtpAttempts(r) ==
    /\ creq[r].at = "count"
    /\ code' = OneMoreTry(creq[r].row)
    /\ creq' = [creq EXCEPT ![r] = NotAsking]
    /\ UNCHANGED <<guesses, accepted, crossed>>

\* claim_otp: consumed_at IS NULL, whether or not it has expired since.
Unconsumed(c) == code[c].st \in {"active", "lapsed"}

ClaimOtp(r) ==
    /\ creq[r].at \in {"claim", "burn"}
    /\ LET c == creq[r].row IN
          /\ code' = IF Unconsumed(c) THEN [code EXCEPT ![c].st = "consumed"] ELSE code
          /\ accepted' = IF creq[r].at = "claim" /\ Unconsumed(c) THEN [accepted EXCEPT ![c] = @ + 1] ELSE accepted
    /\ creq' = [creq EXCEPT ![r] = NotAsking]
    /\ UNCHANGED <<guesses, crossed>>

-----------------------------------------------------------------------------
\* Time: the cooldown ends before the code expires.
CoolDown(c) ==
    /\ code[c].recent
    /\ code' = [code EXCEPT ![c].recent = FALSE]
    /\ UNCHANGED <<creq, guesses, accepted, crossed>>

LapseCode(c) ==
    /\ code[c].st = "active" /\ ~ code[c].recent
    /\ code' = [code EXCEPT ![c].st = "lapsed"]
    /\ UNCHANGED <<creq, guesses, accepted, crossed>>

CodesNext ==
    \/ \E r \in CodeRequests :
          \/ FindRecentOtp(r) \/ ConsumeOlder(r) \/ StoreCode(r)
          \/ FindActiveOtp(r) \/ IncrementOtpAttempts(r) \/ ClaimOtp(r)
    \/ \E c \in Codes : CoolDown(c) \/ LapseCode(c)

CodesSpec == CodesInit /\ [][CodesNext]_codeVars

-----------------------------------------------------------------------------
CodesTypeOK ==
    /\ code \in [Codes -> [st : {"none", "active", "lapsed", "consumed"}, tries : Nat, recent : BOOLEAN]]
    /\ \A r \in CodeRequests :
          \/ creq[r] = NotAsking \/ creq[r] = [at |-> "rotate"]
          \/ creq[r] \in [at : {"insert"}, older : SUBSET Codes]
          \/ creq[r] \in [at : {"claim", "count", "burn"}, row : Codes]
    /\ DOMAIN creq = CodeRequests
    /\ guesses \in [Codes -> Nat] /\ accepted \in [Codes -> Nat]
    /\ crossed \in BOOLEAN

\* "O codigo e de uso unico" (http-api-reference.md:158): two requests with
\* the same right code, both past the comparison, are not both let in.
CodeUsedOnce ==
    \A c \in Codes : accepted[c] <= 1 /\ (accepted[c] = 1 => code[c].st = "consumed")

\* Its "limite de tentativas (otp_max_attempts)": requests that read the row
\* before any of them counts get through, one for each request but one.
GuessesBounded ==
    \A c \in Codes : guesses[c] <= MaxAttempts + Cardinality(CodeRequests) - 1

\* A code that was replaced lets nobody in, though it may have been compared
\* before the new one was sent - unless two rotations overlapped, which the
\* cooldown does not exclude: it is read before.
ReplacedCodesDie ==
    crossed \/ \A c, d \in Sent : c < d => code[c].st = "consumed"

CodesInv == CodesTypeOK /\ CodeUsedOnce /\ GuessesBounded /\ ReplacedCodesDie

=============================================================================
