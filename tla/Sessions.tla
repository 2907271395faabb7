------------------------------- MODULE Sessions -------------------------------
(***************************************************************************)
(* Sessions: the refresh tokens AuthService gives out, counts the uses of  *)
(* and takes back, for users that may be deleted or lose their             *)
(* verification meanwhile.  Every read and every write of a token is a     *)
(* call to the database of its own.                                        *)
(***************************************************************************)
EXTENDS Actors, Integers

CONSTANTS
    Member,             \* users
    MaxToken,           \* bound: refresh tokens, given out in order
    RefreshAttempts     \* how often a token can be used, -1 for no limit

ASSUME SessionsAssumption ==
    /\ RefreshAttempts \in Nat \cup {-1}
    /\ MaxToken \in Nat
    /\ None \notin Member \cup 1..MaxToken

VARIABLES
    member,         \* member[u]: "verified", "unverified", or "deleted"
    tokens,         \* tokens[t]: the document of t
    given,          \* how many tokens have been given out
    sessionReq,     \* sessionReq[r]: what request r waits for
    renewed,        \* history: how many tokens of identity t was exchanged for
    sessionMixed,   \* history: tokens of which two renewals overlapped
    strays          \* history: users that were deleted during a login, or whose logout failed

sessionVars == <<member, tokens, given, sessionReq, renewed, sessionMixed, strays>>

RefreshToken == 1..MaxToken
NoToken == [user |-> None, used |-> 0, expired |-> FALSE]

\* A login: "sign", "purge", "create"; a renewal: "find", "user", "renew", "find2", "read",
\* "write"; "drop" one token; "logout" deletes all tokens of the user
SessionStage == {"idle", "sign", "purge", "create", "find", "user", "renew", "find2", "read",
                 "write", "drop", "logout"}
NoSessionReq == [stage |-> "idle", u |-> None, t |-> None, used |-> 0]

SessionsTypeOK ==
    /\ member \in [Member -> {"verified", "unverified", "deleted"}]
    /\ tokens \in [RefreshToken -> [user : Member \cup {None}, used : Nat, expired : BOOLEAN]]
    /\ given \in 0..MaxToken
    /\ sessionReq \in [Request -> [stage : SessionStage, u : Member \cup {None},
                                   t : RefreshToken \cup {None}, used : Nat]]
    /\ renewed \in [RefreshToken -> Nat]
    /\ sessionMixed \subseteq RefreshToken
    /\ strays \subseteq Member

-----------------------------------------------------------------------------
AskSession(r, stage, u, t) ==
    /\ sessionReq[r].stage = "idle"
    /\ sessionReq' = [sessionReq EXCEPT ![r] = [stage |-> stage, u |-> u, t |-> t, used |-> 0]]

SessionAt(r, stage) == sessionReq[r].stage = stage
Proceed(r, stage) == sessionReq' = [sessionReq EXCEPT ![r].stage = stage]
SessionAnswered(r) == sessionReq' = [sessionReq EXCEPT ![r] = NoSessionReq]

TokensOf(u) == {t \in RefreshToken : tokens[t].user = u}
Gone(ts) == [t \in RefreshToken |-> IF t \in ts THEN NoToken ELSE tokens[t]]

\* signJwtToken refuses a user that is not verified, or is gone
MaySign(u) == member[u] = "verified"

-----------------------------------------------------------------------------
(* loginUser.                                                              *)

\* findRawByUsername, and the password is right
Login(r, u) ==
    /\ member[u] # "deleted"
    /\ AskSession(r, "sign", u, None)
    /\ UNCHANGED <<member, tokens, given, renewed, sessionMixed, strays>>

LoginSigned(r) ==
    /\ SessionAt(r, "sign")
    /\ IF MaySign(sessionReq[r].u) THEN Proceed(r, "purge") ELSE SessionAnswered(r)
    /\ UNCHANGED <<member, tokens, given, renewed, sessionMixed, strays>>

\* purgeOutdatedRefreshTokensByUserId
PurgeOutdated(r) ==
    /\ SessionAt(r, "purge")
    /\ tokens' = Gone({t \in TokensOf(sessionReq[r].u) : tokens[t].expired})
    /\ Proceed(r, "create")
    /\ UNCHANGED <<member, given, renewed, sessionMixed, strays>>

\* createRefreshTokenForUserId
CreateToken(r) ==
    /\ SessionAt(r, "create") /\ given < MaxToken
    /\ given' = given + 1
    /\ tokens' = [tokens EXCEPT ![given'] = [NoToken EXCEPT !.user = sessionReq[r].u]]
    /\ SessionAnswered(r)
    /\ UNCHANGED <<member, renewed, sessionMixed, strays>>

-----------------------------------------------------------------------------
(* renewLoginByRefreshToken.                                               *)

Renew(r, t) ==
    /\ t <= given
    /\ AskSession(r, "find", None, t)
    /\ sessionMixed' = IF \E q \in Request : sessionReq[q].t = t THEN sessionMixed \cup {t}
                       ELSE sessionMixed
    /\ UNCHANGED <<member, tokens, given, renewed, strays>>

\* getValidRefreshToken: a token that is not there is an error, one that has expired ends all
\* sessions of its user.  "find" is the first look at it, "find2" the second, after which the
\* attempts it has used are compared with the limit.
FindToken(r, stage) ==
    LET t == sessionReq[r].t
        tok == tokens[t]
    IN
    /\ SessionAt(r, stage)
    /\ sessionReq' = [sessionReq EXCEPT ![r] =
          IF tok.user = None THEN NoSessionReq
          ELSE [@ EXCEPT !.u = tok.user, !.used = tok.used,
                         !.stage = IF tok.expired THEN "logout"
                                   ELSE IF stage = "find" THEN "user" ELSE "read"]]
    /\ UNCHANGED <<member, tokens, given, renewed, sessionMixed, strays>>

\* getUser: the token of a user that is gone is deleted
FindTokenUser(r) ==
    /\ SessionAt(r, "user")
    /\ Proceed(r, IF member[sessionReq[r].u] = "deleted" THEN "drop" ELSE "renew")
    /\ UNCHANGED <<member, tokens, given, renewed, sessionMixed, strays>>

DropToken(r) ==
    /\ SessionAt(r, "drop")
    /\ tokens' = Gone({sessionReq[r].t})
    /\ SessionAnswered(r)
    /\ UNCHANGED <<member, given, renewed, sessionMixed, strays>>

RenewSigned(r) ==
    /\ SessionAt(r, "renew")
    /\ IF MaySign(sessionReq[r].u) THEN Proceed(r, "find2") ELSE SessionAnswered(r)
    /\ UNCHANGED <<member, tokens, given, renewed, sessionMixed, strays>>

\* Variant: one use more
ExceededBy(used) == RefreshAttempts # -1 /\ used > RefreshAttempts

Exceeded(used) == RefreshAttempts # -1 /\ used >= RefreshAttempts

\* increaseRefreshTokenAttemptsUsed: without attempts left the sessions end.  Else
\* updateRefreshTokenAttempts looks for the token once more.
CheckAttempts(r) ==
    LET q == sessionReq[r] IN
    /\ SessionAt(r, "read")
    /\ IF Exceeded(q.used) THEN Proceed(r, "logout")
       ELSE IF tokens[q.t].user = None THEN SessionAnswered(r)
       ELSE Proceed(r, "write")
    /\ UNCHANGED <<member, tokens, given, renewed, sessionMixed, strays>>

\* updateOne; the token of identity is sent
CountAttempt(r) ==
    LET q == sessionReq[r] IN
    /\ SessionAt(r, "write")
    /\ tokens' = IF tokens[q.t].user = None THEN tokens
                 ELSE [tokens EXCEPT ![q.t].used = q.used + 1]
    /\ renewed' = [renewed EXCEPT ![q.t] = @ + 1]
    /\ SessionAnswered(r)
    /\ UNCHANGED <<member, given, sessionMixed, strays>>

-----------------------------------------------------------------------------
(* The end of sessions.                                                    *)

Logout(r, u) ==
    /\ member[u] # "deleted"
    /\ AskSession(r, "logout", u, None)
    /\ UNCHANGED <<member, tokens, given, renewed, sessionMixed, strays>>

\* deleteUser, and then logoutUserId
DeleteMember(r, u) ==
    /\ member[u] # "deleted"
    /\ AskSession(r, "logout", u, None)
    /\ member' = [member EXCEPT ![u] = "deleted"]
    /\ strays' = IF \E q \in Request : sessionReq[q].u = u /\ sessionReq[q].stage \in {"purge", "create"}
                 THEN strays \cup {u} ELSE strays
    /\ UNCHANGED <<tokens, given, renewed, sessionMixed>>

\* Variant: only those that have expired are deleted
OutdatedOf(u) == {t \in TokensOf(u) : tokens[t].expired}

\* deleteRefreshTokenByUserId
SessionsOf(u) == TokensOf(u)

EndSessions(r) ==
    /\ SessionAt(r, "logout")
    /\ tokens' = Gone(SessionsOf(sessionReq[r].u))
    /\ SessionAnswered(r)
    /\ UNCHANGED <<member, given, renewed, sessionMixed, strays>>

-----------------------------------------------------------------------------
(* Time, other requests, and failures.                                     *)

ExpireToken(t) ==
    /\ tokens[t].user # None /\ ~tokens[t].expired
    /\ tokens' = [tokens EXCEPT ![t].expired = TRUE]
    /\ UNCHANGED <<member, given, sessionReq, renewed, sessionMixed, strays>>

\* setVerifiedById leaves the sessions alone
VerifyMember(u) ==
    /\ member[u] # "deleted"
    /\ member' = [member EXCEPT ![u] = IF @ = "verified" THEN "unverified" ELSE "verified"]
    /\ UNCHANGED <<tokens, given, sessionReq, renewed, sessionMixed, strays>>

\* Users whose sessions the requests rs were to end
Unended(rs) == {u \in Member : \E r \in rs : SessionAt(r, "logout") /\ sessionReq[r].u = u}

\* A call fails; an error of logoutUserId is logged
SessionFails(r) ==
    /\ sessionReq[r].stage # "idle"
    /\ strays' = strays \cup Unended({r})
    /\ SessionAnswered(r)
    /\ UNCHANGED <<member, tokens, given, renewed, sessionMixed>>

SessionsRestart ==
    /\ strays' = strays \cup Unended(Request)
    /\ sessionReq' = [r \in Request |-> NoSessionReq]
    /\ UNCHANGED <<member, tokens, given, renewed, sessionMixed>>

-----------------------------------------------------------------------------
SessionsInit ==
    /\ member = [u \in Member |-> "verified"]
    /\ tokens = [t \in RefreshToken |-> NoToken]
    /\ given = 0
    /\ sessionReq = [r \in Request |-> NoSessionReq]
    /\ renewed = [t \in RefreshToken |-> 0]
    /\ sessionMixed = {} /\ strays = {}

SessionsNext ==
    \/ \E r \in Request :
          \/ \E u \in Member : Login(r, u) \/ Logout(r, u) \/ DeleteMember(r, u)
          \/ \E t \in RefreshToken : Renew(r, t)
          \/ \E stage \in {"find", "find2"} : FindToken(r, stage)
          \/ LoginSigned(r) \/ PurgeOutdated(r) \/ CreateToken(r) \/ FindTokenUser(r) \/ DropToken(r)
          \/ RenewSigned(r) \/ CheckAttempts(r) \/ CountAttempt(r) \/ EndSessions(r)
          \/ SessionFails(r)
    \/ \E t \in RefreshToken : ExpireToken(t)
    \/ \E u \in Member : VerifyMember(u)
    \/ SessionsRestart

SessionsSpec == SessionsInit /\ [][SessionsNext]_sessionVars

-----------------------------------------------------------------------------
(* Properties.                                                             *)

\* A refresh token is not exchanged more often than the settings allow, nor more often than
\* its document says, unless two renewals with it overlap.
RenewalsCounted ==
    \A t \in RefreshToken :
        \/ t \in sessionMixed
        \/ /\ RefreshAttempts = -1 \/ renewed[t] <= RefreshAttempts
           /\ tokens[t].user = None \/ renewed[t] <= tokens[t].used

\* No refresh token of a deleted user is left when the deletion is done, unless it overlapped
\* with a login of that user, or ending the sessions failed.
NoStrayTokens ==
    \A t \in RefreshToken : \A u \in Member :
        tokens[t].user = u /\ member[u] = "deleted" => u \in strays \cup Unended(Request)
=============================================================================
