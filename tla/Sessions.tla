------------------------------ MODULE Sessions -------------------------------
(***************************************************************************)
(* The sessions of one member: TokenService and the calls of AuthService,  *)
(* ProfilesService.update and resetPassword that issue, rotate and revoke  *)
(* refresh tokens.                                                         *)
(*                                                                         *)
(* A rotation is a transaction that reads the token without a lock,        *)
(* inserts its successor and marks the token by id; what is committed      *)
(* between its SELECT and its COMMIT it does not see.  Every other         *)
(* revocation is one UPDATE.  Where a call makes several statements in no  *)
(* transaction, the instance can stop between them.                        *)
(***************************************************************************)
EXTENDS Integers, FiniteSets

CONSTANTS Tokens, \* refresh tokens that may be issued; a family bears its first token's name
          Users,  \* calls that may run at the same time
          Unissued    \* no token

ASSUME UnissuedAssumption == Unissued \notin Tokens

VARIABLES
    active,   \* whether the member's status is not inactive
    token,    \* the rows of refresh_tokens
    using,    \* what each call is doing
    forked,   \* the families in which a rotation has replaced a token that had
              \* been revoked or had expired since it was read (history)
    stray     \* whether, since all tokens were last revoked, a login that found the
              \* member active has ended after the deactivation, or a call has
              \* stopped before its revocation (history)

sessionVars == <<active, token, using, forked, stray>>

-----------------------------------------------------------------------------
(* recent: revoked, and the leeway (REFRESH_REUSE_LEEWAY_SECONDS) is not   *)
(* over; revoked: it is.                                                   *)

Token == [state: {"none", "live", "expired", "recent", "revoked"},
          family: Tokens \union {Unissued}, next: Tokens \union {Unissued}]
NoToken == [state |-> "none", family |-> Unissued, next |-> Unissued]

\* valid: what the call found when it began, the member active or the token
\* live (history).
Using == [step: {"idle", "issue", "rotate", "profile", "cut", "revokeAll"},
          token: Tokens \union {Unissued}, valid: BOOLEAN]
NotUsing == [step |-> "idle", token |-> Unissued, valid |-> FALSE]

SessionsTypeOK ==
    /\ active \in BOOLEAN
    /\ token \in [Tokens -> Token]
    /\ using \in [Users -> Using]
    /\ forked \subseteq Tokens
    /\ stray \in BOOLEAN

SessionsInit ==
    /\ active = TRUE
    /\ token = [t \in Tokens |-> NoToken]
    /\ using = [u \in Users |-> NotUsing]
    /\ forked = {}
    /\ stray = FALSE

-----------------------------------------------------------------------------
FamilyOf(t)  == {o \in Tokens : token[o].family = token[t].family}
LiveOf(f)    == {t \in Tokens : token[t].state = "live" /\ token[t].family = f}
UsingAt(u, step)  == using[u].step = step
GoOnUsing(u, step)  == using' = [using EXCEPT ![u].step = step]
EndUsing(u)      == using' = [using EXCEPT ![u] = NotUsing]
BeginUsing(u, step, t, valid) ==
    /\ UsingAt(u, "idle")
    /\ using' = [using EXCEPT ![u] = [step |-> step, token |-> t, valid |-> valid]]

\* revoked_at is set where it is null; an expired token's too.
Revoked(ts) ==
    [t \in Tokens |-> IF t \in ts /\ token[t].state \in {"live", "expired"}
                      THEN [token[t] EXCEPT !.state = "recent"]
                      ELSE token[t]]

-----------------------------------------------------------------------------
(* loginWithGoogle, loginWithPassword: canAuthenticate, then issueSession. *)

AnyoneAuthenticates == TRUE
CanAuthenticate == active

StartLogin(u) ==
    /\ CanAuthenticate
    /\ BeginUsing(u, "issue", Unissued, active)
    /\ UNCHANGED <<active, token, forked, stray>>

IssueRefreshToken(u, t) ==
    /\ UsingAt(u, "issue")
    /\ token[t].state = "none"
    /\ token' = [token EXCEPT ![t] = [state |-> "live", family |-> t, next |-> Unissued]]
    /\ stray' = (stray \/ (using[u].valid /\ ~active))
    /\ EndUsing(u)
    /\ UNCHANGED <<active, forked>>

-----------------------------------------------------------------------------
(* refresh: rotateRefreshToken, then the profile.                          *)

WithinLeeway(t) == token[t].state \in {"live", "recent"}
MayRotate(t) == token[t].state = "live"

\* The SELECT of the transaction: what it finds is to be rotated, ...
StartRotate(u, t) ==
    /\ MayRotate(t)
    /\ BeginUsing(u, "rotate", t, token[t].state = "live")
    /\ UNCHANGED <<active, token, forked, stray>>

\* ... or was revoked longer ago than the leeway, which revokes its family.  (The
\* other refusals change nothing.)
DetectReuse(u, t) ==
    /\ UsingAt(u, "idle")
    /\ token[t].state = "revoked"
    /\ token' = Revoked(FamilyOf(t))
    /\ UNCHANGED <<active, using, forked, stray>>

\* The UPDATE of the token that was read, by id.
KeptLive(t, n) == [token[t] EXCEPT !.next = n]
Replaced(t, n) == [token[t] EXCEPT !.state = "recent", !.next = n]

\* The INSERT of the successor, the UPDATE and the COMMIT.
Rotate(u, n) ==
    LET t == using[u].token
    IN /\ UsingAt(u, "rotate")
       /\ token[n].state = "none"
       /\ token' = [token EXCEPT
                       ![t] = Replaced(t, n),
                       ![n] = [state |-> "live", family |-> token[t].family, next |-> Unissued]]
       /\ forked' = IF using[u].valid /\ token[t].state # "live"
                    THEN forked \union {token[t].family} ELSE forked
       /\ GoOnUsing(u, "profile")
       /\ UNCHANGED <<active, stray>>

\* loadProfileById: the member may be inactive by now.
MayRefresh == active

LoadProfile(u) ==
    /\ UsingAt(u, "profile")
    /\ IF MayRefresh THEN EndUsing(u) ELSE GoOnUsing(u, "revokeAll")
    /\ UNCHANGED <<active, token, forked, stray>>

-----------------------------------------------------------------------------
(* logout: revokeFamilyOf, a SELECT of the family and an UPDATE; without a *)
(* token, every session.                                                   *)

StartLogout(u, t) ==
    /\ token[t].state # "none"
    /\ BeginUsing(u, "cut", t, TRUE)
    /\ UNCHANGED <<active, token, forked, stray>>

RevokeFamilyOf(u) ==
    /\ UsingAt(u, "cut")
    /\ token' = Revoked(FamilyOf(using[u].token))
    /\ EndUsing(u)
    /\ UNCHANGED <<active, forked, stray>>

LogoutEverywhere(u) ==
    /\ BeginUsing(u, "revokeAll", Unissued, TRUE)
    /\ UNCHANGED <<active, token, forked, stray>>

-----------------------------------------------------------------------------
(* The statements before revokeAllForProfile: the password's UPDATE        *)
(* (changePassword asks for a member who is not inactive, resetPassword    *)
(* does not), the transaction that makes the member inactive.              *)

ChangePassword(u) ==
    /\ active
    /\ BeginUsing(u, "revokeAll", Unissued, TRUE)
    /\ UNCHANGED <<active, token, forked, stray>>

ResetPassword(u) ==
    /\ BeginUsing(u, "revokeAll", Unissued, TRUE)
    /\ UNCHANGED <<active, token, forked, stray>>

Deactivate(u) ==
    /\ active
    /\ active' = FALSE
    /\ BeginUsing(u, "revokeAll", Unissued, TRUE)
    /\ UNCHANGED <<token, forked, stray>>

Reactivate ==
    /\ ~active
    /\ active' = TRUE
    /\ UNCHANGED <<token, using, forked, stray>>

RevokeAllForProfile(u) ==
    /\ UsingAt(u, "revokeAll")
    /\ token' = Revoked(Tokens)
    /\ stray' = FALSE
    /\ EndUsing(u)
    /\ UNCHANGED <<active, forked>>

-----------------------------------------------------------------------------
\* The statement fails or the instance stops; a transaction is rolled back.
StopUsing(u) ==
    /\ ~UsingAt(u, "idle")
    /\ stray' = (stray \/ UsingAt(u, "revokeAll") \/ (UsingAt(u, "profile") /\ ~active))
    /\ EndUsing(u)
    /\ UNCHANGED <<active, token, forked>>

\* The token's seven days, and the leeway, are over.
TokenExpires(t) ==
    /\ token[t].state = "live"
    /\ token' = [token EXCEPT ![t].state = "expired"]
    /\ UNCHANGED <<active, using, forked, stray>>

LeewayEnds(t) ==
    /\ token[t].state = "recent"
    /\ token' = [token EXCEPT ![t].state = "revoked"]
    /\ UNCHANGED <<active, using, forked, stray>>

SessionsNext ==
    \/ \E u \in Users :
          \/ StartLogin(u)
          \/ \E t \in Tokens : \/ IssueRefreshToken(u, t) \/ StartLogout(u, t)
                             \/ StartRotate(u, t) \/ DetectReuse(u, t) \/ Rotate(u, t)
          \/ LoadProfile(u) \/ RevokeFamilyOf(u) \/ LogoutEverywhere(u)
          \/ ChangePassword(u) \/ ResetPassword(u) \/ Deactivate(u)
          \/ RevokeAllForProfile(u)
          \/ StopUsing(u)
    \/ Reactivate
    \/ \E t \in Tokens : TokenExpires(t) \/ LeewayEnds(t)

SessionsSpec == SessionsInit /\ [][SessionsNext]_sessionVars

-----------------------------------------------------------------------------
\* rotateRefreshToken ("yang lama dicabut, yang baru diterbitkan"): a session has
\* one live token at most, unless a rotation has replaced a token that another
\* call had replaced or revoked since it was read.
OneLiveTokenPerFamily ==
    \A f \in Tokens : f \in forked \/ Cardinality(LiveOf(f)) <= 1

\* A session that has ended (by logout, by reuse, with all the others, by its
\* seven days) does not come back, unless a rotation had read its token before.
EndedSessionsStayEnded ==
    [][\A f \in Tokens :
          token[f].family = f /\ LiveOf(f) = {} /\ LiveOf(f)' # {} => f \in forked']_sessionVars

\* profiles.update ("Dinonaktifkan berarti berhenti, dan berhenti berarti
\* sekarang"): an inactive member has no live token once the calls that rotate
\* and revoke are through, unless a login was under way at the deactivation or
\* a call stopped before it revoked.
InactiveMeansNoSession ==
    ~active /\ (\A u \in Users : using[u].step \notin {"revokeAll", "profile"})
        => stray \/ \A t \in Tokens : token[t].state # "live"
=============================================================================
