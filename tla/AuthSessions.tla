---------------------------- MODULE AuthSessions ----------------------------
(***************************************************************************)
(* AuthService: the accounts of the students and the three tables of       *)
(* tokens.  A slot is a request with its database session; one action is   *)
(* one await and the code up to the next, reading committed rows.  The     *)
(* flush and the commit at the end of a handler are one action: the writes *)
(* of a session all happen in the flush of its commit (autoflush is off).  *)
(*                                                                         *)
(* A request that is refused by what it reads (a wrong password, a revoked *)
(* or expired token) changes nothing; so does a read that cannot fail:     *)
(* accounts are never removed nor deactivated by any code.                 *)
(*                                                                         *)
(* Who presents a token has got it before, in an answer or by mail: tokens *)
(* are random, and the tables hold hashes of those that are mailed.        *)
(***************************************************************************)
EXTENDS Naturals, FiniteSets

CONSTANTS
    Emails,     \* normalized addresses: the unique key of an account
    Passwords,
    Jtis,       \* refresh tokens
    ResetIds,   \* password reset tokens
    VerifyIds,  \* email verification tokens
    Slots,      \* concurrent requests
    None

Tokens == Jtis \cup ResetIds \cup VerifyIds

ASSUME TokensAssumption ==
    /\ Jtis \cap ResetIds = {}
    /\ Jtis \cap VerifyIds = {}
    /\ ResetIds \cap VerifyIds = {}

\* resets is history: how often a reset of this account was committed.
AccountRow == [password : Passwords, verified : BOOLEAN, resets : Nat]

\* login and epoch are history: the token of the login that a token goes
\* back to, and the account's resets when that login's password was checked.
RefreshRow == [user : Emails, revoked : BOOLEAN, login : Jtis, epoch : Nat]
ResetRow == [user : Emails, used : BOOLEAN]

\* password is history: the one the account was registered with.
VerifyRow == [user : Emails, used : BOOLEAN, password : Passwords]

ASSUME NoneAssumption ==
    /\ None \notin AccountRow
    /\ None \notin RefreshRow
    /\ None \notin ResetRow
    /\ None \notin VerifyRow
    /\ None \notin Tokens

Pc == {"idle", "registering", "loggingIn", "rotating", "loggingOut",
       "scanning", "resetting", "verifying", "answering"}

Session == [pc : Pc, user : Emails \cup {None}, password : Passwords \cup {None},
            token : Tokens \cup {None}, epoch : Nat, found : SUBSET Jtis,
            gift : SUBSET Tokens]

Idle == [pc |-> "idle", user |-> None, password |-> None, token |-> None,
         epoch |-> 0, found |-> {}, gift |-> {}]

VARIABLES
    accounts,           \* users
    refreshTokens,      \* refresh_tokens
    resetTokens,        \* password_reset_tokens
    verificationTokens, \* email_verification_tokens
    expired,            \* tokens whose expiry lies in the past
    sessions,           \* the requests in progress
    known,              \* external: tokens that were answered or mailed
    closed              \* history: logins that a logout ended

tables == <<accounts, refreshTokens, resetTokens, verificationTokens>>
vars == <<accounts, refreshTokens, resetTokens, verificationTokens,
          expired, sessions, known, closed>>

Init == /\ accounts = [e \in Emails |-> None]
        /\ refreshTokens = [j \in Jtis |-> None]
        /\ resetTokens = [r \in ResetIds |-> None]
        /\ verificationTokens = [v \in VerifyIds |-> None]
        /\ expired = {}
        /\ sessions = [s \in Slots |-> Idle]
        /\ known = {}
        /\ closed = {}
-----------------------------------------------------------------------------
At(s, pc) == sessions[s].pc = pc
Begin(s, session) == At(s, "idle") /\ sessions' = [sessions EXCEPT ![s] = session]
Answering(s, gift) ==
    sessions' = [sessions EXCEPT ![s] = [Idle EXCEPT !.pc = "answering", !.gift = gift]]

Live(j) == refreshTokens[j] # None /\ ~refreshTokens[j].revoked
Accepts(t) == t \in known /\ t \notin expired

-----------------------------------------------------------------------------
(* register *)

CheckEmail(s, e, p) ==
    /\ accounts[e] = None
    /\ Begin(s, [Idle EXCEPT !.pc = "registering", !.user = e, !.password = p])
    /\ UNCHANGED <<tables, expired, known, closed>>

\* users.email is unique: the flush of the second of two registrations fails
\* (500) and its background mail, scheduled or not, is never sent.
NoEmailConflict(e) == TRUE
EmailIsFree(e) == accounts[e] = None

Register(s, v) ==
    LET e == sessions[s].user
        p == sessions[s].password
    IN  /\ At(s, "registering") /\ EmailIsFree(e)
        /\ verificationTokens[v] = None
        /\ accounts' = [accounts EXCEPT ![e] =
               [password |-> p, verified |-> FALSE, resets |-> 0]]
        /\ verificationTokens' = [verificationTokens EXCEPT ![v] =
               [user |-> e, used |-> FALSE, password |-> p]]
        /\ Answering(s, {v})
        /\ UNCHANGED <<refreshTokens, resetTokens, expired, known, closed>>
-----------------------------------------------------------------------------
(* login, refresh, logout *)

CheckPassword(s, e, p) ==
    /\ accounts[e] # None /\ accounts[e].password = p
    /\ Begin(s, [Idle EXCEPT !.pc = "loggingIn", !.user = e,
                             !.epoch = accounts[e].resets])
    /\ UNCHANGED <<tables, expired, known, closed>>

Login(s, j) ==
    /\ At(s, "loggingIn") /\ refreshTokens[j] = None
    /\ refreshTokens' = [refreshTokens EXCEPT ![j] =
           [user |-> sessions[s].user, revoked |-> FALSE,
            login |-> j, epoch |-> sessions[s].epoch]]
    /\ Answering(s, {j})
    /\ UNCHANGED <<accounts, resetTokens, verificationTokens, expired, known, closed>>

\* The row is read without a lock; the token's expiry is that of the JWT.
AnyTokenRefreshes(j) == refreshTokens[j] # None
Refreshes(j) == Live(j)

ReadRefresh(s, j) ==
    /\ Accepts(j) /\ Refreshes(j)
    /\ Begin(s, [Idle EXCEPT !.pc = "rotating", !.token = j])
    /\ UNCHANGED <<tables, expired, known, closed>>

\* The token that was read is revoked, whatever became of it since, and a new
\* one inserted.
Rotated(t, j) ==
    [refreshTokens EXCEPT ![t].revoked = TRUE,
                          ![j] = [refreshTokens[t] EXCEPT !.revoked = FALSE]]

Rotate(s, j) ==
    /\ At(s, "rotating") /\ refreshTokens[j] = None
    /\ refreshTokens' = Rotated(sessions[s].token, j)
    /\ Answering(s, {j})
    /\ UNCHANGED <<accounts, resetTokens, verificationTokens, expired, known, closed>>

\* An expired or revoked token counts as logged out.
ReadForLogout(s, j) ==
    /\ Accepts(j) /\ Live(j)
    /\ Begin(s, [Idle EXCEPT !.pc = "loggingOut", !.token = j])
    /\ UNCHANGED <<tables, expired, known, closed>>

UnchangedByLogout(j) == refreshTokens
LoggedOut(j) == [refreshTokens EXCEPT ![j].revoked = TRUE]

Logout(s) ==
    LET j == sessions[s].token
    IN  /\ At(s, "loggingOut")
        /\ refreshTokens' = LoggedOut(j)
        /\ closed' = closed \cup {refreshTokens[j].login}
        /\ Answering(s, {})
        /\ UNCHANGED <<accounts, resetTokens, verificationTokens, expired, known>>
-----------------------------------------------------------------------------
(* forgot_password, reset_password *)

\* For an address without account the same answer is given and nothing done.
\* The mail follows the commit.
UncommittedForgotPassword(s, e, r) ==
    /\ accounts[e] # None /\ resetTokens[r] = None
    /\ At(s, "idle") /\ Answering(s, {r})
    /\ UNCHANGED <<tables, expired, known, closed>>
ForgotPassword(s, e, r) ==
    /\ accounts[e] # None /\ resetTokens[r] = None
    /\ resetTokens' = [resetTokens EXCEPT ![r] = [user |-> e, used |-> FALSE]]
    /\ At(s, "idle") /\ Answering(s, {r})
    /\ UNCHANGED <<accounts, refreshTokens, verificationTokens, expired, known, closed>>

AnyResetToken(r) == resetTokens[r] # None
ResetTokenIsValid(r) == resetTokens[r] # None /\ ~resetTokens[r].used

ReadReset(s, r, p) ==
    /\ Accepts(r) /\ ResetTokenIsValid(r)
    /\ Begin(s, [Idle EXCEPT !.pc = "scanning", !.token = r, !.password = p,
                             !.user = resetTokens[r].user])
    /\ UNCHANGED <<tables, expired, known, closed>>

\* The active tokens of the account as of this query will be revoked.
NoTokens(e) == {}
ActiveTokens(e) == {j \in Jtis : Live(j) /\ refreshTokens[j].user = e}

ScanTokens(s) ==
    /\ At(s, "scanning")
    /\ sessions' = [sessions EXCEPT ![s].pc = "resetting",
                                    ![s].found = ActiveTokens(sessions[s].user)]
    /\ UNCHANGED <<tables, expired, known, closed>>

ResetPassword(s) ==
    LET session == sessions[s]
    IN  /\ At(s, "resetting")
        /\ accounts' = [accounts EXCEPT ![session.user].password = session.password,
                                        ![session.user].resets = @ + 1]
        /\ resetTokens' = [resetTokens EXCEPT ![session.token].used = TRUE]
        /\ refreshTokens' = [j \in Jtis |->
               IF j \in session.found THEN [refreshTokens[j] EXCEPT !.revoked = TRUE]
                                      ELSE refreshTokens[j]]
        /\ Answering(s, {})
        /\ UNCHANGED <<verificationTokens, expired, known, closed>>
-----------------------------------------------------------------------------
(* verify_email *)

ReadVerification(s, v) ==
    /\ Accepts(v)
    /\ verificationTokens[v] # None /\ ~verificationTokens[v].used
    /\ Begin(s, [Idle EXCEPT !.pc = "verifying", !.token = v,
                             !.user = verificationTokens[v].user])
    /\ UNCHANGED <<tables, expired, known, closed>>

VerifyEmail(s) ==
    /\ At(s, "verifying")
    /\ accounts' = [accounts EXCEPT ![sessions[s].user].verified = TRUE]
    /\ verificationTokens' =
           [verificationTokens EXCEPT ![sessions[s].token].used = TRUE]
    /\ Answering(s, {})
    /\ UNCHANGED <<refreshTokens, resetTokens, expired, known, closed>>
-----------------------------------------------------------------------------
\* The answer leaves, and the mails that are its background tasks with it.
Answer(s) == /\ At(s, "answering")
             /\ known' = known \cup sessions[s].gift
             /\ sessions' = [sessions EXCEPT ![s] = Idle]
             /\ UNCHANGED <<tables, expired, closed>>

\* A handler that does not finish: a conflict or a failure of the database, a
\* stopped process, a lost answer.  Its session is rolled back.
Abort(s) == /\ ~At(s, "idle")
            /\ sessions' = [sessions EXCEPT ![s] = Idle]
            /\ UNCHANGED <<tables, expired, known, closed>>

\* External: time passes the expiry of a token.
Expire(t) == /\ t \in known \ expired
             /\ expired' = expired \cup {t}
             /\ UNCHANGED <<tables, sessions, known, closed>>

LoginStep(s) ==
    \/ \E e \in Emails, p \in Passwords : CheckPassword(s, e, p)
    \/ \E j \in Jtis : Login(s, j) \/ ReadRefresh(s, j) \/ Rotate(s, j)
                       \/ ReadForLogout(s, j)
    \/ Logout(s)

AccountStep(s) ==
    \/ \E e \in Emails, p \in Passwords : CheckEmail(s, e, p)
    \/ \E v \in VerifyIds : Register(s, v) \/ ReadVerification(s, v)
    \/ \E e \in Emails, r \in ResetIds : ForgotPassword(s, e, r)
    \/ \E r \in ResetIds, p \in Passwords : ReadReset(s, r, p)
    \/ ScanTokens(s) \/ ResetPassword(s) \/ VerifyEmail(s)

Next == \/ \E s \in Slots : LoginStep(s) \/ AccountStep(s) \/ Answer(s) \/ Abort(s)
        \/ \E t \in Tokens : Expire(t)

Spec == Init /\ [][Next]_vars
-----------------------------------------------------------------------------
(* Properties *)

\* The rows and the sessions have their types.
TypeOK == /\ accounts \in [Emails -> AccountRow \cup {None}]
          /\ refreshTokens \in [Jtis -> RefreshRow \cup {None}]
          /\ resetTokens \in [ResetIds -> ResetRow \cup {None}]
          /\ verificationTokens \in [VerifyIds -> VerifyRow \cup {None}]
          /\ expired \subseteq Tokens
          /\ sessions \in [Slots -> Session]
          /\ known \subseteq Tokens
          /\ closed \subseteq Jtis

\* Whoever was given a token by an answer or a mail was given one that is in
\* the database, whatever handler failed or was overtaken on the way.
KnownTokensExist ==
    /\ \A j \in known \cap Jtis : refreshTokens[j] # None
    /\ \A r \in known \cap ResetIds : resetTokens[r] # None
    /\ \A v \in known \cap VerifyIds : verificationTokens[v] # None

\* Of two overlapping registrations of an address, the one that was welcomed
\* owns the account: its password holds until a reset.
WelcomedOwnsAccount ==
    \A v \in known \cap VerifyIds :
        LET row == verificationTokens[v]
        IN  /\ accounts[row.user] # None
            /\ accounts[row.user].resets = 0 => accounts[row.user].password = row.password

\* A refresh token is good for one pair: of the tokens that go back to one
\* login, at most one is still active.
OneLivePerLogin ==
    \A i, j \in Jtis : /\ Live(i) /\ Live(j)
                       /\ refreshTokens[i].login = refreshTokens[j].login
                       => i = j

\* A logout with the active token of a login ends it: no token that goes back
\* to that login is active afterwards.
LogoutEndsLogin == \A j \in Jtis : Live(j) => refreshTokens[j].login \notin closed

\* A password reset ends every session of the account: an active token goes
\* back to a login with the present password.
ResetEndsSessions ==
    \A j \in Jtis : Live(j) =>
        refreshTokens[j].epoch = accounts[refreshTokens[j].user].resets

\* Reset tokens are single-use: every reset of an account spent one.
EveryResetSpendsAToken ==
    \A e \in Emails : accounts[e] # None =>
        accounts[e].resets <=
            Cardinality({r \in ResetIds : /\ resetTokens[r] # None
                                          /\ resetTokens[r].user = e
                                          /\ resetTokens[r].used})
=============================================================================
