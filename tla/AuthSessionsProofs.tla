------------------------- MODULE AuthSessionsProofs -------------------------
(***************************************************************************)
(* Theorems of AuthSessions, for every set of accounts, tokens and         *)
(* concurrent requests, and two for requests that do not overlap.          *)
(*                                                                         *)
(* The invariant says what a request still knows when it writes: the rows  *)
(* that it has read exist and keep their user, since rows are only ever    *)
(* added.  What their flags say may have changed, unless the request is    *)
(* alone.                                                                  *)
(***************************************************************************)
EXTENDS AuthSessions, FiniteSetTheorems, TLAPS

Exists(t) == /\ t \in Jtis => refreshTokens[t] # None
             /\ t \in ResetIds => resetTokens[t] # None
             /\ t \in VerifyIds => verificationTokens[t] # None

\* Every row has its account; a verification token, the one it came with.
RowsHaveAccounts ==
    /\ \A j \in Jtis : refreshTokens[j] # None => accounts[refreshTokens[j].user] # None
    /\ \A r \in ResetIds : resetTokens[r] # None => accounts[resetTokens[r].user] # None

Welcome(v) ==
    LET row == verificationTokens[v]
    IN  row # None => /\ accounts[row.user] # None
                      /\ accounts[row.user].resets = 0 =>
                             accounts[row.user].password = row.password

\* What a request knows at each of its awaits.
Knows(s) ==
    LET session == sessions[s]
    IN  /\ session.pc = "registering" =>
               session.user \in Emails /\ session.password \in Passwords
        /\ session.pc = "loggingIn" =>
               session.user \in Emails /\ accounts[session.user] # None
        /\ session.pc \in {"rotating", "loggingOut"} =>
               session.token \in Jtis /\ refreshTokens[session.token] # None
        /\ session.pc \in {"scanning", "resetting"} =>
               /\ session.token \in ResetIds /\ resetTokens[session.token] # None
               /\ session.user \in Emails /\ accounts[session.user] # None
               /\ session.password \in Passwords
        /\ session.pc = "verifying" =>
               /\ session.token \in VerifyIds /\ verificationTokens[session.token] # None
               /\ session.user \in Emails /\ accounts[session.user] # None
        /\ \A j \in session.found : refreshTokens[j] # None
        /\ \A t \in session.gift : Exists(t)

IInv == /\ TypeOK
        /\ RowsHaveAccounts
        /\ \A v \in VerifyIds : Welcome(v)
        /\ \A s \in Slots : Knows(s)
        /\ \A t \in known : Exists(t)
-----------------------------------------------------------------------------
LEMMA InitIInv == Init => IInv
  BY NoneAssumption DEF Init, IInv, TypeOK, Session, Pc, Idle, RowsHaveAccounts,
                        Welcome, Knows, Exists

\* Rows are added and never removed.
RowsStay == /\ \A e \in Emails : accounts[e] # None => accounts'[e] # None
            /\ \A j \in Jtis : refreshTokens[j] # None => refreshTokens'[j] # None
            /\ \A r \in ResetIds : resetTokens[r] # None => resetTokens'[r] # None
            /\ \A v \in VerifyIds : verificationTokens[v] # None => verificationTokens'[v] # None

LEMMA ExistsStays == ASSUME RowsStay, NEW t, Exists(t) PROVE Exists(t)'
  BY DEF RowsStay, Exists

LEMMA KnowsStays ==
    ASSUME TypeOK, RowsStay, NEW s \in Slots, Knows(s), sessions'[s] = sessions[s]
    PROVE  Knows(s)'
<1>1. \A t \in sessions[s].gift : Exists(t)'
  BY ExistsStays DEF Knows
<1>2. sessions[s].found \in SUBSET Jtis
  BY DEF TypeOK, Session
<1>. QED
  BY <1>1, <1>2 DEF Knows, RowsStay

\* A step of s that keeps the rows is judged by its own session and by what
\* it adds to the tables and to the known tokens.
LEMMA StepIsLocal ==
    ASSUME IInv, RowsStay, NEW s \in Slots,
           \A n \in Slots : n # s => sessions'[n] = sessions[n],
           TypeOK', Knows(s)', RowsHaveAccounts', \A v \in VerifyIds : Welcome(v)',
           known' = known
    PROVE  IInv'
<1>1. \A n \in Slots : Knows(n)'
  <2> TAKE n \in Slots
  <2>1. CASE n = s
    BY <2>1
  <2>2. CASE n # s
    <3>1. TypeOK /\ Knows(n) /\ sessions'[n] = sessions[n]
      BY <2>2 DEF IInv
    <3>. QED
      BY <3>1, KnowsStays
  <2>. QED
    BY <2>1, <2>2
<1>2. \A t \in known' : Exists(t)'
  BY ExistsStays DEF IInv
<1>. QED
  BY <1>1, <1>2 DEF IInv

\* A step that leaves the tables leaves what is said of them.
LEMMA TablesStay ==
    ASSUME IInv, UNCHANGED tables
    PROVE  RowsStay /\ RowsHaveAccounts' /\ (\A v \in VerifyIds : Welcome(v)')
  BY DEF IInv, tables, RowsStay, RowsHaveAccounts, Welcome

\* The session of a request after its first read.
Begun(pc, user, password, token, epoch) ==
    [pc |-> pc, user |-> user, password |-> password, token |-> token,
     epoch |-> epoch, found |-> {}, gift |-> {}]

LEMMA BegunIsTyped ==
    ASSUME NEW pc \in Pc, NEW user \in Emails \cup {None},
           NEW password \in Passwords \cup {None}, NEW token \in Tokens \cup {None},
           NEW epoch \in Nat
    PROVE  Begun(pc, user, password, token, epoch) \in Session
  BY DEF Begun, Session

\* A read: the tables stay and a session begins.
LEMMA ReadKeeps ==
    ASSUME IInv, NEW s \in Slots,
           \/ \E e \in Emails, p \in Passwords : CheckEmail(s, e, p) \/ CheckPassword(s, e, p)
           \/ \E j \in Jtis : ReadRefresh(s, j) \/ ReadForLogout(s, j)
           \/ \E r \in ResetIds, p \in Passwords : ReadReset(s, r, p)
           \/ \E v \in VerifyIds : ReadVerification(s, v)
           \/ ScanTokens(s)
    PROVE  IInv'
<1>1. UNCHANGED tables /\ known' = known
  BY DEF CheckEmail, CheckPassword, ReadRefresh, ReadForLogout, ReadReset,
         ReadVerification, ScanTokens
<1>2. sessions' = [sessions EXCEPT ![s] = sessions'[s]]
  BY DEF IInv, TypeOK, CheckEmail, CheckPassword, ReadRefresh, ReadForLogout, ReadReset,
         ReadVerification, ScanTokens, Begin
<1> DEFINE session == sessions'[s]
<1>0. sessions[s] \in Session
  BY DEF IInv, TypeOK
<1>3. session \in Session /\ Knows(s)'
  <2>1. ASSUME NEW e \in Emails, NEW p \in Passwords, CheckEmail(s, e, p)
        PROVE  session \in Session /\ Knows(s)'
    <3>1. session = Begun("registering", e, p, None, 0)
      BY <2>1 DEF IInv, TypeOK, CheckEmail, Begin, Idle, Begun
    <3>2. session \in Session
      BY <3>1, BegunIsTyped DEF Pc
    <3>. QED
      BY <3>1, <3>2 DEF Knows, Begun
  <2>6. ASSUME NEW e \in Emails, NEW p \in Passwords, CheckPassword(s, e, p)
        PROVE  session \in Session /\ Knows(s)'
    <3>1. session = Begun("loggingIn", e, None, None, accounts[e].resets)
      BY <2>6 DEF IInv, TypeOK, CheckPassword, Begin, Idle, Begun
    <3>2. accounts[e] # None /\ accounts[e].resets \in Nat
      BY <2>6 DEF CheckPassword, IInv, TypeOK, AccountRow
    <3>3. session \in Session
      BY <3>1, <3>2, BegunIsTyped DEF Pc
    <3>. QED
      BY <3>1, <3>2, <3>3, <1>1 DEF Knows, tables, Begun
  <2>2. ASSUME NEW j \in Jtis, ReadRefresh(s, j) \/ ReadForLogout(s, j)
        PROVE  session \in Session /\ Knows(s)'
    <3>1. /\ \/ session = Begun("rotating", None, None, j, 0)
             \/ session = Begun("loggingOut", None, None, j, 0)
          /\ refreshTokens[j] # None
      BY <2>2 DEF IInv, TypeOK, ReadRefresh, ReadForLogout, Begin, Refreshes, Live,
                  Idle, Begun
    <3>2. j \in Tokens
      BY DEF Tokens
    <3>3. session \in Session
      BY <3>1, <3>2, BegunIsTyped DEF Pc
    <3>. QED
      BY <3>1, <3>3, <1>1 DEF Knows, tables, Begun
  <2>3. ASSUME NEW r \in ResetIds, NEW p \in Passwords, ReadReset(s, r, p)
        PROVE  session \in Session /\ Knows(s)'
    <3>1. /\ session = Begun("scanning", resetTokens[r].user, p, r, 0)
          /\ resetTokens[r] # None
      BY <2>3 DEF IInv, TypeOK, ReadReset, ResetTokenIsValid, Begin, Idle, Begun
    <3>2. resetTokens[r].user \in Emails /\ accounts[resetTokens[r].user] # None
      BY <3>1 DEF IInv, TypeOK, ResetRow, RowsHaveAccounts
    <3>3. r \in Tokens
      BY DEF Tokens
    <3>4. session \in Session
      BY <3>1, <3>2, <3>3, BegunIsTyped DEF Pc
    <3>. QED
      BY <3>1, <3>2, <3>4, <1>1 DEF Knows, tables, Begun
  <2>4. ASSUME NEW v \in VerifyIds, ReadVerification(s, v)
        PROVE  session \in Session /\ Knows(s)'
    <3>1. /\ session = Begun("verifying", verificationTokens[v].user, None, v, 0)
          /\ verificationTokens[v] # None
      BY <2>4 DEF IInv, TypeOK, ReadVerification, Begin, Idle, Begun
    <3>2. verificationTokens[v].user \in Emails /\ accounts[verificationTokens[v].user] # None
      BY <3>1 DEF IInv, TypeOK, VerifyRow, Welcome
    <3>3. v \in Tokens
      BY DEF Tokens
    <3>4. session \in Session
      BY <3>1, <3>2, <3>3, BegunIsTyped DEF Pc
    <3>. QED
      BY <3>1, <3>2, <3>4, <1>1 DEF Knows, tables, Begun
  <2>5. CASE ScanTokens(s)
    <3>1. /\ session = [sessions[s] EXCEPT !.pc = "resetting",
                                           !.found = ActiveTokens(sessions[s].user)]
          /\ sessions[s].pc = "scanning"
      BY <2>5 DEF IInv, TypeOK, ScanTokens, At
    <3>2. session \in Session
      BY <1>0, <3>1 DEF Session, Pc, ActiveTokens
    <3>3. \A j \in session.found : refreshTokens[j] # None
      BY <1>0, <3>1 DEF Session, ActiveTokens, Live
    <3>4. Knows(s) /\ UNCHANGED tables
      BY <1>1 DEF IInv
    <3>5. \A t \in session.gift : Exists(t)'
      BY <1>0, <3>1, <3>4 DEF Knows, Session, Exists, tables
    <3>. QED
      BY <1>0, <3>1, <3>2, <3>3, <3>4, <3>5 DEF Knows, tables, Session
  <2>. QED
    BY <2>1, <2>2, <2>3, <2>4, <2>5, <2>6
<1>4. TypeOK'
  BY <1>1, <1>2, <1>3 DEF IInv, TypeOK, tables, CheckEmail, CheckPassword, ReadRefresh,
         ReadForLogout, ReadReset, ReadVerification, ScanTokens
<1>5. \A n \in Slots : n # s => sessions'[n] = sessions[n]
  BY <1>2 DEF IInv, TypeOK
<1>. QED
  BY <1>1, <1>3, <1>4, <1>5, TablesStay, StepIsLocal

\* The session of a request that is about to answer.
LEMMA AnsweringKnows ==
    ASSUME TypeOK, NEW s \in Slots, NEW gift \in SUBSET Tokens, Answering(s, gift),
           \A t \in gift : Exists(t)'
    PROVE  /\ sessions' \in [Slots -> Session] /\ Knows(s)'
           /\ \A n \in Slots : n # s => sessions'[n] = sessions[n]
  BY DEF TypeOK, Answering, Idle, Session, Pc, Knows

LEMMA RegisterKeeps ==
    ASSUME IInv, NEW s \in Slots, NEW v \in VerifyIds, Register(s, v)
    PROVE  IInv'
<1> DEFINE e == sessions[s].user
           p == sessions[s].password
<1>1. e \in Emails /\ p \in Passwords
  BY DEF Register, IInv, Knows, At
<1>2. /\ accounts[e] = None /\ verificationTokens[v] = None
      /\ accounts' = [accounts EXCEPT ![e] = [password |-> p, verified |-> FALSE, resets |-> 0]]
      /\ verificationTokens' = [verificationTokens EXCEPT ![v] =
             [user |-> e, used |-> FALSE, password |-> p]]
      /\ Answering(s, {v})
      /\ UNCHANGED <<refreshTokens, resetTokens, expired, known, closed>>
  BY DEF Register, EmailIsFree
<1> HIDE DEF e, p
<1>3. /\ [password |-> p, verified |-> FALSE, resets |-> 0] \in AccountRow
      /\ [user |-> e, used |-> FALSE, password |-> p] \in VerifyRow
  BY <1>1 DEF AccountRow, VerifyRow
<1>4. /\ accounts' \in [Emails -> AccountRow \cup {None}]
      /\ verificationTokens' \in [VerifyIds -> VerifyRow \cup {None}]
  BY <1>2, <1>3 DEF IInv, TypeOK
<1>5. accounts'[e] # None /\ verificationTokens'[v] # None
  BY <1>1, <1>2, <1>3, NoneAssumption DEF IInv, TypeOK
<1>6. RowsStay
  BY <1>1, <1>2, <1>5 DEF IInv, TypeOK, RowsStay
<1>7. \A t \in {v} : Exists(t)'
  BY <1>5, TokensAssumption DEF Exists
<1>8. /\ sessions' \in [Slots -> Session] /\ Knows(s)'
      /\ \A n \in Slots : n # s => sessions'[n] = sessions[n]
  BY <1>2, <1>7, AnsweringKnows DEF IInv, Tokens
<1>9. RowsHaveAccounts'
  BY <1>2, <1>6 DEF IInv, TypeOK, RowsHaveAccounts, RowsStay, RefreshRow, ResetRow
<1>10. \A w \in VerifyIds : Welcome(w)'
  <2> TAKE w \in VerifyIds
  <2>1. CASE w = v
    BY <2>1, <1>1, <1>2, <1>5 DEF IInv, TypeOK, Welcome
  <2>2. CASE w # v
    BY <2>2, <1>1, <1>2 DEF IInv, TypeOK, Welcome
  <2>. QED
    BY <2>1, <2>2
<1>11. TypeOK'
  BY <1>2, <1>4, <1>8 DEF IInv, TypeOK
<1>. QED
  BY <1>2, <1>6, <1>8, <1>9, <1>10, <1>11, StepIsLocal

\* login and refresh insert a token.
LEMMA InsertTokenKeeps ==
    ASSUME IInv, NEW s \in Slots, NEW j \in Jtis, Login(s, j) \/ Rotate(s, j)
    PROVE  IInv'
<1>1. /\ refreshTokens' \in [Jtis -> RefreshRow \cup {None}]
      /\ refreshTokens'[j] # None
      /\ \A i \in Jtis : refreshTokens[i] # None =>
             refreshTokens'[i] # None /\ refreshTokens'[i].user = refreshTokens[i].user
      /\ accounts[refreshTokens'[j].user] # None
      /\ \A i \in Jtis : refreshTokens'[i] # None => i = j \/ refreshTokens[i] # None
  <2>1. CASE Login(s, j)
    <3> DEFINE row == [user |-> sessions[s].user, revoked |-> FALSE,
                       login |-> j, epoch |-> sessions[s].epoch]
    <3>1. sessions[s].user \in Emails /\ accounts[sessions[s].user] # None
      BY <2>1 DEF Login, At, IInv, Knows
    <3>2. row \in RefreshRow /\ row.user = sessions[s].user
      BY <3>1 DEF RefreshRow, IInv, TypeOK, Session
    <3>3. refreshTokens' = [refreshTokens EXCEPT ![j] = row] /\ refreshTokens[j] = None
      BY <2>1 DEF Login
    <3> HIDE DEF row
    <3>. QED
      BY <3>1, <3>2, <3>3, NoneAssumption DEF IInv, TypeOK
  <2>2. CASE Rotate(s, j)
    <3> DEFINE t == sessions[s].token
               row == [refreshTokens[t] EXCEPT !.revoked = FALSE]
               spent == [refreshTokens[t] EXCEPT !.revoked = TRUE]
    <3>1. t \in Jtis /\ refreshTokens[t] # None
      BY <2>2 DEF Rotate, At, IInv, Knows
    <3>2. refreshTokens[t] \in RefreshRow
      BY <3>1 DEF IInv, TypeOK
    <3>3. /\ row \in RefreshRow /\ row.user = refreshTokens[t].user
          /\ spent \in RefreshRow /\ spent.user = refreshTokens[t].user
      BY <3>2 DEF RefreshRow
    <3>4. refreshTokens[j] = None /\ refreshTokens' = [refreshTokens EXCEPT ![t] = spent, ![j] = row]
      BY <2>2 DEF Rotate, Rotated
    <3> HIDE DEF t, row, spent
    <3>5. t # j
      BY <3>1, <3>4
    <3>. QED
      BY <3>1, <3>2, <3>3, <3>4, <3>5, NoneAssumption DEF IInv, TypeOK, RowsHaveAccounts
  <2>. QED
    BY <2>1, <2>2
<1>2. /\ Answering(s, {j})
      /\ UNCHANGED <<accounts, resetTokens, verificationTokens, expired, known, closed>>
  BY DEF Login, Rotate
<1>3. RowsStay
  BY <1>1, <1>2 DEF RowsStay
<1>4. \A t \in {j} : Exists(t)'
  BY <1>1, TokensAssumption DEF Exists
<1>5. /\ sessions' \in [Slots -> Session] /\ Knows(s)'
      /\ \A n \in Slots : n # s => sessions'[n] = sessions[n]
  BY <1>2, <1>4, AnsweringKnows DEF IInv, Tokens
<1>6. RowsHaveAccounts'
  BY <1>1, <1>2 DEF IInv, RowsHaveAccounts
<1>7. \A v \in VerifyIds : Welcome(v)'
  BY <1>2 DEF IInv, Welcome
<1>8. TypeOK'
  BY <1>1, <1>2, <1>5 DEF IInv, TypeOK
<1>. QED
  BY <1>2, <1>3, <1>5, <1>6, <1>7, <1>8, StepIsLocal

LEMMA LogoutKeeps == ASSUME IInv, NEW s \in Slots, Logout(s) PROVE IInv'
<1> DEFINE j == sessions[s].token
           spent == [refreshTokens[j] EXCEPT !.revoked = TRUE]
<1>1. j \in Jtis /\ refreshTokens[j] # None
  BY DEF Logout, At, IInv, Knows
<1>2. refreshTokens[j] \in RefreshRow
  BY <1>1 DEF IInv, TypeOK
<1>3. spent \in RefreshRow /\ spent.user = refreshTokens[j].user /\ refreshTokens[j].login \in Jtis
  BY <1>2 DEF RefreshRow
<1>4. /\ refreshTokens' = [refreshTokens EXCEPT ![j] = spent]
      /\ closed' = closed \cup {refreshTokens[j].login}
      /\ Answering(s, {})
      /\ UNCHANGED <<accounts, resetTokens, verificationTokens, expired, known>>
  BY DEF Logout, LoggedOut
<1> HIDE DEF j, spent
<1>5. /\ refreshTokens' \in [Jtis -> RefreshRow \cup {None}]
      /\ closed' \subseteq Jtis
      /\ RowsStay /\ RowsHaveAccounts'
  BY <1>1, <1>2, <1>3, <1>4, NoneAssumption DEF IInv, TypeOK, RowsStay, RowsHaveAccounts
<1>6. \A v \in VerifyIds : Welcome(v)'
  BY <1>4 DEF IInv, Welcome
<1>7. /\ sessions' \in [Slots -> Session] /\ Knows(s)'
      /\ \A n \in Slots : n # s => sessions'[n] = sessions[n]
  BY <1>4, AnsweringKnows DEF IInv
<1>8. TypeOK'
  BY <1>4, <1>5, <1>7 DEF IInv, TypeOK
<1>. QED
  BY <1>4, <1>5, <1>6, <1>7, <1>8, StepIsLocal

LEMMA ForgotPasswordKeeps ==
    ASSUME IInv, NEW s \in Slots, NEW e \in Emails, NEW r \in ResetIds, ForgotPassword(s, e, r)
    PROVE  IInv'
<1> DEFINE row == [user |-> e, used |-> FALSE]
<1>1. row \in ResetRow /\ row.user = e
  BY DEF ResetRow
<1>2. /\ resetTokens' = [resetTokens EXCEPT ![r] = row]
      /\ accounts[e] # None /\ resetTokens[r] = None
      /\ Answering(s, {r})
      /\ UNCHANGED <<accounts, refreshTokens, verificationTokens, expired, known, closed>>
  BY DEF ForgotPassword
<1> HIDE DEF row
<1>3. /\ resetTokens' \in [ResetIds -> ResetRow \cup {None}]
      /\ resetTokens'[r] # None
      /\ RowsStay /\ RowsHaveAccounts'
  BY <1>1, <1>2, NoneAssumption DEF IInv, TypeOK, RowsStay, RowsHaveAccounts
<1>4. \A t \in {r} : Exists(t)'
  BY <1>3, TokensAssumption DEF Exists
<1>5. \A v \in VerifyIds : Welcome(v)'
  BY <1>2 DEF IInv, Welcome
<1>6. /\ sessions' \in [Slots -> Session] /\ Knows(s)'
      /\ \A n \in Slots : n # s => sessions'[n] = sessions[n]
  BY <1>2, <1>4, AnsweringKnows DEF IInv, Tokens
<1>7. TypeOK'
  BY <1>2, <1>3, <1>6 DEF IInv, TypeOK
<1>. QED
  BY <1>2, <1>3, <1>5, <1>6, <1>7, StepIsLocal

\* A reset changes the password of an account and counts: its welcome no
\* longer says anything.
LEMMA ResetPasswordKeeps == ASSUME IInv, NEW s \in Slots, ResetPassword(s) PROVE IInv'
<1> DEFINE e == sessions[s].user
           p == sessions[s].password
           r == sessions[s].token
           account == [accounts[e] EXCEPT !.password = p, !.resets = @ + 1]
           spent == [resetTokens[r] EXCEPT !.used = TRUE]
           found == sessions[s].found
<1>1. /\ r \in ResetIds /\ resetTokens[r] # None
      /\ e \in Emails /\ accounts[e] # None /\ p \in Passwords
      /\ \A j \in found : refreshTokens[j] # None
  BY DEF ResetPassword, At, IInv, Knows
<1>2. accounts[e] \in AccountRow /\ resetTokens[r] \in ResetRow
  BY <1>1 DEF IInv, TypeOK
<1>3. account \in AccountRow /\ account.resets # 0
  <2>1. /\ accounts[e].resets \in Nat /\ accounts[e].resets + 1 \in Nat
        /\ accounts[e].resets + 1 # 0
    BY <1>2 DEF AccountRow
  <2> DEFINE next == accounts[e].resets + 1
  <2> DEFINE old == accounts[e]
  <2>a. old = [password |-> old.password, verified |-> old.verified, resets |-> old.resets]
    BY <1>2 DEF AccountRow
  <2>b. account = [old EXCEPT !.password = p, !.resets = next]
    OBVIOUS
  <2> HIDE DEF old, next, account
  <2>c. account = [password |-> p, verified |-> old.verified, resets |-> next]
    BY <2>a, <2>b
  <2>2. account = [password |-> p, verified |-> accounts[e].verified, resets |-> next]
    BY <2>c DEF old
  <2>3. accounts[e].verified \in BOOLEAN
    BY <1>2 DEF AccountRow
  <2>4. next \in Nat /\ next # 0
    BY <2>1 DEF next
  <2>. QED
    BY <1>1, <2>2, <2>3, <2>4 DEF AccountRow
<1>4. spent \in ResetRow /\ spent.user = resetTokens[r].user
  BY <1>2 DEF ResetRow
<1>5. /\ accounts' = [accounts EXCEPT ![e] = account]
      /\ resetTokens' = [resetTokens EXCEPT ![r] = spent]
      /\ refreshTokens' = [j \in Jtis |->
             IF j \in found THEN [refreshTokens[j] EXCEPT !.revoked = TRUE]
                            ELSE refreshTokens[j]]
      /\ Answering(s, {})
      /\ UNCHANGED <<verificationTokens, expired, known, closed>>
  <2>1. accounts' = [accounts EXCEPT ![e].password = p, ![e].resets = @ + 1]
    BY DEF ResetPassword
  <2>2. accounts \in [Emails -> AccountRow \cup {None}]
    BY DEF IInv, TypeOK
  <2>. QED
    BY <1>1, <1>2, <2>1, <2>2 DEF ResetPassword, AccountRow
<1> HIDE DEF e, p, r, account, spent, found
<1>6. \A j \in Jtis :
        /\ refreshTokens'[j] \in RefreshRow \cup {None}
        /\ refreshTokens[j] # None =>
               refreshTokens'[j] # None /\ refreshTokens'[j].user = refreshTokens[j].user
        /\ refreshTokens'[j] # None => refreshTokens[j] # None
  <2> TAKE j \in Jtis
  <2>1. CASE j \in found
    <3>1. refreshTokens[j] \in RefreshRow /\ refreshTokens[j] # None
      BY <2>1, <1>1 DEF IInv, TypeOK
    <3>2. refreshTokens'[j] = [refreshTokens[j] EXCEPT !.revoked = TRUE]
      BY <2>1, <1>5
    <3>. QED
      BY <3>1, <3>2, NoneAssumption DEF RefreshRow
  <2>2. CASE j \notin found
    <3>1. refreshTokens'[j] = refreshTokens[j]
      BY <2>2, <1>5
    <3>. QED
      BY <3>1 DEF IInv, TypeOK
  <2>. QED
    BY <2>1, <2>2
<1>7. refreshTokens' \in [Jtis -> RefreshRow \cup {None}]
  BY <1>5, <1>6
<1>8. /\ accounts' \in [Emails -> AccountRow \cup {None}]
      /\ resetTokens' \in [ResetIds -> ResetRow \cup {None}]
      /\ \A d \in Emails : accounts[d] # None => accounts'[d] # None
      /\ \A q \in ResetIds : resetTokens[q] # None =>
             resetTokens'[q] # None /\ resetTokens'[q].user = resetTokens[q].user
      /\ \A q \in ResetIds : resetTokens'[q] # None => resetTokens[q] # None
  BY <1>1, <1>3, <1>4, <1>5, NoneAssumption DEF IInv, TypeOK
<1>9. RowsStay
  BY <1>5, <1>6, <1>8 DEF RowsStay
<1>10. RowsHaveAccounts'
  BY <1>6, <1>8 DEF IInv, TypeOK, RowsHaveAccounts, RefreshRow, ResetRow
<1>11. \A v \in VerifyIds : Welcome(v)'
  <2> TAKE v \in VerifyIds
  <2>1. verificationTokens[v] # None => verificationTokens[v].user \in Emails
    BY DEF IInv, TypeOK, VerifyRow
  <2>2. Welcome(v)
    BY DEF IInv
  <2>. QED
    BY <2>1, <2>2, <1>1, <1>3, <1>5, <1>8 DEF Welcome, IInv, TypeOK
<1>12. /\ sessions' \in [Slots -> Session] /\ Knows(s)'
       /\ \A n \in Slots : n # s => sessions'[n] = sessions[n]
  BY <1>5, AnsweringKnows DEF IInv
<1>13. TypeOK'
  BY <1>5, <1>7, <1>8, <1>12 DEF IInv, TypeOK
<1>. QED
  BY <1>5, <1>9, <1>10, <1>11, <1>12, <1>13, StepIsLocal

LEMMA VerifyEmailKeeps == ASSUME IInv, NEW s \in Slots, VerifyEmail(s) PROVE IInv'
<1> DEFINE e == sessions[s].user
           v == sessions[s].token
           account == [accounts[e] EXCEPT !.verified = TRUE]
           spent == [verificationTokens[v] EXCEPT !.used = TRUE]
<1>1. /\ v \in VerifyIds /\ verificationTokens[v] # None
      /\ e \in Emails /\ accounts[e] # None
  BY DEF VerifyEmail, At, IInv, Knows
<1>2. accounts[e] \in AccountRow /\ verificationTokens[v] \in VerifyRow
  BY <1>1 DEF IInv, TypeOK
<1>3. /\ account \in AccountRow /\ account.password = accounts[e].password
      /\ account.resets = accounts[e].resets
  BY <1>2 DEF AccountRow
<1>4. /\ spent \in VerifyRow /\ spent.user = verificationTokens[v].user
      /\ spent.password = verificationTokens[v].password
  BY <1>2 DEF VerifyRow
<1>5. /\ accounts' = [accounts EXCEPT ![e] = account]
      /\ verificationTokens' = [verificationTokens EXCEPT ![v] = spent]
      /\ Answering(s, {})
      /\ UNCHANGED <<refreshTokens, resetTokens, expired, known, closed>>
  BY DEF VerifyEmail
<1> HIDE DEF e, v, account, spent
<1>6. /\ accounts' \in [Emails -> AccountRow \cup {None}]
      /\ verificationTokens' \in [VerifyIds -> VerifyRow \cup {None}]
      /\ \A d \in Emails : accounts[d] # None =>
             /\ accounts'[d] # None
             /\ accounts'[d].password = accounts[d].password
             /\ accounts'[d].resets = accounts[d].resets
      /\ \A w \in VerifyIds : verificationTokens[w] # None =>
             /\ verificationTokens'[w] # None
             /\ verificationTokens'[w].user = verificationTokens[w].user
             /\ verificationTokens'[w].password = verificationTokens[w].password
      /\ \A w \in VerifyIds : verificationTokens'[w] # None => verificationTokens[w] # None
  BY <1>1, <1>3, <1>4, <1>5, NoneAssumption DEF IInv, TypeOK
<1>7. RowsStay
  BY <1>5, <1>6 DEF RowsStay
<1>8. RowsHaveAccounts'
  BY <1>5, <1>6 DEF IInv, TypeOK, RowsHaveAccounts, RefreshRow, ResetRow
<1>9. \A w \in VerifyIds : Welcome(w)'
  <2> TAKE w \in VerifyIds
  <2>1. verificationTokens[w] # None => verificationTokens[w].user \in Emails
    BY DEF IInv, TypeOK, VerifyRow
  <2>2. Welcome(w)
    BY DEF IInv
  <2>. QED
    BY <2>1, <2>2, <1>6 DEF Welcome
<1>10. /\ sessions' \in [Slots -> Session] /\ Knows(s)'
       /\ \A n \in Slots : n # s => sessions'[n] = sessions[n]
  BY <1>5, AnsweringKnows DEF IInv
<1>11. TypeOK'
  BY <1>5, <1>6, <1>10 DEF IInv, TypeOK
<1>. QED
  BY <1>5, <1>7, <1>8, <1>9, <1>10, <1>11, StepIsLocal

LEMMA AnswerKeeps == ASSUME IInv, NEW s \in Slots, Answer(s) \/ Abort(s) PROVE IInv'
<1>1. UNCHANGED tables /\ sessions' = [sessions EXCEPT ![s] = Idle]
  BY DEF Answer, Abort
<1>2. Idle \in Session /\ Knows(s)'
  BY <1>1 DEF IInv, TypeOK, Idle, Session, Pc, Knows
<1>3. known' \subseteq Tokens /\ \A t \in known' : Exists(t)
  <2>1. sessions[s].gift \subseteq Tokens /\ \A t \in sessions[s].gift : Exists(t)
    BY DEF IInv, TypeOK, Session, Knows
  <2>. QED
    BY <2>1 DEF IInv, TypeOK, Answer, Abort
<1>4. TypeOK'
  BY <1>1, <1>2, <1>3 DEF IInv, TypeOK, tables, Answer, Abort
<1>5. RowsStay /\ RowsHaveAccounts' /\ (\A v \in VerifyIds : Welcome(v)')
  BY <1>1, TablesStay
<1>6. \A n \in Slots : Knows(n)'
  <2> TAKE n \in Slots
  <2>1. CASE n = s
    BY <2>1, <1>2
  <2>2. CASE n # s
    BY <2>2, <1>1, <1>5, KnowsStays DEF IInv, TypeOK
  <2>. QED
    BY <2>1, <2>2
<1>7. \A t \in known' : Exists(t)'
  BY <1>3, <1>5, ExistsStays
<1>. QED
  BY <1>4, <1>5, <1>6, <1>7 DEF IInv

LEMMA QuietKeeps ==
    ASSUME IInv, UNCHANGED vars \/ \E t \in Tokens : Expire(t)
    PROVE  IInv'
<1>1. UNCHANGED tables /\ UNCHANGED <<sessions, known, closed>> /\ expired' \subseteq Tokens
  BY DEF vars, tables, Expire, IInv, TypeOK
<1>2. RowsStay /\ RowsHaveAccounts' /\ (\A v \in VerifyIds : Welcome(v)')
  BY <1>1, TablesStay
<1>3. TypeOK'
  BY <1>1 DEF IInv, TypeOK, tables
<1>4. \A s \in Slots : Knows(s)'
  BY <1>1, <1>2, KnowsStays DEF IInv
<1>5. \A t \in known' : Exists(t)'
  BY <1>1, <1>2, ExistsStays DEF IInv
<1>. QED
  BY <1>2, <1>3, <1>4, <1>5 DEF IInv

LEMMA NextIInv == IInv /\ [Next]_vars => IInv'
<1> SUFFICES ASSUME IInv, [Next]_vars PROVE IInv'
  OBVIOUS
<1>1. ASSUME NEW s \in Slots, LoginStep(s)
      PROVE  IInv'
  <2>1. CASE \E e \in Emails, p \in Passwords : CheckPassword(s, e, p)
    BY <2>1, ReadKeeps
  <2>2. CASE \E j \in Jtis : ReadRefresh(s, j) \/ ReadForLogout(s, j)
    BY <2>2, ReadKeeps
  <2>3. CASE \E j \in Jtis : Login(s, j) \/ Rotate(s, j)
    BY <2>3, InsertTokenKeeps
  <2>4. CASE Logout(s)
    BY <2>4, LogoutKeeps
  <2>. QED
    BY <1>1, <2>1, <2>2, <2>3, <2>4 DEF LoginStep
<1>2. ASSUME NEW s \in Slots, AccountStep(s)
      PROVE  IInv'
  <2>1. CASE \E e \in Emails, p \in Passwords : CheckEmail(s, e, p)
    BY <2>1, ReadKeeps
  <2>2. CASE \E v \in VerifyIds : Register(s, v)
    BY <2>2, RegisterKeeps
  <2>3. CASE \/ \E v \in VerifyIds : ReadVerification(s, v)
             \/ \E r \in ResetIds, p \in Passwords : ReadReset(s, r, p)
             \/ ScanTokens(s)
    BY <2>3, ReadKeeps
  <2>4. CASE \E e \in Emails, r \in ResetIds : ForgotPassword(s, e, r)
    BY <2>4, ForgotPasswordKeeps
  <2>5. CASE ResetPassword(s)
    BY <2>5, ResetPasswordKeeps
  <2>6. CASE VerifyEmail(s)
    BY <2>6, VerifyEmailKeeps
  <2>. QED
    BY <1>2, <2>1, <2>2, <2>3, <2>4, <2>5, <2>6 DEF AccountStep
<1>3. ASSUME NEW s \in Slots, Answer(s) \/ Abort(s)
      PROVE  IInv'
  BY <1>3, AnswerKeeps
<1>4. CASE UNCHANGED vars \/ \E t \in Tokens : Expire(t)
  BY <1>4, QuietKeeps
<1>. QED
  BY <1>1, <1>2, <1>3, <1>4 DEF Next
-----------------------------------------------------------------------------
\* The strengthened invariant holds in every reachable state.
LEMMA Invariance == Spec => []IInv
  BY InitIInv, NextIInv, PTL DEF Spec

\* The rows, the sessions and what is known have their types in every
\* reachable state.
THEOREM TypeCorrect == Spec => []TypeOK
<1>1. IInv => TypeOK
  BY DEF IInv
<1>. QED
  BY <1>1, Invariance, PTL

\* A token that left the server, in an answer or by mail, is committed:
\* nothing is handed out before the commit that makes it good.
THEOREM HandedOutTokensExist == Spec => []KnownTokensExist
<1>1. IInv => KnownTokensExist
  BY DEF IInv, KnownTokensExist, Exists
<1>. QED
  BY <1>1, Invariance, PTL

\* Whoever was welcomed to an address owns its account, however
\* registrations of the address overlap.
THEOREM RegistrationsAreExclusive == Spec => []WelcomedOwnsAccount
<1>1. IInv => WelcomedOwnsAccount
  <2> SUFFICES ASSUME IInv, NEW v \in known \cap VerifyIds
               PROVE  /\ accounts[verificationTokens[v].user] # None
                      /\ accounts[verificationTokens[v].user].resets = 0 =>
                             accounts[verificationTokens[v].user].password
                                 = verificationTokens[v].password
    BY DEF WelcomedOwnsAccount
  <2>. QED
    BY DEF IInv, Exists, Welcome
<1>. QED
  BY <1>1, Invariance, PTL
-----------------------------------------------------------------------------
(* Requests that do not overlap: at most one slot.  What a request has read *)
(* is then still true when it writes.                                       *)

Alone == \A s, t \in Slots : s = t

\* The login that a token goes back to, and every login that was closed, has
\* its own token: a new token starts a login that nothing goes back to.
LoginsExist ==
    /\ \A j \in Jtis : refreshTokens[j] # None => refreshTokens[refreshTokens[j].login] # None
    /\ \A j \in closed : refreshTokens[j] # None

StillTrue(s) ==
    LET session == sessions[s]
    IN  /\ session.pc = "loggingIn" => session.epoch = accounts[session.user].resets
        /\ session.pc \in {"rotating", "loggingOut"} => Live(session.token)
        /\ session.pc = "resetting" => session.found = ActiveTokens(session.user)

TokensInv == OneLivePerLogin /\ LogoutEndsLogin /\ ResetEndsSessions /\ LoginsExist

SerialInv == IInv /\ TokensInv /\ \A s \in Slots : StillTrue(s)

LEMMA InitSerial == Init => SerialInv
  BY InitIInv, NoneAssumption
     DEF Init, SerialInv, TokensInv, OneLivePerLogin, LogoutEndsLogin, ResetEndsSessions,
         LoginsExist, StillTrue, Idle, Live

\* The slot of a step that answers knows nothing that could be false.
LEMMA AnsweringIsTrue ==
    ASSUME TypeOK, NEW s \in Slots, NEW gift, Answering(s, gift)
    PROVE  StillTrue(s)'
  BY DEF TypeOK, Answering, Idle, StillTrue

LEMMA SerialRead ==
    ASSUME SerialInv, NEW s \in Slots,
           \/ \E e \in Emails, p \in Passwords : CheckEmail(s, e, p) \/ CheckPassword(s, e, p)
           \/ \E j \in Jtis : ReadRefresh(s, j) \/ ReadForLogout(s, j)
           \/ \E r \in ResetIds, p \in Passwords : ReadReset(s, r, p)
           \/ \E v \in VerifyIds : ReadVerification(s, v)
           \/ ScanTokens(s)
    PROVE  TokensInv' /\ StillTrue(s)'
<1>1. UNCHANGED tables /\ closed' = closed
  BY DEF CheckEmail, CheckPassword, ReadRefresh, ReadForLogout, ReadReset,
         ReadVerification, ScanTokens
<1>2. TokensInv'
  BY <1>1 DEF SerialInv, TokensInv, OneLivePerLogin, LogoutEndsLogin, ResetEndsSessions,
              LoginsExist, Live, tables
<1>3. sessions \in [Slots -> Session]
  BY DEF SerialInv, IInv, TypeOK
<1>4. CASE \E e \in Emails, p \in Passwords : CheckEmail(s, e, p) \/ CheckPassword(s, e, p)
  <2>1. PICK e \in Emails, p \in Passwords : CheckEmail(s, e, p) \/ CheckPassword(s, e, p)
    BY <1>4
  <2>2. \/ sessions'[s] = Begun("registering", e, p, None, 0)
        \/ sessions'[s] = Begun("loggingIn", e, None, None, accounts[e].resets)
    BY <2>1, <1>3 DEF CheckEmail, CheckPassword, Begin, Idle, Begun
  <2>. QED
    BY <1>1, <1>2, <2>2 DEF StillTrue, Begun, tables
<1>5. CASE \E j \in Jtis : ReadRefresh(s, j) \/ ReadForLogout(s, j)
  <2>1. PICK j \in Jtis : ReadRefresh(s, j) \/ ReadForLogout(s, j)
    BY <1>5
  <2>2. /\ \/ sessions'[s] = Begun("rotating", None, None, j, 0)
           \/ sessions'[s] = Begun("loggingOut", None, None, j, 0)
        /\ Live(j)
    BY <2>1, <1>3 DEF ReadRefresh, ReadForLogout, Refreshes, Begin, Idle, Begun
  <2>. QED
    BY <1>1, <1>2, <2>2 DEF StillTrue, Begun, tables, Live
<1>6. CASE \/ \E r \in ResetIds, p \in Passwords : ReadReset(s, r, p)
           \/ \E v \in VerifyIds : ReadVerification(s, v)
  <2>1. sessions'[s].pc \in {"scanning", "verifying"}
    BY <1>6, <1>3 DEF ReadReset, ReadVerification, Begin, Idle
  <2>. QED
    BY <1>2, <2>1 DEF StillTrue
<1>7. CASE ScanTokens(s)
  <2>1. sessions'[s] = [sessions[s] EXCEPT !.pc = "resetting",
                                           !.found = ActiveTokens(sessions[s].user)]
    BY <1>7, <1>3 DEF ScanTokens
  <2>2. sessions[s] \in Session
    BY <1>3
  <2>. QED
    BY <1>1, <1>2, <2>1, <2>2 DEF StillTrue, ActiveTokens, Live, tables, Session
<1>. QED
  BY <1>4, <1>5, <1>6, <1>7

\* A new account has no tokens yet.
LEMMA SerialRegister ==
    ASSUME SerialInv, NEW s \in Slots, NEW v \in VerifyIds, Register(s, v)
    PROVE  TokensInv' /\ StillTrue(s)'
<1> DEFINE e == sessions[s].user
<1>1. /\ \A d \in Emails : accounts[d] # None => accounts'[d] = accounts[d]
      /\ UNCHANGED <<refreshTokens, closed>>
      /\ Answering(s, {v})
  BY DEF Register, EmailIsFree, SerialInv, IInv, TypeOK
<1>2. \A j \in Jtis : refreshTokens[j] # None =>
        refreshTokens[j].user \in Emails /\ accounts[refreshTokens[j].user] # None
  BY DEF SerialInv, IInv, TypeOK, RefreshRow, RowsHaveAccounts
<1>3. TokensInv'
  BY <1>1, <1>2 DEF SerialInv, TokensInv, OneLivePerLogin, LogoutEndsLogin,
                    ResetEndsSessions, LoginsExist, Live
<1>. QED
  BY <1>1, <1>3, AnsweringIsTrue DEF SerialInv, IInv

\* A verification or a request for a reset changes nothing the tokens tell.
LEMMA SerialMail ==
    ASSUME SerialInv, NEW s \in Slots,
           \/ VerifyEmail(s)
           \/ \E e \in Emails, r \in ResetIds : ForgotPassword(s, e, r)
    PROVE  TokensInv' /\ StillTrue(s)'
<1>1. /\ UNCHANGED <<refreshTokens, closed>>
      /\ \E gift : Answering(s, gift)
      /\ \A d \in Emails : accounts[d] # None => accounts'[d].resets = accounts[d].resets
  <2>1. CASE VerifyEmail(s)
    <3> DEFINE e == sessions[s].user
               account == [accounts[e] EXCEPT !.verified = TRUE]
    <3>1. e \in Emails /\ accounts[e] # None
      BY <2>1 DEF VerifyEmail, At, SerialInv, IInv, Knows
    <3>2. account.resets = accounts[e].resets
      BY <3>1 DEF SerialInv, IInv, TypeOK, AccountRow
    <3>3. accounts' = [accounts EXCEPT ![e] = account]
      BY <2>1 DEF VerifyEmail
    <3> HIDE DEF e, account
    <3>. QED
      BY <2>1, <3>1, <3>2, <3>3 DEF VerifyEmail, SerialInv, IInv, TypeOK
  <2>2. CASE \E e \in Emails, r \in ResetIds : ForgotPassword(s, e, r)
    BY <2>2 DEF ForgotPassword
  <2>. QED
    BY <2>1, <2>2
<1>2. \A j \in Jtis : refreshTokens[j] # None =>
        refreshTokens[j].user \in Emails /\ accounts[refreshTokens[j].user] # None
  BY DEF SerialInv, IInv, TypeOK, RefreshRow, RowsHaveAccounts
<1>3. TokensInv'
  BY <1>1, <1>2 DEF SerialInv, TokensInv, OneLivePerLogin, LogoutEndsLogin,
                    ResetEndsSessions, LoginsExist, Live
<1>. QED
  BY <1>1, <1>3, AnsweringIsTrue DEF SerialInv, IInv

\* A login starts with a password that is still the present one, and its
\* token is the first of its own.
LEMMA SerialLogin ==
    ASSUME SerialInv, NEW s \in Slots, NEW j \in Jtis, Login(s, j)
    PROVE  TokensInv' /\ StillTrue(s)'
<1> DEFINE e == sessions[s].user
           row == [user |-> e, revoked |-> FALSE, login |-> j, epoch |-> sessions[s].epoch]
<1>1. /\ row.user = e /\ ~row.revoked /\ row.login = j
      /\ row.epoch = accounts[e].resets /\ row # None
  <2>1. sessions[s].epoch = accounts[e].resets /\ e \in Emails
    BY DEF Login, At, SerialInv, IInv, Knows, StillTrue
  <2>2. row \in RefreshRow
    BY <2>1 DEF RefreshRow, SerialInv, IInv, TypeOK, Session
  <2>. QED
    BY <2>1, <2>2, NoneAssumption
<1>2. /\ refreshTokens[j] = None
      /\ refreshTokens' = [refreshTokens EXCEPT ![j] = row]
      /\ Answering(s, {j})
      /\ UNCHANGED <<accounts, closed>>
  BY DEF Login
<1> HIDE DEF e, row
<1>3. /\ refreshTokens'[j] = row
      /\ \A i \in Jtis : i # j => refreshTokens'[i] = refreshTokens[i]
  BY <1>2 DEF SerialInv, IInv, TypeOK
<1>4. \A i \in Jtis : refreshTokens[i] # None =>
        refreshTokens[i].login \in Jtis /\ refreshTokens[i].login # j
  BY <1>2 DEF SerialInv, IInv, TypeOK, RefreshRow, TokensInv, LoginsExist
<1>5. j \notin closed /\ closed \subseteq Jtis
  BY <1>2 DEF SerialInv, IInv, TypeOK, TokensInv, LoginsExist
<1>6. \A i \in Jtis : i # j => (Live(i)' <=> Live(i))
  BY <1>3 DEF Live
<1>7. \A i \in Jtis : Live(i) => refreshTokens[i] # None
  BY DEF Live
<1>8. OneLivePerLogin'
  BY <1>1, <1>3, <1>4, <1>6, <1>7 DEF SerialInv, TokensInv, OneLivePerLogin
<1>9. LogoutEndsLogin'
  BY <1>1, <1>2, <1>3, <1>5, <1>6 DEF SerialInv, TokensInv, LogoutEndsLogin
<1>10. ResetEndsSessions'
  BY <1>1, <1>2, <1>3, <1>6 DEF SerialInv, TokensInv, ResetEndsSessions
<1>11. LoginsExist'
  BY <1>1, <1>2, <1>3, <1>4, <1>5 DEF SerialInv, TokensInv, LoginsExist
<1>. QED
  BY <1>2, <1>8, <1>9, <1>10, <1>11, AnsweringIsTrue DEF TokensInv, SerialInv, IInv

\* A rotation replaces the one live token of its login.
LEMMA SerialRotate ==
    ASSUME SerialInv, NEW s \in Slots, NEW j \in Jtis, Rotate(s, j)
    PROVE  TokensInv' /\ StillTrue(s)'
<1> DEFINE t == sessions[s].token
           old == refreshTokens[t]
           row == [old EXCEPT !.revoked = FALSE]
           spent == [old EXCEPT !.revoked = TRUE]
<1>1. t \in Jtis /\ Live(t) /\ old # None /\ old \in RefreshRow
  BY DEF Rotate, At, SerialInv, IInv, TypeOK, Knows, StillTrue
<1>2. /\ row.user = old.user /\ ~row.revoked /\ row.login = old.login /\ row.epoch = old.epoch
      /\ spent.user = old.user /\ spent.revoked /\ spent.login = old.login
      /\ row # None /\ spent # None /\ old.login \in Jtis
  BY <1>1, NoneAssumption DEF RefreshRow
<1>3. /\ refreshTokens[j] = None
      /\ refreshTokens' = [refreshTokens EXCEPT ![t] = spent, ![j] = row]
      /\ Answering(s, {j})
      /\ UNCHANGED <<accounts, closed>>
  BY DEF Rotate, Rotated
<1>4. old = refreshTokens[t]
  OBVIOUS
<1> HIDE DEF t, old, row, spent
<1>5. /\ t # j /\ refreshTokens'[j] = row /\ refreshTokens'[t] = spent
      /\ \A i \in Jtis : i \notin {j, t} => refreshTokens'[i] = refreshTokens[i]
  BY <1>1, <1>3, <1>4 DEF SerialInv, IInv, TypeOK
<1>6. /\ \A i \in Jtis : i \notin {j, t} => (Live(i)' <=> Live(i))
      /\ \A i \in Jtis : i = t => ~Live(i)'
  BY <1>2, <1>5 DEF Live
<1>7. \A i \in Jtis : Live(i) /\ refreshTokens[i].login = old.login => i = t
  BY <1>1, <1>4 DEF SerialInv, TokensInv, OneLivePerLogin
<1>8. OneLivePerLogin'
  BY <1>2, <1>5, <1>6, <1>7 DEF SerialInv, TokensInv, OneLivePerLogin
<1>9. /\ old.login \notin closed
      /\ old.epoch = accounts[old.user].resets
  BY <1>1, <1>4 DEF SerialInv, TokensInv, LogoutEndsLogin, ResetEndsSessions
<1>10. LogoutEndsLogin'
  <2>1. \A i \in Jtis : Live(i)' => refreshTokens'[i].login \notin closed
    BY <1>9, <1>2, <1>5, <1>6 DEF SerialInv, TokensInv, LogoutEndsLogin
  <2>. QED
    BY <2>1, <1>3 DEF LogoutEndsLogin
<1>11. ResetEndsSessions'
  <2>1. \A i \in Jtis : Live(i)' =>
          refreshTokens'[i].epoch = accounts[refreshTokens'[i].user].resets
    BY <1>9, <1>2, <1>5, <1>6 DEF SerialInv, TokensInv, ResetEndsSessions
  <2>. QED
    BY <2>1, <1>3 DEF ResetEndsSessions
<1>12. LoginsExist'
  <2>1. \A i \in Jtis : refreshTokens[i] # None => refreshTokens'[i] # None
    BY <1>2, <1>5
  <2>2. /\ \A i \in Jtis : refreshTokens[i] # None =>
               refreshTokens[i].login \in Jtis /\ refreshTokens[refreshTokens[i].login] # None
        /\ \A i \in closed : i \in Jtis /\ refreshTokens[i] # None
    BY DEF SerialInv, IInv, TypeOK, RefreshRow, TokensInv, LoginsExist
  <2>3. \A i \in Jtis : refreshTokens'[i] # None =>
          refreshTokens'[i].login \in Jtis /\ refreshTokens[refreshTokens'[i].login] # None
    BY <1>1, <1>2, <1>4, <1>5, <2>2
  <2>. QED
    BY <1>3, <2>1, <2>2, <2>3 DEF LoginsExist
<1>. QED
  BY <1>3, <1>8, <1>10, <1>11, <1>12, AnsweringIsTrue DEF TokensInv, SerialInv, IInv

\* A logout revokes the one live token of the login it closes.
LEMMA SerialLogout ==
    ASSUME SerialInv, NEW s \in Slots, Logout(s)
    PROVE  TokensInv' /\ StillTrue(s)'
<1> DEFINE t == sessions[s].token
           old == refreshTokens[t]
           spent == [old EXCEPT !.revoked = TRUE]
<1>1. t \in Jtis /\ Live(t) /\ old # None /\ old \in RefreshRow
  BY DEF Logout, At, SerialInv, IInv, TypeOK, Knows, StillTrue
<1>2. /\ spent.user = old.user /\ spent.revoked /\ spent.login = old.login
      /\ spent # None /\ old.login \in Jtis
  BY <1>1, NoneAssumption DEF RefreshRow
<1>3. /\ refreshTokens' = [refreshTokens EXCEPT ![t] = spent]
      /\ closed' = closed \cup {old.login}
      /\ Answering(s, {})
      /\ UNCHANGED accounts
  BY DEF Logout, LoggedOut
<1>4. old = refreshTokens[t]
  OBVIOUS
<1> HIDE DEF t, old, spent
<1>5. /\ refreshTokens'[t] = spent
      /\ \A i \in Jtis : i # t => refreshTokens'[i] = refreshTokens[i]
  BY <1>1, <1>3, <1>4 DEF SerialInv, IInv, TypeOK
<1>6. /\ \A i \in Jtis : i # t => (Live(i)' <=> Live(i))
      /\ \A i \in Jtis : i = t => ~Live(i)'
  BY <1>2, <1>5 DEF Live
<1>7. \A i \in Jtis : Live(i) /\ refreshTokens[i].login = old.login => i = t
  BY <1>1, <1>4 DEF SerialInv, TokensInv, OneLivePerLogin
<1>8. OneLivePerLogin'
  BY <1>5, <1>6 DEF SerialInv, TokensInv, OneLivePerLogin
<1>9. LogoutEndsLogin'
  BY <1>3, <1>5, <1>6, <1>7 DEF SerialInv, TokensInv, LogoutEndsLogin
<1>10. ResetEndsSessions'
  BY <1>3, <1>5, <1>6 DEF SerialInv, TokensInv, ResetEndsSessions
<1>11. LoginsExist'
  <2>1. \A i \in Jtis : refreshTokens[i] # None => refreshTokens'[i] # None
    BY <1>2, <1>5
  <2>2. /\ \A i \in Jtis : refreshTokens[i] # None =>
               refreshTokens[i].login \in Jtis /\ refreshTokens[refreshTokens[i].login] # None
        /\ \A i \in closed : i \in Jtis /\ refreshTokens[i] # None
    BY DEF SerialInv, IInv, TypeOK, RefreshRow, TokensInv, LoginsExist
  <2>. QED
    BY <1>1, <1>2, <1>3, <1>4, <1>5, <2>1, <2>2 DEF LoginsExist
<1>. QED
  BY <1>3, <1>8, <1>9, <1>10, <1>11, AnsweringIsTrue DEF TokensInv, SerialInv, IInv

\* A reset revokes every live token of its account: those of its scan are
\* still all there are.
LEMMA SerialReset ==
    ASSUME SerialInv, NEW s \in Slots, ResetPassword(s)
    PROVE  TokensInv' /\ StillTrue(s)'
<1> DEFINE e == sessions[s].user
           found == sessions[s].found
<1>1. e \in Emails /\ found = ActiveTokens(e)
  BY DEF ResetPassword, At, SerialInv, IInv, Knows, StillTrue
<1>2. /\ refreshTokens' = [j \in Jtis |->
             IF j \in found THEN [refreshTokens[j] EXCEPT !.revoked = TRUE]
                            ELSE refreshTokens[j]]
      /\ closed' = closed /\ Answering(s, {})
      /\ \A d \in Emails : d # e => accounts'[d] = accounts[d]
  BY DEF ResetPassword, SerialInv, IInv, TypeOK
<1> HIDE DEF e, found
<1>3. \A j \in found : j \in Jtis /\ Live(j) /\ refreshTokens[j].user = e
                       /\ refreshTokens[j] \in RefreshRow
  BY <1>1 DEF ActiveTokens, SerialInv, IInv, TypeOK, Live
<1>4. \A j \in found : /\ refreshTokens'[j].revoked /\ refreshTokens'[j] # None
                       /\ refreshTokens'[j].login = refreshTokens[j].login
  <2> TAKE j \in found
  <2>1. refreshTokens'[j] = [refreshTokens[j] EXCEPT !.revoked = TRUE]
    BY <1>2, <1>3
  <2>2. refreshTokens[j] \in RefreshRow
    BY <1>3
  <2>. QED
    BY <2>1, <2>2, NoneAssumption DEF RefreshRow
<1>5. \A j \in Jtis : j \notin found => refreshTokens'[j] = refreshTokens[j]
  BY <1>2
<1>6. \A j \in Jtis : Live(j)' => /\ Live(j) /\ refreshTokens'[j] = refreshTokens[j]
                                  /\ refreshTokens[j].user # e
  BY <1>1, <1>4, <1>5 DEF ActiveTokens, Live
<1>7. \A j \in Jtis : Live(j) => refreshTokens[j].user \in Emails
  BY DEF Live, SerialInv, IInv, TypeOK, RefreshRow
<1>8. OneLivePerLogin'
  BY <1>6 DEF SerialInv, TokensInv, OneLivePerLogin
<1>9. LogoutEndsLogin'
  <2>1. \A j \in Jtis : Live(j)' => refreshTokens'[j].login \notin closed
    BY <1>6 DEF SerialInv, TokensInv, LogoutEndsLogin
  <2>2. closed' = closed
    BY <1>2
  <2>. QED
    BY <2>1, <2>2 DEF LogoutEndsLogin
<1>10. ResetEndsSessions'
  <2> SUFFICES ASSUME NEW j \in Jtis, Live(j)'
               PROVE  refreshTokens'[j].epoch = accounts'[refreshTokens'[j].user].resets
    BY DEF ResetEndsSessions
  <2>1. /\ Live(j) /\ refreshTokens'[j] = refreshTokens[j] /\ refreshTokens[j].user # e
        /\ refreshTokens[j].user \in Emails
    BY <1>6, <1>7
  <2>2. accounts'[refreshTokens[j].user] = accounts[refreshTokens[j].user]
    BY <2>1, <1>2
  <2>. QED
    BY <2>1, <2>2 DEF SerialInv, TokensInv, ResetEndsSessions
<1>11. LoginsExist'
  <2>1. \A i \in Jtis : /\ refreshTokens[i] # None <=> refreshTokens'[i] # None
                        /\ refreshTokens'[i] # None =>
                               refreshTokens'[i].login = refreshTokens[i].login
    BY <1>3, <1>4, <1>5 DEF Live
  <2>2. /\ \A i \in Jtis : refreshTokens[i] # None =>
               refreshTokens[i].login \in Jtis /\ refreshTokens[refreshTokens[i].login] # None
        /\ \A i \in closed : i \in Jtis /\ refreshTokens[i] # None
    BY DEF SerialInv, IInv, TypeOK, RefreshRow, TokensInv, LoginsExist
  <2>. QED
    BY <1>2, <2>1, <2>2 DEF LoginsExist
<1>. QED
  BY <1>2, <1>8, <1>9, <1>10, <1>11, AnsweringIsTrue DEF TokensInv, SerialInv, IInv

LEMMA SerialQuiet ==
    ASSUME SerialInv,
           \/ UNCHANGED vars
           \/ \E t \in Tokens : Expire(t)
           \/ \E s \in Slots : Answer(s) \/ Abort(s)
    PROVE  TokensInv' /\ \A s \in Slots : StillTrue(s)'
<1>1. /\ UNCHANGED tables /\ closed' = closed
      /\ \A s \in Slots : sessions'[s] = sessions[s] \/ sessions'[s] = Idle
  BY DEF vars, tables, Expire, Answer, Abort, SerialInv, IInv, TypeOK
<1>2. TokensInv'
  BY <1>1 DEF SerialInv, TokensInv, OneLivePerLogin, LogoutEndsLogin, ResetEndsSessions,
              LoginsExist, Live, tables
<1>3. \A s \in Slots : StillTrue(s)'
  BY <1>1 DEF SerialInv, StillTrue, Idle, Live, ActiveTokens, tables
<1>. QED
  BY <1>2, <1>3

LEMMA NextSerial == Alone /\ SerialInv /\ [Next]_vars => SerialInv'
<1> SUFFICES ASSUME Alone, SerialInv, [Next]_vars PROVE SerialInv'
  OBVIOUS
<1>1. IInv'
  BY NextIInv DEF SerialInv
<1>2. ASSUME NEW s \in Slots, LoginStep(s) \/ AccountStep(s)
      PROVE  TokensInv' /\ StillTrue(s)'
  <2>1. CASE LoginStep(s)
    <3>1. CASE \/ \E e \in Emails, p \in Passwords : CheckPassword(s, e, p)
               \/ \E j \in Jtis : ReadRefresh(s, j) \/ ReadForLogout(s, j)
      BY <3>1, SerialRead
    <3>. QED
      BY <2>1, <3>1, SerialLogin, SerialRotate, SerialLogout DEF LoginStep
  <2>2. CASE AccountStep(s)
    <3>1. CASE \/ \E e \in Emails, p \in Passwords : CheckEmail(s, e, p)
               \/ \E v \in VerifyIds : ReadVerification(s, v)
               \/ \E r \in ResetIds, p \in Passwords : ReadReset(s, r, p)
               \/ ScanTokens(s)
      BY <3>1, SerialRead
    <3>2. CASE \/ VerifyEmail(s)
               \/ \E e \in Emails, r \in ResetIds : ForgotPassword(s, e, r)
      BY <3>2, SerialMail
    <3>. QED
      BY <2>2, <3>1, <3>2, SerialRegister, SerialReset DEF AccountStep
  <2>. QED
    BY <1>2, <2>1, <2>2
<1>3. TokensInv' /\ \A s \in Slots : StillTrue(s)'
  <2>1. ASSUME NEW s \in Slots, LoginStep(s) \/ AccountStep(s)
        PROVE  TokensInv' /\ \A n \in Slots : StillTrue(n)'
    <3>1. TokensInv' /\ StillTrue(s)'
      BY <2>1, <1>2
    <3>2. \A n \in Slots : n = s
      BY DEF Alone
    <3>. QED
      BY <3>1, <3>2
  <2>2. CASE \/ UNCHANGED vars
             \/ \E t \in Tokens : Expire(t)
             \/ \E s \in Slots : Answer(s) \/ Abort(s)
    BY <2>2, SerialQuiet
  <2>. QED
    BY <2>1, <2>2 DEF Next
<1>. QED
  BY <1>1, <1>3 DEF SerialInv

LEMMA SerialInvariance == ASSUME Alone PROVE Spec => []SerialInv
<1>1. SerialInv /\ [Next]_vars => SerialInv'
  BY NextSerial
<1>. QED
  BY <1>1, InitSerial, PTL DEF Spec

\* Refresh rotation, for requests that do not overlap: of the tokens that go
\* back to one login at most one is active, for any number of logins,
\* refreshes, resets and failures in between.
THEOREM RotationKeepsOneToken == ASSUME Alone PROVE Spec => []OneLivePerLogin
<1>1. SerialInv => OneLivePerLogin
  BY DEF SerialInv, TokensInv
<1>. QED
  BY <1>1, SerialInvariance, PTL

\* Likewise, nothing that goes back to a login survives its logout.
THEOREM LogoutIsFinal == ASSUME Alone PROVE Spec => []LogoutEndsLogin
<1>1. SerialInv => LogoutEndsLogin
  BY DEF SerialInv, TokensInv
<1>. QED
  BY <1>1, SerialInvariance, PTL

\* Likewise, no token that goes back to an earlier password survives a reset.
THEOREM ResetIsComplete == ASSUME Alone PROVE Spec => []ResetEndsSessions
<1>1. SerialInv => ResetEndsSessions
  BY DEF SerialInv, TokensInv
<1>. QED
  BY <1>1, SerialInvariance, PTL
-----------------------------------------------------------------------------
(* What the resets of an account cost.                                      *)

SpentOf(e) == {r \in ResetIds : /\ resetTokens[r] # None
                                /\ resetTokens[r].user = e
                                /\ resetTokens[r].used}

\* The resets are paid for; only finitely many tokens were ever spent.
ResetsArePaid == \A e \in Emails :
    /\ IsFiniteSet(SpentOf(e))
    /\ accounts[e] # None => accounts[e].resets <= Cardinality(SpentOf(e))

\* The token of a reset in progress is the account's, and still unused.
ResetIsOwed(s) ==
    LET session == sessions[s]
    IN  session.pc \in {"scanning", "resetting"} =>
            /\ resetTokens[session.token].user = session.user
            /\ ~resetTokens[session.token].used

SpendInv == ResetsArePaid /\ \A s \in Slots : ResetIsOwed(s)

LEMMA InitSpend == Init => SpendInv
<1> SUFFICES ASSUME Init PROVE SpendInv
  OBVIOUS
<1>1. \A e \in Emails : SpentOf(e) = {}
  BY DEF Init, SpentOf
<1>. QED
  BY <1>1, FS_EmptySet DEF Init, SpendInv, ResetsArePaid, ResetIsOwed, Idle

\* Steps that neither reset nor touch a reset token.
LEMMA OtherSpend ==
    ASSUME IInv, SpendInv, resetTokens' = resetTokens,
           \A e \in Emails : accounts'[e] # None =>
               \/ accounts[e] # None /\ accounts'[e].resets = accounts[e].resets
               \/ accounts'[e].resets = 0
    PROVE  ResetsArePaid'
<1>1. \A e \in Emails : /\ IsFiniteSet(SpentOf(e)) /\ SpentOf(e)' = SpentOf(e)
                        /\ Cardinality(SpentOf(e)) \in Nat
  BY FS_CardinalityType DEF SpendInv, ResetsArePaid, SpentOf
<1>. QED
  BY <1>1 DEF SpendInv, ResetsArePaid

\* The sessions of a step: those that go on to a reset owe its token.
LEMMA ReadSpend ==
    ASSUME IInv, SpendInv, NEW s \in Slots,
           \/ \E e \in Emails, p \in Passwords : CheckEmail(s, e, p) \/ CheckPassword(s, e, p)
           \/ \E j \in Jtis : ReadRefresh(s, j) \/ ReadForLogout(s, j)
           \/ \E r \in ResetIds, p \in Passwords : ReadReset(s, r, p)
           \/ \E v \in VerifyIds : ReadVerification(s, v)
           \/ ScanTokens(s)
    PROVE  ResetIsOwed(s)' /\ UNCHANGED <<accounts, resetTokens>>
<1>1. UNCHANGED <<accounts, resetTokens>> /\ sessions \in [Slots -> Session]
  BY DEF CheckEmail, CheckPassword, ReadRefresh, ReadForLogout, ReadReset,
         ReadVerification, ScanTokens, tables, IInv, TypeOK
<1>2. CASE \E r \in ResetIds, p \in Passwords : ReadReset(s, r, p)
  <2>1. PICK r \in ResetIds, p \in Passwords : ReadReset(s, r, p)
    BY <1>2
  <2>2. sessions'[s] = Begun("scanning", resetTokens[r].user, p, r, 0)
    BY <1>1, <2>1 DEF ReadReset, Begin, Idle, Begun
  <2>3. ~resetTokens[r].used
    BY <2>1 DEF ReadReset, ResetTokenIsValid
  <2>4. sessions'[s].token = r /\ sessions'[s].user = resetTokens[r].user
    BY <2>2 DEF Begun
  <2>. QED
    BY <1>1, <2>3, <2>4 DEF ResetIsOwed
<1>3. CASE ScanTokens(s)
  <2>1. sessions'[s] = [sessions[s] EXCEPT !.pc = "resetting",
                                           !.found = ActiveTokens(sessions[s].user)]
    BY <1>1, <1>3 DEF ScanTokens
  <2>2. sessions[s] \in Session /\ sessions[s].pc = "scanning"
    BY <1>1, <1>3 DEF ScanTokens, At
  <2>3. /\ sessions'[s].pc = "resetting" /\ sessions'[s].token = sessions[s].token
        /\ sessions'[s].user = sessions[s].user
    BY <2>1, <2>2 DEF Session
  <2>. QED
    BY <1>1, <2>2, <2>3 DEF SpendInv, ResetIsOwed
<1>4. CASE \/ \E e \in Emails, p \in Passwords : CheckEmail(s, e, p) \/ CheckPassword(s, e, p)
           \/ \E j \in Jtis : ReadRefresh(s, j) \/ ReadForLogout(s, j)
           \/ \E v \in VerifyIds : ReadVerification(s, v)
  <2>1. sessions'[s].pc \notin {"scanning", "resetting"}
    BY <1>1, <1>4 DEF CheckEmail, CheckPassword, ReadRefresh, ReadForLogout,
                      ReadVerification, Begin, Idle
  <2>. QED
    BY <1>1, <2>1 DEF ResetIsOwed
<1>. QED
  BY <1>2, <1>3, <1>4

\* A reset raises its account's count by one, and spends one unused token of it.
LEMMA ResetSpend ==
    ASSUME IInv, SpendInv, NEW s \in Slots, ResetPassword(s)
    PROVE  ResetsArePaid'
<1>1. PICK e \in Emails, t \in ResetIds : e = sessions[s].user /\ t = sessions[s].token
  BY DEF ResetPassword, At, IInv, Knows
<1>2. /\ accounts[e] \in AccountRow /\ accounts[e] # None
      /\ resetTokens[t] \in ResetRow /\ resetTokens[t] # None
      /\ resetTokens[t].user = e /\ ~resetTokens[t].used
  BY <1>1 DEF ResetPassword, At, IInv, Knows, TypeOK, SpendInv, ResetIsOwed
<1> DEFINE account == [accounts[e] EXCEPT !.password = sessions[s].password,
                                          !.resets = @ + 1]
           row == [resetTokens[t] EXCEPT !.used = TRUE]
<1>3. account.resets = accounts[e].resets + 1 /\ accounts[e].resets \in Nat
  BY <1>2 DEF AccountRow
<1>4. row.user = e /\ row.used /\ row # None
  <2>1. row \in ResetRow /\ row.user = e /\ row.used
    BY <1>2 DEF ResetRow
  <2>. QED
    BY <2>1, NoneAssumption
<1>5. accounts' = [accounts EXCEPT ![e] = account]
      /\ resetTokens' = [resetTokens EXCEPT ![t] = row]
  BY <1>1, <1>2 DEF ResetPassword, AccountRow, IInv, TypeOK
<1> HIDE DEF account, row
<1>6. /\ accounts'[e] = account /\ resetTokens'[t] = row
      /\ \A d \in Emails : d # e => accounts'[d] = accounts[d]
      /\ \A r \in ResetIds : r # t => resetTokens'[r] = resetTokens[r]
  BY <1>5 DEF IInv, TypeOK
<1>7. \A d \in Emails : d # e => SpentOf(d)' = SpentOf(d)
  BY <1>2, <1>4, <1>6 DEF SpentOf
<1>8. SpentOf(e)' = SpentOf(e) \cup {t} /\ t \notin SpentOf(e)
  BY <1>2, <1>4, <1>6 DEF SpentOf
<1>9. IsFiniteSet(SpentOf(e)) /\ accounts[e].resets <= Cardinality(SpentOf(e))
  BY <1>2 DEF SpendInv, ResetsArePaid
<1>10. IsFiniteSet(SpentOf(e)') /\ Cardinality(SpentOf(e)') = Cardinality(SpentOf(e)) + 1
  BY <1>8, <1>9, FS_AddElement
<1>11. Cardinality(SpentOf(e)) \in Nat
  BY <1>9, FS_CardinalityType
<1>12. accounts'[e].resets <= Cardinality(SpentOf(e)')
  BY <1>3, <1>6, <1>9, <1>10, <1>11
<1>13. ASSUME NEW d \in Emails
       PROVE  /\ IsFiniteSet(SpentOf(d)')
              /\ accounts'[d] # None => accounts'[d].resets <= Cardinality(SpentOf(d)')
  <2>1. CASE d = e
    BY <2>1, <1>10, <1>12
  <2>2. CASE d # e
    BY <2>2, <1>6, <1>7 DEF SpendInv, ResetsArePaid
  <2>. QED
    BY <2>1, <2>2
<1>. QED
  BY <1>13 DEF ResetsArePaid

\* A new reset token is not yet spent.
LEMMA ForgotSpend ==
    ASSUME IInv, SpendInv, NEW s \in Slots, NEW e \in Emails, NEW r \in ResetIds,
           ForgotPassword(s, e, r)
    PROVE  ResetsArePaid'
<1> DEFINE row == [user |-> e, used |-> FALSE]
<1>1. ~row.used /\ resetTokens' = [resetTokens EXCEPT ![r] = row]
      /\ resetTokens[r] = None /\ accounts' = accounts
  BY DEF ForgotPassword
<1> HIDE DEF row
<1>2. \A d \in Emails : SpentOf(d)' = SpentOf(d)
  BY <1>1 DEF SpentOf, IInv, TypeOK
<1>. QED
  BY <1>1, <1>2 DEF SpendInv, ResetsArePaid

LEMMA NextSpend ==
    ASSUME Alone, IInv, SpendInv, [Next]_vars PROVE SpendInv'
<1>1. ASSUME NEW s \in Slots, ResetsArePaid', ResetIsOwed(s)' PROVE SpendInv'
  BY <1>1 DEF Alone, SpendInv
<1>2. \A s \in Slots : \A gift : Answering(s, gift) => ResetIsOwed(s)'
  BY DEF Answering, Idle, ResetIsOwed, IInv, TypeOK
<1>3. accounts' = accounts /\ resetTokens' = resetTokens => ResetsArePaid'
  BY DEF SpendInv, ResetsArePaid, SpentOf
<1>4. ASSUME NEW s \in Slots, LoginStep(s) \/ AccountStep(s) PROVE SpendInv'
  <2>1. CASE \/ \E e \in Emails, p \in Passwords : CheckEmail(s, e, p) \/ CheckPassword(s, e, p)
             \/ \E j \in Jtis : ReadRefresh(s, j) \/ ReadForLogout(s, j)
             \/ \E r \in ResetIds, p \in Passwords : ReadReset(s, r, p)
             \/ \E v \in VerifyIds : ReadVerification(s, v)
             \/ ScanTokens(s)
    BY <1>1, <1>3, <2>1, ReadSpend
  <2>2. CASE \/ \E j \in Jtis : Login(s, j) \/ Rotate(s, j)
             \/ Logout(s)
    BY <1>1, <1>2, <1>3, <2>2 DEF Login, Rotate, Logout
  <2>3. CASE \E v \in VerifyIds : Register(s, v)
    <3>1. PICK v \in VerifyIds : Register(s, v)
      BY <2>3
    <3>2. resetTokens' = resetTokens /\ Answering(s, {v})
          /\ \A e \in Emails : accounts'[e] = accounts[e] \/ accounts'[e].resets = 0
      BY <3>1 DEF Register, IInv, TypeOK
    <3>. QED
      BY <1>1, <1>2, <3>2, OtherSpend
  <2>4. CASE VerifyEmail(s)
    <3>1. PICK e \in Emails : e = sessions[s].user
      BY <2>4 DEF VerifyEmail, At, IInv, Knows
    <3> DEFINE account == [accounts[e] EXCEPT !.verified = TRUE]
    <3>2. accounts[e] # None /\ account.resets = accounts[e].resets
      BY <2>4, <3>1 DEF VerifyEmail, At, IInv, Knows, TypeOK, AccountRow
    <3>3. /\ accounts' = [accounts EXCEPT ![e] = account]
          /\ resetTokens' = resetTokens /\ Answering(s, {})
      BY <2>4, <3>1 DEF VerifyEmail
    <3> HIDE DEF account
    <3>4. \A d \in Emails : accounts'[d] # None =>
              accounts[d] # None /\ accounts'[d].resets = accounts[d].resets
      BY <3>2, <3>3 DEF IInv, TypeOK
    <3>. QED
      BY <1>1, <1>2, <3>3, <3>4, OtherSpend
  <2>5. CASE \E e \in Emails, r \in ResetIds : ForgotPassword(s, e, r)
    BY <1>1, <1>2, <2>5, ForgotSpend DEF ForgotPassword
  <2>6. CASE ResetPassword(s)
    BY <1>1, <1>2, <2>6, ResetSpend DEF ResetPassword
  <2>. QED
    BY <1>4, <2>1, <2>2, <2>3, <2>4, <2>5, <2>6 DEF LoginStep, AccountStep
<1>5. CASE \/ UNCHANGED vars
           \/ \E t \in Tokens : Expire(t)
           \/ \E s \in Slots : Answer(s) \/ Abort(s)
  <2>1. /\ accounts' = accounts /\ resetTokens' = resetTokens
        /\ \A s \in Slots : sessions'[s] = sessions[s] \/ sessions'[s] = Idle
    BY <1>5 DEF vars, tables, Expire, Answer, Abort, IInv, TypeOK
  <2>. QED
    BY <1>3, <2>1 DEF SpendInv, ResetIsOwed, Idle
<1>. QED
  BY <1>4, <1>5 DEF Next

\* Reset tokens are single-use, for requests that do not overlap: an account
\* has not been reset more often than tokens of its own were spent.
THEOREM ResetsAreSingleUse == ASSUME Alone PROVE Spec => []EveryResetSpendsAToken
<1>1. IInv /\ SpendInv /\ [Next]_vars => SpendInv'
  BY NextSpend
<1>2. SpendInv => EveryResetSpendsAToken
  BY DEF SpendInv, ResetsArePaid, SpentOf, EveryResetSpendsAToken
<1>. QED
  BY <1>1, <1>2, InitSpend, Invariance, PTL DEF Spec
=============================================================================
