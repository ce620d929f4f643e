------------------------- MODULE EmailDeliveryProofs -------------------------
(***************************************************************************)
(* Theorems of EmailDelivery, for every set of mails and every number of   *)
(* attempts.  The inductive invariant says what each place of a task has   *)
(* behind it: a task that goes on after a confirmed send has a dead        *)
(* session, so it can never commit FAILED over it.  ConnectionPool's mails *)
(* are these mails, so what is proved of them holds under the pool too.    *)
(***************************************************************************)
EXTENDS ConnectionPool, TLAPS

Truthful(m) == row[m] # None =>
    \/ row[m].status = "SENT" /\ confirmed[m] /\ copies[m] > 0
    \/ row[m].status = "FAILED" /\ ~confirmed[m] /\ row[m].attempts = MaxAttempts

\* What the place of a task tells of its attempts.
Counted(m) ==
    /\ copies[m] <= attempt[m]
    /\ pc[m] \in {"idle", "scheduled"} => attempt[m] = 0
    /\ pc[m] = "send" => copies[m] < attempt[m]
    /\ pc[m] \in {"send", "commit"} => attempt[m] > 0
    /\ pc[m] = "backoff" => attempt[m] < MaxAttempts
    /\ pc[m] = "record" => attempt[m] = MaxAttempts

\* What it tells of the session, the confirmation and the row.
Settled(m) ==
    /\ confirmed[m] => copies[m] > 0 /\ attempt[m] > 0
    /\ pc[m] = "commit" => confirmed[m]
    /\ confirmed[m] /\ pc[m] \in {"send", "backoff", "record"} => session[m] = "dead"
    /\ row[m] # None /\ ~Ended(m) => session[m] = "dead" /\ row[m].status = "SENT"
    /\ pc[m] \in {"idle", "scheduled"} => row[m] = None
    /\ pc[m] = "done" /\ session[m] = "open" => row[m] # None

MailInv(m) == Counted(m) /\ Settled(m) /\ Truthful(m)

IInv == TypeOK /\ \A m \in Mails : MailInv(m)
-----------------------------------------------------------------------------
LEMMA InitIInv == Init => IInv
  BY AttemptsAssumption
     DEF Init, IInv, TypeOK, Pc, Session, MailInv, Counted, Settled, Truthful

\* The other mails do not notice the step of a task.
Untouched(n) == /\ pc'[n] = pc[n] /\ attempt'[n] = attempt[n]
                /\ session'[n] = session[n] /\ row'[n] = row[n]
                /\ copies'[n] = copies[n] /\ confirmed'[n] = confirmed[n]

LEMMA UntouchedKeeps ==
    ASSUME NEW n \in Mails, MailInv(n), Untouched(n)
    PROVE  MailInv(n)'
  BY DEF Untouched, MailInv, Counted, Settled, Truthful, Ended

LEMMA StepKeepsType ==
    ASSUME IInv, NEW m \in Mails, Schedule(m) \/ TaskStep(m)
    PROVE  TypeOK' /\ \A n \in Mails : n # m => Untouched(n)
<1> USE AttemptsAssumption DEF IInv, TypeOK, At, Goto, Untouched
<1>1. \A a \in 0 .. MaxAttempts : a \in Nat
  OBVIOUS
<1>2. attempt[m] \in 0 .. MaxAttempts
  OBVIOUS
<1>3. AfterFailure(m) \in Pc
  BY DEF AfterFailure, Pc
<1>4. \A status \in EmailStatus : [status |-> status, attempts |-> attempt[m]] \in LogRow
  BY <1>2 DEF LogRow
<1>5. CASE Schedule(m)
  BY <1>5 DEF Schedule, Pc
<1>6. CASE AddLog(m)
  BY <1>6 DEF AddLog, Pc, Session
<1>7. CASE Send(m)
  <2>1. pc' = [pc EXCEPT ![m] = "commit"] \/ pc' = [pc EXCEPT ![m] = AfterFailure(m)]
    BY <1>7 DEF Send
  <2>2. copies' = copies \/ copies' = [copies EXCEPT ![m] = copies[m] + 1]
    BY <1>7 DEF Send
  <2>3. confirmed' = confirmed \/ confirmed' = [confirmed EXCEPT ![m] = TRUE]
    BY <1>7 DEF Send
  <2>4. pc' \in [Mails -> Pc] /\ \A n \in Mails : n # m => pc'[n] = pc[n]
    BY <2>1, <1>3 DEF Pc
  <2>5. copies' \in [Mails -> Nat] /\ \A n \in Mails : n # m => copies'[n] = copies[n]
    <3>1. copies[m] + 1 \in Nat
      OBVIOUS
    <3> QED BY <2>2, <3>1
  <2>6. /\ confirmed' \in [Mails -> BOOLEAN]
        /\ \A n \in Mails : n # m => confirmed'[n] = confirmed[n]
    BY <2>3
  <2> QED BY <1>7, <2>4, <2>5, <2>6 DEF Send
<1>8. ASSUME NEW status \in EmailStatus, NEW a \in Pc, NEW b \in Pc,
             Commit(m, status, a, b), UNCHANGED <<attempt, copies, confirmed>>
      PROVE  TypeOK' /\ \A n \in Mails : n # m => Untouched(n)
  <2>1. \/ row' = row
        \/ row' = [row EXCEPT ![m] = [status |-> status, attempts |-> attempt[m]]]
    BY <1>8 DEF Commit
  <2>2. \/ session' = session
        \/ session' = [session EXCEPT ![m] = "dead"]
    BY <1>8 DEF Commit
  <2>3. pc' = [pc EXCEPT ![m] = a] \/ pc' = [pc EXCEPT ![m] = b]
    BY <1>8 DEF Commit
  <2>4. /\ row' \in [Mails -> LogRow \cup {None}]
        /\ \A n \in Mails : n # m => row'[n] = row[n]
    BY <2>1, <1>4
  <2>5. /\ session' \in [Mails -> Session]
        /\ \A n \in Mails : n # m => session'[n] = session[n]
    BY <2>2 DEF Session
  <2>6. pc' \in [Mails -> Pc] /\ \A n \in Mails : n # m => pc'[n] = pc[n]
    BY <2>3
  <2> QED BY <1>8, <2>4, <2>5, <2>6
<1>9. CASE CommitSent(m)
  BY <1>3, <1>8, <1>9 DEF CommitSent, EmailStatus, Pc
<1>10. CASE NextAttempt(m)
  <2>1. attempt[m] + 1 \in 0 .. MaxAttempts
    BY <1>2, <1>10 DEF NextAttempt, MailInv, Counted
  <2> QED BY <2>1, <1>10 DEF NextAttempt, Pc
<1>11. CASE RecordFailed(m)
  BY <1>8, <1>11 DEF RecordFailed, EmailStatus, Pc
<1> QED BY <1>5, <1>6, <1>7, <1>9, <1>10, <1>11 DEF TaskStep

\* Each step keeps the invariant of its own mail.
LEMMA CommitKeeps ==
    ASSUME IInv, NEW m \in Mails, NEW status \in {"SENT", "FAILED"},
           NEW a \in Pc, Commit(m, status, "done", a),
           UNCHANGED <<attempt, copies, confirmed>>,
           \/ /\ status = "SENT" /\ pc[m] = "commit" /\ a = AfterFailure(m)
           \/ /\ status = "FAILED" /\ pc[m] = "record" /\ a = "done"
    PROVE  MailInv(m)'
<1> DEFINE written == [status |-> status, attempts |-> attempt[m]]
<1>1. /\ pc \in [Mails -> Pc] /\ session \in [Mails -> Session]
      /\ row \in [Mails -> LogRow \cup {None}] /\ attempt[m] \in 0 .. MaxAttempts
      /\ copies[m] \in Nat /\ confirmed[m] \in BOOLEAN /\ MailInv(m)
  BY DEF IInv, TypeOK
<1>2. /\ session[m] # "dead" \/ session'[m] = "dead"
      /\ pc'[m] = "done" \/ (pc'[m] = a /\ session'[m] = "dead")
      /\ row'[m] = row[m] \/ (row'[m] = written /\ session[m] = "open")
      /\ session'[m] = "dead" \/ row'[m] = written
  <2> DEFINE both == [row EXCEPT ![m] = written]
  <2>1. both[m] = written /\ session[m] \in {"none", "open", "dead"}
    BY <1>1 DEF Session
  <2> HIDE DEF written
  <2>2. \/ /\ session[m] = "open" /\ pc' = [pc EXCEPT ![m] = "done"]
           /\ row' = both /\ session' = session
        \/ /\ session[m] = "open" /\ pc' = [pc EXCEPT ![m] = a]
           /\ row' \in {row, both} /\ session' = [session EXCEPT ![m] = "dead"]
        \/ /\ session[m] = "dead" /\ pc' = [pc EXCEPT ![m] = a]
           /\ row' = row /\ session' = session
    BY DEF Commit, Goto, written
  <2> HIDE DEF both
  <2>3. CASE /\ session[m] = "open" /\ pc' = [pc EXCEPT ![m] = "done"]
             /\ row' = both /\ session' = session
    <3>1. pc'[m] = "done" /\ row'[m] = written
      BY <1>1, <2>1, <2>3
    <3> QED BY <2>3, <3>1
  <2>4. CASE /\ session[m] = "open" /\ pc' = [pc EXCEPT ![m] = a]
             /\ row' \in {row, both} /\ session' = [session EXCEPT ![m] = "dead"]
    <3>1. pc'[m] = a /\ session'[m] = "dead"
      BY <1>1, <2>4
    <3>2. row'[m] = row[m] \/ row'[m] = written
      BY <2>1, <2>4
    <3> QED BY <2>4, <3>1, <3>2
  <2>5. CASE /\ session[m] = "dead" /\ pc' = [pc EXCEPT ![m] = a]
             /\ row' = row /\ session' = session
    <3>1. pc'[m] = a /\ session'[m] = "dead" /\ row'[m] = row[m]
      BY <1>1, <2>5
    <3> QED BY <3>1
  <2> QED BY <2>2, <2>3, <2>4, <2>5
<1>3. written.status = status /\ written.attempts = attempt[m] /\ written # None
  <2>1. written \in LogRow
    BY <1>1 DEF LogRow, EmailStatus
  <2> QED BY <2>1, NoRowAssumption
<1>4. /\ attempt'[m] = attempt[m] /\ copies'[m] = copies[m] /\ confirmed'[m] = confirmed[m]
  OBVIOUS
<1> HIDE DEF written
<1>5. CASE status = "SENT" /\ pc[m] = "commit" /\ a = AfterFailure(m)
  <2>1. \/ a = "backoff" /\ attempt[m] < MaxAttempts
        \/ a = "record" /\ attempt[m] = MaxAttempts
    BY <1>1, <1>5, AttemptsAssumption DEF AfterFailure
  <2>2. confirmed[m] /\ copies[m] > 0 /\ attempt[m] > 0
    BY <1>1, <1>5 DEF MailInv, Settled
  <2>3. Counted(m)'
    BY <1>1, <1>2, <1>4, <2>1 DEF MailInv, Counted
  <2>4. Truthful(m)'
    BY <1>1, <1>2, <1>3, <1>4, <1>5, <2>2 DEF MailInv, Truthful
  <2>5. Settled(m)'
    BY <1>1, <1>2, <1>3, <1>4, <1>5, <2>1, <2>2 DEF MailInv, Settled, Ended
  <2> QED BY <2>3, <2>4, <2>5 DEF MailInv
<1>6. CASE status = "FAILED" /\ pc[m] = "record" /\ a = "done"
  <2>1. pc'[m] = "done" /\ attempt[m] = MaxAttempts
    BY <1>1, <1>2, <1>6 DEF MailInv, Counted
  <2>2. session[m] = "open" => ~confirmed[m]
    BY <1>1, <1>6 DEF MailInv, Settled
  <2>3. Counted(m)'
    BY <1>1, <1>4, <2>1 DEF MailInv, Counted
  <2>4. Truthful(m)'
    BY <1>1, <1>2, <1>3, <1>4, <1>6, <2>1, <2>2 DEF MailInv, Truthful
  <2>5. Settled(m)'
    BY <1>1, <1>2, <1>3, <1>4, <2>1 DEF MailInv, Settled, Ended
  <2> QED BY <2>3, <2>4, <2>5 DEF MailInv
<1> QED BY <1>5, <1>6

LEMMA SendKeeps == ASSUME IInv, NEW m \in Mails, Send(m) PROVE MailInv(m)'
<1>1. /\ pc \in [Mails -> Pc] /\ copies \in [Mails -> Nat]
      /\ confirmed \in [Mails -> BOOLEAN] /\ attempt[m] \in 0 .. MaxAttempts
      /\ MailInv(m) /\ pc[m] = "send"
  BY DEF IInv, TypeOK, Send, At
<1>2. /\ attempt'[m] = attempt[m] /\ session'[m] = session[m] /\ row'[m] = row[m]
  BY DEF Send
<1>3. \/ copies'[m] = copies[m] + 1 /\ confirmed'[m] = TRUE /\ pc'[m] = "commit"
      \/ /\ copies'[m] \in {copies[m], copies[m] + 1}
         /\ confirmed'[m] = confirmed[m] /\ pc'[m] = AfterFailure(m)
  BY <1>1 DEF Send, Goto
<1>4. \/ AfterFailure(m) = "backoff" /\ attempt[m] < MaxAttempts
      \/ AfterFailure(m) = "record" /\ attempt[m] = MaxAttempts
  BY <1>1, AttemptsAssumption DEF AfterFailure
<1>5. copies[m] \in Nat /\ copies[m] < attempt[m]
  BY <1>1 DEF MailInv, Counted
<1>6. copies'[m] <= attempt[m] /\ copies'[m] >= copies[m]
  BY <1>1, <1>3, <1>5
<1>7. copies'[m] > 0 \/ (copies'[m] = copies[m] /\ confirmed'[m] = confirmed[m])
  BY <1>1, <1>3, <1>5
<1>8. /\ row[m] # None => confirmed[m] /\ row[m].status = "SENT" /\ session[m] = "dead"
      /\ confirmed[m] => session[m] = "dead" /\ copies[m] > 0
  BY <1>1 DEF MailInv, Settled, Truthful, Ended
<1>9. Counted(m)'
  BY <1>1, <1>2, <1>3, <1>4, <1>5, <1>6 DEF MailInv, Counted
<1>10. confirmed'[m] => copies'[m] > 0 /\ attempt[m] > 0
  <2>1. attempt[m] > 0
    BY <1>1, <1>5
  <2>2. CASE copies'[m] = copies[m] + 1
    BY <1>5, <2>1, <2>2
  <2>3. CASE confirmed'[m] = confirmed[m] /\ copies'[m] = copies[m]
    BY <1>8, <2>1, <2>3
  <2> QED BY <1>3, <2>2, <2>3
<1>11. confirmed[m] => confirmed'[m]
  BY <1>3
<1>12. Settled(m)'
  BY <1>1, <1>2, <1>3, <1>4, <1>8, <1>10 DEF Settled, Ended
<1>13. Truthful(m)'
  BY <1>2, <1>8, <1>10, <1>11 DEF Truthful
<1> QED BY <1>9, <1>12, <1>13 DEF MailInv

LEMMA OwnStepKeeps ==
    ASSUME IInv, NEW m \in Mails, Schedule(m) \/ TaskStep(m)
    PROVE  MailInv(m)'
<1>1. /\ pc \in [Mails -> Pc] /\ session \in [Mails -> Session]
      /\ attempt \in [Mails -> 0 .. MaxAttempts] /\ copies[m] \in Nat
      /\ confirmed[m] \in BOOLEAN /\ MailInv(m) /\ MaxAttempts \in Nat \ {0}
  BY AttemptsAssumption DEF IInv, TypeOK
<1>2. CASE Schedule(m)
  BY <1>1, <1>2 DEF Schedule, At, Goto, MailInv, Counted, Settled, Truthful, Ended
<1>3. CASE AddLog(m)
  BY <1>1, <1>3 DEF AddLog, At, Goto, MailInv, Counted, Settled, Truthful, Ended
<1>4. CASE CommitSent(m)
  <2>1. AfterFailure(m) \in Pc
    BY DEF AfterFailure, Pc
  <2> QED BY <1>4, <2>1, CommitKeeps DEF CommitSent, At
<1>5. CASE NextAttempt(m)
  <2>1. /\ pc'[m] = "send" /\ attempt'[m] = attempt[m] + 1 /\ pc[m] = "backoff"
        /\ session'[m] = session[m] /\ row'[m] = row[m]
        /\ copies'[m] = copies[m] /\ confirmed'[m] = confirmed[m]
    BY <1>1, <1>5 DEF NextAttempt, At, Goto
  <2>2. attempt[m] \in Nat
    BY <1>1
  <2>3. Counted(m)'
    BY <1>1, <2>1, <2>2 DEF MailInv, Counted
  <2>4. Settled(m)' /\ Truthful(m)'
    BY <1>1, <2>1, <2>2 DEF MailInv, Settled, Truthful, Ended
  <2> QED BY <2>3, <2>4 DEF MailInv
<1>6. CASE RecordFailed(m)
  BY <1>6, CommitKeeps DEF RecordFailed, At, Pc
<1> QED BY <1>2, <1>3, <1>4, <1>5, <1>6, SendKeeps DEF TaskStep

LEMMA CrashKeeps == IInv /\ Crash => IInv'
<1> SUFFICES ASSUME IInv, Crash PROVE IInv'
  OBVIOUS
<1>1. /\ pc' = [m \in Mails |-> IF pc[m] = "idle" \/ Ended(m) THEN pc[m] ELSE "lost"]
      /\ UNCHANGED <<attempt, session, row, copies, confirmed>>
  BY DEF Crash
<1>2. TypeOK'
  BY <1>1 DEF IInv, TypeOK, Pc
<1>3. ASSUME NEW m \in Mails PROVE MailInv(m)'
  <2>1. MailInv(m) /\ (pc'[m] = pc[m] \/ pc'[m] = "lost")
    BY <1>1 DEF IInv
  <2> QED BY <1>1, <2>1 DEF MailInv, Counted, Settled, Truthful, Ended
<1> QED BY <1>2, <1>3 DEF IInv

LEMMA NextKeeps == IInv /\ [Next]_vars => IInv'
<1> SUFFICES ASSUME IInv, [Next]_vars PROVE IInv'
  OBVIOUS
<1>1. ASSUME NEW m \in Mails, Schedule(m) \/ TaskStep(m) PROVE IInv'
  <2>1. TypeOK' /\ \A n \in Mails : n # m => Untouched(n)
    BY <1>1, StepKeepsType
  <2>2. MailInv(m)'
    BY <1>1, OwnStepKeeps
  <2>3. \A n \in Mails : n # m => MailInv(n)'
    BY <2>1, UntouchedKeeps DEF IInv
  <2> QED BY <2>1, <2>2, <2>3 DEF IInv
<1>2. CASE UNCHANGED vars
  BY <1>2 DEF vars, IInv, TypeOK, MailInv, Counted, Settled, Truthful, Ended
<1> QED BY <1>1, <1>2, CrashKeeps DEF Next

\* Every reachable state has the inductive invariant of the mails.
THEOREM Invariant == Spec => []IInv
  BY InitIInv, NextKeeps, PTL DEF Spec

\* Tasks, sessions and rows have their types.
THEOREM TypeCorrect == Spec => []TypeOK
<1>1. IInv => TypeOK
  BY DEF IInv
<1> QED BY <1>1, Invariant, PTL

\* A committed log is true of its mail, whatever fails.
THEOREM LogsAreTruthful == Spec => []LogIsTruthful
<1>1. IInv => LogIsTruthful
  BY DEF IInv, MailInv, Truthful, LogIsTruthful
<1> QED BY <1>1, Invariant, PTL

\* No mail is sent more often than MAX_ATTEMPTS.
THEOREM CopiesAreBounded == Spec => []CopiesBounded
<1>1. IInv => CopiesBounded
  <2> SUFFICES ASSUME IInv, NEW m \in Mails
               PROVE  copies[m] <= attempt[m] /\ attempt[m] <= MaxAttempts
    BY DEF CopiesBounded
  <2>1. attempt[m] \in 0 .. MaxAttempts /\ copies[m] <= attempt[m]
    BY DEF IInv, TypeOK, MailInv, Counted
  <2> QED BY <2>1, AttemptsAssumption
<1> QED BY <1>1, Invariant, PTL

\* What the provider and the database left undisturbed, the log tells.
THEOREM OutcomesAreLogged == Spec => []OutcomeLogged
<1>1. IInv => OutcomeLogged
  BY DEF IInv, MailInv, Settled, OutcomeLogged
<1> QED BY <1>1, Invariant, PTL

\* A confirmed mail goes out again only after a commit of its log failed.
THEOREM ResentOnlyAfterFailure == Spec => ResentOnlyAfterDatabaseFailure
<1>1. ASSUME IInv, [Next]_vars, NEW m \in Mails, confirmed[m], session[m] # "dead"
      PROVE  copies'[m] = copies[m]
  <2>1. ASSUME NEW n \in Mails, Schedule(n) \/ TaskStep(n) PROVE copies'[m] = copies[m]
    <3>1. CASE n # m
      BY <2>1, <3>1, <1>1, StepKeepsType DEF Untouched
    <3>2. CASE n = m /\ Send(m)
      BY <3>2, <1>1 DEF Send, At, IInv, MailInv, Settled
    <3>3. CASE n = m /\ ~Send(m)
      BY <2>1, <3>3 DEF TaskStep, Schedule, AddLog, CommitSent, NextAttempt, RecordFailed
    <3> QED BY <3>1, <3>2, <3>3
  <2> QED BY <1>1, <2>1 DEF Next, Crash, vars
<1>2. IInv /\ [Next]_vars =>
          [\A m \in Mails : confirmed[m] /\ session[m] # "dead" => copies'[m] = copies[m]]_vars
  BY <1>1
<1> QED BY <1>2, Invariant, PTL DEF Spec, ResentOnlyAfterDatabaseFailure
-----------------------------------------------------------------------------
(* The mails that share the connections of the engine.                     *)

\* Waiting for a connection, or being refused one, is nothing a mail could not
\* do without the pool: ConnectionPool implements EmailDelivery, so the
\* theorems above hold for the mails of the composition.
THEOREM PoolImplementsDelivery == PoolSpec => Spec
<1>1. PoolInit => Init
  BY DEF PoolInit
<1>2. [PoolNext]_poolVars => [Next]_vars
  BY DEF PoolNext, CrashPool, MailStep, DeliverEvent, Acquire, Refuse, Answer, Next, poolVars
<1> QED BY <1>1, <1>2, PTL DEF PoolSpec, Spec

\* The log's promises, in the system the runs check.
THEOREM PooledMailsKeepTheirLogs ==
    PoolSpec => []LogIsTruthful /\ []OutcomeLogged /\ []CopiesBounded
  BY PoolImplementsDelivery, LogsAreTruthful, OutcomesAreLogged, CopiesAreBounded, PTL
=============================================================================
