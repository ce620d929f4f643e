---------------------------- MODULE EmailDelivery ----------------------------
(***************************************************************************)
(* EmailService.send under send_email_background: a background task per    *)
(* mail, in the memory of the API process, with a database session of its  *)
(* own.  The EmailLog row is inserted by a flush and committed only at the *)
(* end, after the provider answered or MAX_ATTEMPTS attempts failed.       *)
(*                                                                         *)
(* The commit of a successful send stands inside the try: if it fails, the *)
(* attempt counts as failed and the mail is sent again.  There is no       *)
(* rollback: from then on every commit of that session raises              *)
(* (PendingRollbackError), so the session is dead.                         *)
(*                                                                         *)
(* External: the SMTP server may take a mail and the client may still see  *)
(* an error (the answer is lost, the timeout of 20 seconds passes); the    *)
(* database may fail a statement or a commit at any time, and a commit     *)
(* whose answer is lost may have taken effect.                             *)
(***************************************************************************)
EXTENDS Naturals

CONSTANTS
    Mails,       \* the mails that handlers schedule
    MaxAttempts, \* MAX_ATTEMPTS
    None         \* no row

ASSUME AttemptsAssumption == MaxAttempts \in Nat \ {0}

EmailStatus == {"PENDING", "SENT", "FAILED"}
LogRow == [status : EmailStatus, attempts : 0 .. MaxAttempts]
ASSUME NoRowAssumption == None \notin LogRow

VARIABLES
    pc,        \* per mail: where its background task is
    attempt,   \* the attempts begun
    session,   \* the task's database session
    row,       \* the committed EmailLog row
    copies,    \* external: the copies the SMTP server has taken
    confirmed  \* history: a provider.send returned without raising

vars == <<pc, attempt, session, row, copies, confirmed>>

Pc == {"idle", "scheduled", "send", "commit", "backoff", "record",
       "done", "lost"}
Session == {"none", "open", "dead"}

Init == /\ pc = [m \in Mails |-> "idle"]
        /\ attempt = [m \in Mails |-> 0]
        /\ session = [m \in Mails |-> "none"]
        /\ row = [m \in Mails |-> None]
        /\ copies = [m \in Mails |-> 0]
        /\ confirmed = [m \in Mails |-> FALSE]
-----------------------------------------------------------------------------
At(m, step) == pc[m] = step
Goto(m, step) == pc' = [pc EXCEPT ![m] = step]

\* A response that has this mail as background task is sent.
Schedule(m) == /\ At(m, "idle") /\ Goto(m, "scheduled")
               /\ UNCHANGED <<attempt, session, row, copies, confirmed>>

\* The log is added and flushed, uncommitted; a failing flush ends the task,
\* for send_email_background catches everything.
AddLog(m) ==
    /\ At(m, "scheduled")
    /\ \/ /\ Goto(m, "send")
          /\ attempt' = [attempt EXCEPT ![m] = 1]
          /\ session' = [session EXCEPT ![m] = "open"]
       \/ /\ Goto(m, "done")
          /\ session' = [session EXCEPT ![m] = "dead"]
          /\ UNCHANGED attempt
    /\ UNCHANGED <<row, copies, confirmed>>

\* After a failed attempt the task sleeps, unless it was the last one.
AfterFailure(m) == IF attempt[m] < MaxAttempts THEN "backoff" ELSE "record"

\* provider.send: the server takes a copy or not, and the call returns only
\* if it did.
Send(m) ==
    /\ At(m, "send")
    /\ \/ /\ copies' = [copies EXCEPT ![m] = @ + 1]
          /\ \/ Goto(m, "commit") /\ confirmed' = [confirmed EXCEPT ![m] = TRUE]
             \/ Goto(m, AfterFailure(m)) /\ UNCHANGED confirmed
       \/ Goto(m, AfterFailure(m)) /\ UNCHANGED <<copies, confirmed>>
    /\ UNCHANGED <<attempt, session, row>>

\* What a commit may do to the row and the session, for a caller that goes on
\* at returned if it returns and at raised if it raises.
ForgivingCommit(m, status, returned, raised) ==
    \/ /\ Goto(m, returned)
       /\ row' = [row EXCEPT ![m] = [status |-> status, attempts |-> attempt[m]]]
       /\ UNCHANGED session
    \/ Goto(m, raised) /\ UNCHANGED <<row, session>>
Commit(m, status, returned, raised) ==
    LET written == [row EXCEPT ![m] = [status |-> status, attempts |-> attempt[m]]]
    IN  \/ /\ session[m] = "open"
           /\ Goto(m, returned) /\ row' = written /\ UNCHANGED session
        \/ /\ session[m] = "open"
           /\ Goto(m, raised) /\ row' \in {row, written}
           /\ session' = [session EXCEPT ![m] = "dead"]
        \/ /\ session[m] = "dead"
           /\ Goto(m, raised) /\ UNCHANGED <<row, session>>

\* The mail is SENT: commit and return, or one more failed attempt.
SettleResending(m) ==
    /\ At(m, "commit")
    /\ Commit(m, "SENT", AfterFailure(m), AfterFailure(m))
    /\ UNCHANGED <<attempt, copies, confirmed>>
CommitSent(m) ==
    /\ At(m, "commit")
    /\ Commit(m, "SENT", "done", AfterFailure(m))
    /\ UNCHANGED <<attempt, copies, confirmed>>

\* The backoff is over: the next attempt.
SameAttempt(m) == /\ At(m, "backoff") /\ Goto(m, "send")
                  /\ UNCHANGED <<attempt, session, row, copies, confirmed>>
NextAttempt(m) == /\ At(m, "backoff") /\ Goto(m, "send")
                  /\ attempt' = [attempt EXCEPT ![m] = @ + 1]
                  /\ UNCHANGED <<session, row, copies, confirmed>>

\* All attempts failed: the log is committed as FAILED; if that raises, the
\* task ends all the same.
UnrecordedFailure(m) == /\ At(m, "record") /\ Goto(m, "done")
                        /\ UNCHANGED <<attempt, session, row, copies, confirmed>>
RetriedRecord(m) ==
    /\ At(m, "record")
    /\ Commit(m, "FAILED", "done", "record")
    /\ UNCHANGED <<attempt, copies, confirmed>>
RecordFailed(m) ==
    /\ At(m, "record")
    /\ Commit(m, "FAILED", "done", "done")
    /\ UNCHANGED <<attempt, copies, confirmed>>

Ended(m) == pc[m] \in {"done", "lost"}

\* The process dies: its tasks and their open transactions are gone, and the
\* next process knows of none of them.
Crash ==
    /\ \E m \in Mails : pc[m] # "idle" /\ ~Ended(m)
    /\ pc' = [m \in Mails |-> IF pc[m] = "idle" \/ Ended(m) THEN pc[m] ELSE "lost"]
    /\ UNCHANGED <<attempt, session, row, copies, confirmed>>

TaskStep(m) == AddLog(m) \/ Send(m) \/ CommitSent(m) \/ NextAttempt(m) \/ RecordFailed(m)

Next == Crash \/ \E m \in Mails : Schedule(m) \/ TaskStep(m)

Spec == Init /\ [][Next]_vars

\* The event loop runs every task on; its sends have a timeout.
FairSpec == Spec /\ \A m \in Mails : WF_vars(TaskStep(m))
-----------------------------------------------------------------------------
(* Properties *)

\* The tasks, the rows and the counters have their types.
TypeOK == /\ pc \in [Mails -> Pc]
          /\ attempt \in [Mails -> 0 .. MaxAttempts]
          /\ session \in [Mails -> Session]
          /\ row \in [Mails -> LogRow \cup {None}]
          /\ copies \in [Mails -> Nat]
          /\ confirmed \in [Mails -> BOOLEAN]

\* A committed log tells the truth: SENT only for a mail the provider took,
\* FAILED only when every attempt was made and none was confirmed, also when
\* the commit of a confirmed send failed in between.
LogIsTruthful ==
    \A m \in Mails : row[m] # None =>
        \/ row[m].status = "SENT" /\ confirmed[m] /\ copies[m] > 0
        \/ row[m].status = "FAILED" /\ ~confirmed[m] /\ row[m].attempts = MaxAttempts

\* A task that met no database failure leaves its outcome in the log.
OutcomeLogged ==
    \A m \in Mails : pc[m] = "done" /\ session[m] = "open" => row[m] # None

\* A customer gets at most MAX_ATTEMPTS copies of a mail.
CopiesBounded == \A m \in Mails : copies[m] <= attempt[m] /\ attempt[m] <= MaxAttempts

\* A mail whose sending was confirmed is sent again only if the database
\* failed the commit that should have recorded it.
ResentOnlyAfterDatabaseFailure ==
    [][\A m \in Mails : confirmed[m] /\ session[m] # "dead" => copies'[m] = copies[m]]_vars

\* Every scheduled mail's task ends, however the server and the database fail.
EveryTaskEnds == \A m \in Mails : At(m, "scheduled") ~> Ended(m)

\* A mail that was begun leaves a log to inspect or send again, even if the
\* process died on it.  Not kept: the row is committed after the last attempt.
InterruptedMailIsLogged ==
    \A m \in Mails : pc[m] = "lost" /\ attempt[m] > 0 => row[m] # None
=============================================================================
