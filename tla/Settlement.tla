----------------------------- MODULE Settlement -----------------------------
(***************************************************************************)
(* POST /payments/webhook: PaymentService.process_webhook with             *)
(* EnrollmentService.activate_for_purchase and                             *)
(* NotificationService.schedule_purchase_confirmation.                     *)
(*                                                                         *)
(* get_by_reference loads the payment AND its purchase (joinedload) into   *)
(* the session's identity map.  The query that then locks the purchase row *)
(* does not ask for populate_existing, so SQLAlchemy returns the object it *)
(* already has, with the attributes of the first read: the handler decides *)
(* under the lock on a status it read before the lock.  At the flush, the  *)
(* ORM writes the columns whose new value differs from the one it loaded.  *)
(***************************************************************************)
EXTENDS CommerceTables

settlementRest == <<courses, offered, requests, txRef, issued, duplicates,
                    mail, crashes>>

WebhookAt(h, pc) == webhooks[h].pc = pc

\* The session changes, the tables and the provider do not.
ContinueWebhook(h, s) ==
    /\ webhooks' = [webhooks EXCEPT ![h] = s]
    /\ UNCHANGED <<purchases, payments, enrollments, acked, refused, settlementRest>>

\* The payment of an event: by our reference, else by the transaction id.
AnyPayment(t) == {r \in References : payments[r] # None}
PaymentsOfTransaction(t) ==
    LET byReference == PaymentsByReference(txRef[t])
    IN  IF byReference # {} THEN byReference ELSE PaymentsByTransactionId(t)

\* What the ORM flushes for one attribute: its new value if that is a change
\* of the value it loaded, else nothing.
Flushed(current, seen, new) == IF new = seen THEN current ELSE new

\* _APPROVED and _FAILED
ApprovedOrPending == {"APPROVED", "PENDING"}
Approving == {"APPROVED"}
Failing   == {"DECLINED", "ERROR", "VOIDED"}

\* The idempotency test on the purchase status of the session.
NeverSettled(status) == FALSE
SettledUnlessPending(status) == status # "PENDING"
AlreadySettled(status) == status = "PAID"
-----------------------------------------------------------------------------
\* The event is authentic; our payment is found with its purchase, or the
\* event is answered 200 as "unknown_reference".
LookupRefusingUnknown(h) ==
    LET s == webhooks[h]
        found == PaymentsOfTransaction(s.event.tx)
    IN  /\ WebhookAt(h, "lookup")
        /\ \/ found = {} /\ ContinueWebhook(h, IdleWebhook)
           \/ \E r \in found :
                LET p == payments[r].purchase
                IN  ContinueWebhook(h,
                      [s EXCEPT !.pc = "lock", !.ref = r, !.purchase = p,
                                !.purchaseSeen = purchases[p].status,
                                !.statusSeen = payments[r].status,
                                !.txSeen = payments[r].tx])
Lookup(h) ==
    LET s == webhooks[h]
        found == PaymentsOfTransaction(s.event.tx)
    IN  /\ WebhookAt(h, "lookup")
        /\ \/ /\ found = {}
              /\ ContinueWebhook(h, [s EXCEPT !.pc = "respond"])
           \/ \E r \in found :
                LET p == payments[r].purchase
                IN  ContinueWebhook(h,
                      [s EXCEPT !.pc = "lock", !.ref = r, !.purchase = p,
                                !.purchaseSeen = purchases[p].status,
                                !.statusSeen = payments[r].status,
                                !.txSeen = payments[r].tx])

\* SELECT ... FOR UPDATE returns when no other session holds the row.
LockPurchase(h) ==
    LET s == webhooks[h]
    IN  /\ WebhookAt(h, "lock")
        /\ ~\E g \in WebhookSlots : /\ WebhookAt(g, "locked")
                                    /\ webhooks[g].purchase = s.purchase
        /\ ContinueWebhook(h, [s EXCEPT !.pc = "locked"])

\* "already_processed": the commit only releases the lock.
AlreadyProcessed(h) ==
    /\ WebhookAt(h, "locked")
    /\ AlreadySettled(webhooks[h].purchaseSeen)
    /\ ContinueWebhook(h, [webhooks[h] EXCEPT !.pc = "respond"])

\* The payment's transaction id and status as the commit leaves them.
RecordedPayment(s) ==
    [payments[s.ref] EXCEPT !.tx = Flushed(@, s.txSeen, s.event.tx),
                            !.status = Flushed(@, s.statusSeen, s.event.status)]

\* activate_for_purchase: the enrollment that exists, else a new ACTIVE one.
ForgottenEnrollment(p) == enrollments[p]
ActivatedEnrollment(p) ==
    IF enrollments[p] # None
    THEN enrollments[p]
    ELSE [user |-> purchases[p].user, course |-> purchases[p].course,
          status |-> "ACTIVE"]

\* The insert would be a second ACTIVE enrollment of the user in the course.
EnrollmentConflicts(p) ==
    /\ enrollments[p] = None
    /\ HasActiveEnrollment(purchases[p].user, purchases[p].course)

\* One transaction: PAID, payment, enrollment; the confirmation is a
\* background task of the response.
SettlePaid(h) ==
    LET s == webhooks[h]
        p == s.purchase
    IN  /\ WebhookAt(h, "locked")
        /\ ~AlreadySettled(s.purchaseSeen)
        /\ s.event.status \in Approving
        /\ ~EnrollmentConflicts(p)
        /\ purchases' = [purchases EXCEPT
                           ![p].status = Flushed(@, s.purchaseSeen, "PAID")]
        /\ payments' = [payments EXCEPT ![s.ref] = RecordedPayment(s)]
        /\ enrollments' = [enrollments EXCEPT ![p] = ActivatedEnrollment(p)]
        /\ webhooks' = [webhooks EXCEPT ![h].pc = "respond", ![h].confirm = TRUE]
        /\ UNCHANGED <<acked, refused, settlementRest>>

\* The partial unique index rejects the insert: the flush raises, the session
\* is rolled back and the event is answered 500.
SwallowedConflict(h) ==
    /\ WebhookAt(h, "locked")
    /\ webhooks[h].event.status \in Approving
    /\ EnrollmentConflicts(webhooks[h].purchase)
    /\ ContinueWebhook(h, [webhooks[h] EXCEPT !.pc = "respond", !.confirm = TRUE])
SettleConflict(h) ==
    LET s == webhooks[h]
    IN  /\ WebhookAt(h, "locked")
        /\ ~AlreadySettled(s.purchaseSeen)
        /\ s.event.status \in Approving
        /\ EnrollmentConflicts(s.purchase)
        /\ refused' = refused \cup {s.event}
        /\ webhooks' = [webhooks EXCEPT ![h] = IdleWebhook]
        /\ UNCHANGED <<purchases, payments, enrollments, acked, settlementRest>>

\* A failed transaction fails the purchase only if it was seen PENDING.
RecordFailedFirst(h) ==
    LET s == webhooks[h]
    IN  /\ WebhookAt(h, "locked")
        /\ s.event.status \in Failing
        /\ purchases' = [purchases EXCEPT ![s.purchase].status = "FAILED"]
        /\ payments' = [payments EXCEPT ![s.ref] = RecordedPayment(s)]
        /\ webhooks' = [webhooks EXCEPT ![h].pc = "respond"]
        /\ UNCHANGED <<enrollments, acked, refused, settlementRest>>
RevokingRecordFailed(h) ==
    LET s == webhooks[h]
    IN  /\ WebhookAt(h, "locked")
        /\ s.event.status \in Failing
        /\ enrollments' = [enrollments EXCEPT ![s.purchase] = None]
        /\ payments' = [payments EXCEPT ![s.ref] = RecordedPayment(s)]
        /\ webhooks' = [webhooks EXCEPT ![h].pc = "respond"]
        /\ UNCHANGED <<purchases, acked, refused, settlementRest>>
RecordFailed(h) ==
    LET s == webhooks[h]
        p == s.purchase
    IN  /\ WebhookAt(h, "locked")
        /\ ~AlreadySettled(s.purchaseSeen)
        /\ s.event.status \in Failing
        /\ purchases' = IF s.purchaseSeen = "PENDING"
                        THEN [purchases EXCEPT ![p].status = "FAILED"]
                        ELSE purchases
        /\ payments' = [payments EXCEPT ![s.ref] = RecordedPayment(s)]
        /\ webhooks' = [webhooks EXCEPT ![h].pc = "respond"]
        /\ UNCHANGED <<enrollments, acked, refused, settlementRest>>

\* Any other status is only recorded on the payment.
RecordOther(h) ==
    LET s == webhooks[h]
    IN  /\ WebhookAt(h, "locked")
        /\ ~AlreadySettled(s.purchaseSeen)
        /\ s.event.status \notin Approving \cup Failing
        /\ payments' = [payments EXCEPT ![s.ref] = RecordedPayment(s)]
        /\ webhooks' = [webhooks EXCEPT ![h].pc = "respond"]
        /\ UNCHANGED <<purchases, enrollments, acked, refused, settlementRest>>

\* The 200 leaves, and the background task of the response is due.
Respond(h) ==
    LET s == webhooks[h]
    IN  /\ WebhookAt(h, "respond")
        /\ acked' = acked \cup {s.event}
        /\ outbox' = IF s.confirm THEN [outbox EXCEPT ![s.purchase] = @ + 1]
                                  ELSE outbox
        /\ webhooks' = [webhooks EXCEPT ![h] = IdleWebhook]
        /\ UNCHANGED <<tables, requests, txRef, issued, refused, duplicates,
                       confirmed, crashes>>

WebhookStep(h) ==
    \/ Lookup(h) \/ LockPurchase(h) \/ AlreadyProcessed(h)
    \/ SettlePaid(h) \/ SettleConflict(h) \/ RecordFailed(h) \/ RecordOther(h)
    \/ Respond(h)
=============================================================================
