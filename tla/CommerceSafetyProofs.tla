------------------------ MODULE CommerceSafetyProofs ------------------------
(***************************************************************************)
(* The safety theorems of Commerce, for every number of users, purchases,  *)
(* payments, transactions, request and webhook slots.                      *)
(*                                                                         *)
(* The promises of settlement lean on each other and on what a webhook     *)
(* session knows at each await, so they are proved together as SafetyInv:  *)
(* an enrollment matches its purchase; a transaction's reference is that   *)
(* of a committed payment and never changes once an event of it exists; a  *)
(* located session works on the payment its event's transaction pays; a    *)
(* session that saw PAID, or is about to answer an approval, finds the     *)
(* enrollment there.  Most steps keep each part because rows only grow.    *)
(***************************************************************************)
EXTENDS CommerceProofs

EnrollmentsMatch ==
    \A p \in PurchaseIds : enrollments[p] # None =>
        /\ purchases[p] # None
        /\ enrollments[p] = [user |-> purchases[p].user,
                             course |-> purchases[p].course, status |-> "ACTIVE"]

\* txRef names a committed payment, and only of a transaction with events; a
\* recorded transaction id belongs to the payment's own reference.
TransactionsKnown ==
    /\ \A t \in Transactions : txRef[t] # None =>
          payments[txRef[t]] # None /\ \E e \in issued : e.tx = t
    /\ \A r \in References : \A t \in Transactions :
          payments[r] # None /\ payments[r].tx = t => txRef[t] = r

\* What a webhook session knows.
Knows(h) ==
    /\ webhooks[h].pc \in Located =>
          /\ webhooks[h].ref = txRef[webhooks[h].event.tx]
          /\ webhooks[h].purchaseSeen = "PAID" =>
                enrollments[webhooks[h].purchase] # None
    /\ /\ webhooks[h].pc = "respond"
       /\ webhooks[h].event.status = "APPROVED"
       /\ txRef[webhooks[h].event.tx] # None
       => enrollments[payments[txRef[webhooks[h].event.tx]].purchase] # None
    /\ webhooks[h].confirm => /\ webhooks[h].pc = "respond"
                              /\ enrollments[webhooks[h].purchase] # None

WebhooksKnow == \A h \in WebhookSlots : Knows(h)

SafetyInv ==
    /\ EnrollmentsMatch /\ PaidHasEnrollment /\ OneActiveEnrollment
    /\ AccessWasPaidFor /\ TransactionsKnown /\ WebhooksKnow
    /\ AckedApprovalGrantsAccess /\ ConfirmationNeedsAccess
-----------------------------------------------------------------------------
(* Checkout: new rows only, and none that settlement has touched.          *)

CheckoutEffect ==
    /\ UNCHANGED <<enrollments, webhooks, provider, mail>>
    /\ \A p \in PurchaseIds :
          \/ purchases'[p] = purchases[p]
          \/ /\ purchases[p] = None /\ purchases'[p] # None
             /\ purchases'[p].status = "PENDING"
    /\ \A r \in References :
          \/ payments'[r] = payments[r]
          \/ /\ payments[r] = None /\ payments'[r] # None
             /\ payments'[r].tx = None

LEMMA CheckoutOnlyAdds == TypeInv /\ CheckoutNext => CheckoutEffect
<1> SUFFICES ASSUME TypeInv, CheckoutNext PROVE CheckoutEffect
  OBVIOUS
<1> USE NoneAssumption, NoRowAssumption DEF TypeInv
<1>1. ASSUME NEW q \in RequestSlots, NEW s, Continue(q, s) PROVE CheckoutEffect
  BY <1>1 DEF Continue, CheckoutEffect, checkoutRest, tables
<1>2. ASSUME NEW q \in RequestSlots, InsertPurchase(q) PROVE CheckoutEffect
  <2>1. CASE Answer(q)
    BY <2>1, <1>1 DEF Answer
  <2>2. CASE ~Answer(q)
    <3>1. PICK p \in PurchaseIds :
            /\ purchases[p] = None
            /\ purchases' = [purchases EXCEPT ![p] = NewPurchase(requests[q])]
      BY <1>2, <2>2 DEF InsertPurchase
    <3>2. NewPurchase(requests[q]) \in PurchaseRow
      BY <1>2 DEF InsertPurchase, At, RequestsTyped, PurchasePc, NewPurchase, PurchaseRow,
             PurchaseStatus
    <3>3. NewPurchase(requests[q]) # None
      BY <3>2
    <3>4. UNCHANGED <<payments, enrollments, checkoutRest>>
      BY <1>2, <2>2 DEF InsertPurchase
    <3> QED BY <3>1, <3>3, <3>4 DEF CheckoutEffect, checkoutRest, NewPurchase, TypeOK
  <2> QED BY <2>1, <2>2
<1>3. ASSUME NEW q \in RequestSlots, InsertPayment(q) PROVE CheckoutEffect
  <2>1. CASE Answer(q)
    BY <2>1, <1>1 DEF Answer
  <2>2. CASE ~Answer(q)
    <3>1. PICK r \in References :
            /\ payments[r] = None
            /\ payments' = [payments EXCEPT ![r] = NewPayment(requests[q])]
      BY <1>3, <2>2 DEF InsertPayment
    <3>2. NewPayment(requests[q]) \in PaymentRow
      BY <1>3 DEF InsertPayment, At, RequestsTyped, PaymentPc, NewPayment, PaymentRow,
             PaymentStatus
    <3>3. NewPayment(requests[q]) # None
      BY <3>2
    <3>4. UNCHANGED <<purchases, enrollments, checkoutRest>>
      BY <1>3, <2>2 DEF InsertPayment
    <3> QED BY <3>1, <3>3, <3>4 DEF CheckoutEffect, checkoutRest, NewPayment, TypeOK
  <2> QED BY <2>1, <2>2
<1>4. ASSUME NEW q \in RequestSlots, DeleteCourse(q) PROVE CheckoutEffect
  <2>1. CASE Answer(q)
    BY <2>1, <1>1 DEF Answer
  <2>2. CASE ~Answer(q)
    BY <1>4, <2>2 DEF DeleteCourse, CheckoutEffect, checkoutRest
  <2> QED BY <2>1, <2>2
<1>5. ASSUME NEW c \in Courses, NEW status \in AdminStatuses, NEW price \in Prices,
             UpdateCourse(c, status, price)
      PROVE  CheckoutEffect
  BY <1>5 DEF UpdateCourse, CheckoutEffect, checkoutRest
<1>6. ASSUME NEW q \in RequestSlots, StartRequest(q) PROVE CheckoutEffect
  BY <1>1, <1>6 DEF StartRequest, ReadCourse, ReadPurchase, CountPurchases
<1>7. ASSUME NEW q \in RequestSlots, CheckAlreadyPurchased(q) \/ ReusePending(q)
      PROVE  CheckoutEffect
  BY <1>1, <1>7 DEF CheckAlreadyPurchased, ReusePending, Answer
<1>8. ASSUME NEW q \in RequestSlots, ReusePayment(q) PROVE CheckoutEffect
  BY <1>1, <1>8 DEF ReusePayment, Answer
<1> QED
  BY <1>2, <1>3, <1>4, <1>5, <1>6, <1>7, <1>8 DEF CheckoutNext, PurchaseStep, PaymentStep

\* Checkout keeps every part of SafetyInv.
LEMMA CheckoutSafe == TypeInv /\ SafetyInv /\ CheckoutNext => SafetyInv'
<1> SUFFICES ASSUME TypeInv, SafetyInv, CheckoutEffect PROVE SafetyInv'
  BY CheckoutOnlyAdds
<1> USE NoneAssumption DEF SafetyInv, CheckoutEffect
<1>1. EnrollmentsMatch' /\ PaidHasEnrollment' /\ OneActiveEnrollment'
  BY DEF EnrollmentsMatch, PaidHasEnrollment, OneActiveEnrollment
<1>2. AccessWasPaidFor'
  BY DEF AccessWasPaidFor, Approved, provider
<1>3. TransactionsKnown'
  BY DEF TransactionsKnown, provider, TypeInv, TypeOK
<1>4. \A t \in Transactions : txRef[t] # None =>
        payments'[txRef[t]] = payments[txRef[t]]
  BY DEF TransactionsKnown, TypeInv, TypeOK
<1>5. WebhooksKnow'
  <2> SUFFICES ASSUME NEW h \in WebhookSlots PROVE Knows(h)'
    BY DEF WebhooksKnow
  <2>1. webhooks[h].pc = "respond" => webhooks[h].event.tx \in Transactions
    BY DEF TypeInv, TypeOK, WebhooksTyped, Event
  <2> QED BY <1>4, <2>1 DEF WebhooksKnow, Knows, provider
<1>6. AckedApprovalGrantsAccess' /\ ConfirmationNeedsAccess'
  BY <1>4 DEF AckedApprovalGrantsAccess, ConfirmationNeedsAccess, Approved, provider, mail
<1> QED BY <1>1, <1>2, <1>3, <1>5, <1>6
-----------------------------------------------------------------------------
(* Settlement *)

\* A step that changes only webhook session h keeps SafetyInv if the session
\* knows what its new state asks for.
LEMMA SessionStepSafe ==
    ASSUME TypeInv, SafetyInv, NEW h \in WebhookSlots,
           \A g \in WebhookSlots \ {h} : webhooks'[g] = webhooks[g],
           UNCHANGED <<purchases, payments, enrollments, txRef, issued, acked, mail>>,
           Knows(h)'
    PROVE  SafetyInv'
<1> USE DEF SafetyInv
<1>1. EnrollmentsMatch' /\ PaidHasEnrollment' /\ OneActiveEnrollment'
  BY DEF EnrollmentsMatch, PaidHasEnrollment, OneActiveEnrollment
<1>2. AccessWasPaidFor' /\ TransactionsKnown'
  BY DEF AccessWasPaidFor, TransactionsKnown, Approved
<1>3. WebhooksKnow'
  <2> SUFFICES ASSUME NEW g \in WebhookSlots PROVE Knows(g)'
    BY DEF WebhooksKnow
  <2> QED BY DEF WebhooksKnow, Knows
<1>4. AckedApprovalGrantsAccess' /\ ConfirmationNeedsAccess'
  BY DEF AckedApprovalGrantsAccess, ConfirmationNeedsAccess, Approved, mail
<1> QED BY <1>1, <1>2, <1>3, <1>4

\* The payment a lookup finds is the one the transaction pays.
LEMMA FoundPayment ==
    ASSUME TypeInv, SafetyInv, NEW t \in Transactions,
           NEW r \in PaymentsOfTransaction(t)
    PROVE  r = txRef[t] /\ r \in References /\ payments[r] # None
<1> QED BY DEF PaymentsOfTransaction, PaymentsByReference, PaymentsByTransactionId,
            SafetyInv, TransactionsKnown

LEMMA LookupSafe ==
    ASSUME TypeInv, SafetyInv, NEW h \in WebhookSlots, Lookup(h)
    PROVE  SafetyInv'
<1> USE NoneAssumption
<1> DEFINE s == webhooks[h]
<1>1. /\ s \in WebhookSession /\ s.event.tx \in Transactions
      /\ s.pc = "lookup" /\ ~s.confirm
      /\ webhooks \in [WebhookSlots -> WebhookSession]
  BY DEF Lookup, WebhookAt, TypeInv, TypeOK, WebhooksTyped, Event, SafetyInv, WebhooksKnow,
         Knows
<1>2. CASE /\ PaymentsOfTransaction(s.event.tx) = {}
           /\ ContinueWebhook(h, [s EXCEPT !.pc = "respond"])
  <2>1. txRef[s.event.tx] = None
    BY <1>1, <1>2 DEF PaymentsOfTransaction, PaymentsByReference, TypeInv, TypeOK, SafetyInv,
          TransactionsKnown
  <2>2. Knows(h)'
    BY <1>1, <1>2, <2>1 DEF Knows, ContinueWebhook, settlementRest, Located, WebhookSession
  <2> QED
    BY <1>1, <1>2, <2>2, SessionStepSafe DEF ContinueWebhook, settlementRest
<1>3. ASSUME NEW r \in PaymentsOfTransaction(s.event.tx),
             ContinueWebhook(h,
               [s EXCEPT !.pc = "lock", !.ref = r, !.purchase = payments[r].purchase,
                         !.purchaseSeen = purchases[payments[r].purchase].status,
                         !.statusSeen = payments[r].status, !.txSeen = payments[r].tx])
      PROVE  SafetyInv'
  <2>1. r = txRef[s.event.tx] /\ r \in References /\ payments[r] # None
    BY <1>1, FoundPayment
  <2>2. payments[r] \in PaymentRow /\ purchases[payments[r].purchase] # None
    BY <2>1 DEF TypeInv, TypeOK, RowsExist
  <2>3. payments[r].purchase \in PurchaseIds
    BY <2>2 DEF PaymentRow
  <2>4. purchases[payments[r].purchase].status = "PAID" =>
          enrollments[payments[r].purchase] # None
    BY <2>2, <2>3, NoRowAssumption
       DEF SafetyInv, PaidHasEnrollment, TypeInv, TypeOK, EnrollmentRow, EnrollmentStatus,
           PurchaseRow
  <2>5. Knows(h)'
    BY <1>1, <1>3, <2>1, <2>4
       DEF Knows, ContinueWebhook, settlementRest, Located, WebhookSession
  <2> QED
    BY <1>1, <1>3, <2>5, SessionStepSafe DEF ContinueWebhook, settlementRest
<1> QED BY <1>2, <1>3 DEF Lookup
\* Taking the lock, and answering for a purchase that was seen PAID.
LEMMA LockSafe ==
    ASSUME TypeInv, SafetyInv, NEW h \in WebhookSlots,
           LockPurchase(h) \/ AlreadyProcessed(h)
    PROVE  SafetyInv'
<1> USE NoneAssumption
<1> DEFINE s == webhooks[h]
<1>1. s.pc \in Located
  BY DEF LockPurchase, AlreadyProcessed, WebhookAt, Located
<1>2. /\ s \in WebhookSession /\ webhooks \in [WebhookSlots -> WebhookSession]
      /\ Knows(h)
      /\ payments[s.ref].purchase = s.purchase
  BY <1>1, LocatedRows DEF TypeInv, TypeOK, SafetyInv, WebhooksKnow
<1>3. Knows(h)'
  <2>1. CASE LockPurchase(h)
    BY <1>1, <1>2, <2>1 DEF Knows, LockPurchase, ContinueWebhook, settlementRest, Located,
          WebhookSession
  <2>2. CASE AlreadyProcessed(h)
    BY <1>1, <1>2, <2>2 DEF Knows, AlreadyProcessed, AlreadySettled, ContinueWebhook,
          settlementRest, Located, WebhookSession
  <2> QED BY <2>1, <2>2
<1> QED
  BY <1>2, <1>3, SessionStepSafe DEF LockPurchase, AlreadyProcessed, ContinueWebhook, settlementRest

\* A refused settlement leaves an idle session and nothing else; so does an
\* answer, which also acknowledges the event and schedules its confirmation.
LEMMA SettleConflictSafe ==
    ASSUME TypeInv, SafetyInv, NEW h \in WebhookSlots, SettleConflict(h)
    PROVE  SafetyInv'
<1>1. /\ webhooks' = [webhooks EXCEPT ![h] = IdleWebhook]
      /\ UNCHANGED <<purchases, payments, enrollments, txRef, issued, acked, mail>>
  BY DEF SettleConflict, settlementRest
<1>2. Knows(h)'
  BY <1>1 DEF Knows, IdleWebhook, Located, TypeInv, TypeOK
<1> QED BY <1>1, <1>2, SessionStepSafe DEF TypeInv, TypeOK

LEMMA RespondSafe ==
    ASSUME TypeInv, SafetyInv, NEW h \in WebhookSlots, Respond(h)
    PROVE  SafetyInv'
<1> USE NoneAssumption
<1> DEFINE s == webhooks[h]
<1>1. /\ s.pc = "respond" /\ s.event \in issued /\ s.event \in Event
      /\ s.confirm => s.purchase \in PurchaseIds
      /\ Knows(h)
  BY DEF Respond, WebhookAt, TypeInv, TypeOK, WebhooksTyped, SafetyInv, WebhooksKnow
<1>2. /\ webhooks' = [webhooks EXCEPT ![h] = IdleWebhook]
      /\ acked' = acked \cup {s.event}
      /\ outbox' = IF s.confirm THEN [outbox EXCEPT ![s.purchase] = @ + 1] ELSE outbox
      /\ UNCHANGED <<purchases, payments, enrollments, txRef, issued, confirmed>>
  BY DEF Respond, tables
<1>3. EnrollmentsMatch' /\ PaidHasEnrollment' /\ OneActiveEnrollment'
  BY <1>2 DEF SafetyInv, EnrollmentsMatch, PaidHasEnrollment, OneActiveEnrollment
<1>4. AccessWasPaidFor' /\ TransactionsKnown'
  BY <1>2 DEF SafetyInv, AccessWasPaidFor, TransactionsKnown, Approved
<1>5. WebhooksKnow'
  <2> SUFFICES ASSUME NEW g \in WebhookSlots PROVE Knows(g)'
    BY DEF WebhooksKnow
  <2> QED BY <1>2 DEF SafetyInv, WebhooksKnow, Knows, IdleWebhook, Located, TypeInv, TypeOK
<1>6. AckedApprovalGrantsAccess'
  <2> SUFFICES ASSUME NEW t \in Transactions, Approved(t) \in acked', txRef[t] # None
               PROVE  enrollments[payments[txRef[t]].purchase] # None
    BY <1>2 DEF AckedApprovalGrantsAccess, Approved
  <2>1. CASE Approved(t) \in acked
    BY <2>1 DEF SafetyInv, AckedApprovalGrantsAccess
  <2>2. CASE Approved(t) = s.event
    BY <2>2, <1>1 DEF Knows, Approved
  <2> QED BY <2>1, <2>2, <1>2
<1>7. ConfirmationNeedsAccess'
  <2> SUFFICES ASSUME NEW p \in PurchaseIds, outbox'[p] + confirmed[p] > 0
               PROVE  enrollments[p] # None
    BY <1>2 DEF ConfirmationNeedsAccess
  <2>1. CASE s.confirm /\ p = s.purchase
    BY <2>1, <1>1 DEF Knows
  <2>2. CASE ~(s.confirm /\ p = s.purchase)
    <3>1. outbox'[p] = outbox[p]
      BY <1>2, <2>2, <1>1 DEF TypeInv, TypeOK
    <3> QED BY <3>1 DEF SafetyInv, ConfirmationNeedsAccess
  <2> QED BY <2>1, <2>2
<1> QED BY <1>3, <1>4, <1>5, <1>6, <1>7 DEF SafetyInv

\* The three commits write the purchase and the payment of the session.
CommitEffect(h) ==
    LET s == webhooks[h]
    IN  /\ s.pc \in Located
        /\ ~AlreadySettled(s.purchaseSeen)
        /\ payments' = [payments EXCEPT ![s.ref] = RecordedPayment(s)]
        /\ \A g \in WebhookSlots \ {h} : webhooks'[g] = webhooks[g]
        /\ webhooks'[h].pc = "respond" /\ webhooks'[h].event = s.event
        /\ webhooks'[h].purchase = s.purchase
        /\ UNCHANGED <<acked, txRef, issued, mail>>

\* A commit keeps which payments exist, whose they are and what they record.
LEMMA CommitKeepsPayments ==
    ASSUME TypeInv, SafetyInv, NEW h \in WebhookSlots, CommitEffect(h)
    PROVE  /\ \A r \in References : payments[r] # None =>
                 payments'[r] # None /\ payments'[r].purchase = payments[r].purchase
           /\ \A r \in References : payments[r] = None => payments'[r] = None
           /\ TransactionsKnown'
<1> USE NoneAssumption, NoRowAssumption
<1> DEFINE s == webhooks[h]
           row == RecordedPayment(s)
<1>1. /\ s \in WebhookSession /\ s.ref \in References
      /\ s.event \in Event
      /\ payments[s.ref] \in PaymentRow /\ payments[s.ref].purchase = s.purchase
      /\ row \in PaymentRow /\ row.purchase = s.purchase
      /\ s.ref = txRef[s.event.tx]
  BY LocatedRows, RecordedPaymentTyped
     DEF CommitEffect, SafetyInv, WebhooksKnow, Knows, TypeInv, TypeOK
<1>2. row.tx = payments[s.ref].tx \/ row.tx = s.event.tx
  BY <1>1 DEF RecordedPayment, Flushed, PaymentRow
<1> HIDE DEF row
<1>3. payments' = [payments EXCEPT ![s.ref] = row] /\ UNCHANGED <<txRef, issued>>
  BY DEF CommitEffect, row
<1>4. \A r \in References : payments[r] # None =>
         payments'[r] # None /\ payments'[r].purchase = payments[r].purchase
  BY <1>1, <1>3 DEF TypeInv, TypeOK
<1>5. \A r \in References : payments[r] = None => payments'[r] = None
  BY <1>1, <1>3 DEF TypeInv, TypeOK
<1>6. \A t \in Transactions : txRef'[t] # None =>
         payments'[txRef'[t]] # None /\ \E e \in issued' : e.tx = t
  BY <1>3, <1>4 DEF SafetyInv, TransactionsKnown, TypeInv, TypeOK
<1>7. \A r \in References : \A t \in Transactions :
         payments'[r] # None /\ payments'[r].tx = t => txRef'[t] = r
  <2> TAKE r \in References
  <2> TAKE t \in Transactions
  <2>1. CASE r = s.ref
    BY <2>1, <1>1, <1>2, <1>3 DEF SafetyInv, TransactionsKnown, TypeInv, TypeOK
  <2>2. CASE r # s.ref
    BY <2>2, <1>1, <1>3 DEF SafetyInv, TransactionsKnown, TypeInv, TypeOK
  <2> QED BY <2>1, <2>2
<1> QED BY <1>4, <1>5, <1>6, <1>7 DEF TransactionsKnown
\* What every commit keeps, once the enrollments only grow and the new state
\* of its own session knows what it must.
LEMMA CommitSafe ==
    ASSUME TypeInv, SafetyInv, NEW h \in WebhookSlots, CommitEffect(h),
           \A p \in PurchaseIds : enrollments[p] # None => enrollments'[p] # None,
           EnrollmentsMatch', PaidHasEnrollment', OneActiveEnrollment',
           AccessWasPaidFor', Knows(h)'
    PROVE  SafetyInv'
<1> USE NoneAssumption
<1>1. UNCHANGED <<acked, txRef, issued, outbox, confirmed>>
  BY DEF CommitEffect, mail
<1>2. \A t \in Transactions : txRef[t] # None =>
        /\ payments'[txRef[t]].purchase = payments[txRef[t]].purchase
        /\ payments[txRef[t]].purchase \in PurchaseIds
  <2>1. \A t \in Transactions : txRef[t] # None =>
          txRef[t] \in References /\ payments[txRef[t]] # None
    BY DEF SafetyInv, TransactionsKnown, TypeInv, TypeOK
  <2> QED BY <2>1, CommitKeepsPayments DEF TypeInv, TypeOK, PaymentRow
<1>3. WebhooksKnow'
  <2> SUFFICES ASSUME NEW g \in WebhookSlots \ {h} PROVE Knows(g)'
    BY DEF WebhooksKnow
  <2>1. webhooks'[g] = webhooks[g] /\ Knows(g)
    BY DEF CommitEffect, SafetyInv, WebhooksKnow
  <2>2. webhooks[g].pc \in Located => webhooks[g].purchase \in PurchaseIds
    BY DEF TypeInv, WebhooksTyped
  <2>3. webhooks[g].confirm => webhooks[g].purchase \in PurchaseIds
    BY DEF TypeInv, WebhooksTyped
  <2>4. webhooks[g].pc = "respond" => webhooks[g].event.tx \in Transactions
    BY DEF TypeInv, TypeOK, WebhooksTyped, Event
  <2> QED BY <1>1, <1>2, <2>1, <2>2, <2>3, <2>4 DEF Knows
<1>4. AckedApprovalGrantsAccess'
  BY <1>1, <1>2 DEF SafetyInv, AckedApprovalGrantsAccess, Approved
<1>5. ConfirmationNeedsAccess'
  BY <1>1 DEF SafetyInv, ConfirmationNeedsAccess
<1>6. TransactionsKnown'
  BY CommitKeepsPayments
<1> QED BY <1>3, <1>4, <1>5, <1>6 DEF SafetyInv

\* Access that was paid for stays so across a commit.
LEMMA CommitKeepsPaidFor ==
    ASSUME TypeInv, SafetyInv, NEW h \in WebhookSlots, CommitEffect(h),
           NEW p \in PurchaseIds, enrollments[p] # None
    PROVE  \E t \in Transactions, r \in References :
              /\ Approved(t) \in issued' /\ txRef'[t] = r
              /\ payments'[r] # None /\ payments'[r].purchase = p
<1>1. PICK t \in Transactions, r \in References :
        /\ Approved(t) \in issued /\ txRef[t] = r
        /\ payments[r] # None /\ payments[r].purchase = p
  BY DEF SafetyInv, AccessWasPaidFor
<1>2. UNCHANGED <<issued, txRef>>
  BY DEF CommitEffect
<1>3. payments'[r] # None /\ payments'[r].purchase = p
  BY <1>1, CommitKeepsPayments
<1> QED BY <1>1, <1>2, <1>3

LEMMA SettlePaidSafe ==
    ASSUME TypeInv, SafetyInv, NEW h \in WebhookSlots, SettlePaid(h)
    PROVE  SafetyInv'
<1> USE NoneAssumption, NoRowAssumption
<1> DEFINE s == webhooks[h]
           p == s.purchase
           row == ActivatedEnrollment(p)
<1>1. s.pc = "locked" /\ s.pc \in Located
  BY DEF SettlePaid, WebhookAt, Located
<1>2. /\ s \in WebhookSession /\ webhooks \in [WebhookSlots -> WebhookSession]
      /\ s.event \in issued /\ s.event \in Event
      /\ p \in PurchaseIds /\ purchases[p] \in PurchaseRow
      /\ purchases \in [PurchaseIds -> PurchaseRow \cup {None}]
      /\ enrollments \in [PurchaseIds -> EnrollmentRow \cup {None}]
      /\ s.ref \in References /\ s.ref = txRef[s.event.tx]
      /\ payments[s.ref] \in PaymentRow /\ payments[s.ref].purchase = p
      /\ payments[s.ref] # None
  BY <1>1, LocatedRows DEF TypeInv, TypeOK, SafetyInv, WebhooksKnow, Knows
<1>3. /\ purchases'[p].status = "PAID" /\ purchases'[p] # None
      /\ purchases'[p].user = purchases[p].user
      /\ purchases'[p].course = purchases[p].course
      /\ \A o \in PurchaseIds \ {p} : purchases'[o] = purchases[o]
  <2>1. Flushed(purchases[p].status, s.purchaseSeen, "PAID") = "PAID"
    BY DEF Flushed, SettlePaid, AlreadySettled
  <2>2. purchases' = [purchases EXCEPT ![p].status = "PAID"]
    BY <1>2, <2>1 DEF SettlePaid
  <2>3. [purchases[p] EXCEPT !.status = "PAID"] \in PurchaseRow
    BY <1>2 DEF PurchaseRow, PurchaseStatus
  <2> QED BY <1>2, <2>2, <2>3 DEF PurchaseRow
<1>4. row = [user |-> purchases[p].user, course |-> purchases[p].course,
             status |-> "ACTIVE"]
  BY <1>2 DEF ActivatedEnrollment, SafetyInv, EnrollmentsMatch
<1>5. row \in EnrollmentRow /\ row # None
  BY <1>2, <1>4 DEF EnrollmentRow, PurchaseRow, EnrollmentStatus
<1>6. enrollments[p] = None => ~HasActiveEnrollment(row.user, row.course)
  BY <1>4 DEF SettlePaid, EnrollmentConflicts
<1>7. enrollments' = [enrollments EXCEPT ![p] = row]
  BY DEF SettlePaid
<1> HIDE DEF row
<1>8. CommitEffect(h)
  BY <1>1, <1>2 DEF CommitEffect, SettlePaid, settlementRest, WebhookSession
<1>9. \A o \in PurchaseIds : enrollments[o] # None => enrollments'[o] # None
  BY <1>2, <1>5, <1>7
<1>10. EnrollmentsMatch' /\ PaidHasEnrollment'
  BY <1>2, <1>3, <1>4, <1>5, <1>7 DEF SafetyInv, EnrollmentsMatch, PaidHasEnrollment
<1>11. OneActiveEnrollment'
  <2>1. enrollments[p] # None => enrollments' = enrollments
    BY <1>2, <1>7, <1>4 DEF SafetyInv, EnrollmentsMatch
  <2>2. CASE enrollments[p] # None
    BY <2>1, <2>2 DEF SafetyInv, OneActiveEnrollment
  <2>3. CASE enrollments[p] = None
    <3>1. \A o \in PurchaseIds \ {p} :
             enrollments[o] # None /\ enrollments[o].status = "ACTIVE" =>
                ~(enrollments[o].user = row.user /\ enrollments[o].course = row.course)
      BY <1>6, <2>3 DEF HasActiveEnrollment
    <3> QED BY <1>2, <1>7, <3>1 DEF SafetyInv, OneActiveEnrollment
  <2> QED BY <2>2, <2>3
<1>12. AccessWasPaidFor'
  <2> SUFFICES ASSUME NEW o \in PurchaseIds, enrollments'[o] # None
               PROVE  \E t \in Transactions, r \in References :
                        /\ Approved(t) \in issued' /\ txRef'[t] = r
                        /\ payments'[r] # None /\ payments'[r].purchase = o
    BY DEF AccessWasPaidFor, Approved
  <2>1. CASE enrollments[o] # None
    BY <2>1, <1>8, CommitKeepsPaidFor
  <2>2. CASE enrollments[o] = None
    <3>1. o = p
      BY <2>2, <1>2, <1>7
    <3>2. s.event.tx \in Transactions /\ Approved(s.event.tx) = s.event
      BY <1>2 DEF SettlePaid, Approving, Approved, Event
    <3>3. payments'[s.ref] # None /\ payments'[s.ref].purchase = p
      BY <1>2, <1>8, CommitKeepsPayments
    <3>4. UNCHANGED <<issued, txRef>>
      BY <1>8 DEF CommitEffect
    <3> QED BY <1>2, <3>1, <3>2, <3>3, <3>4
  <2> QED BY <2>1, <2>2
<1>13. Knows(h)'
  <2>1. /\ webhooks'[h].pc = "respond" /\ webhooks'[h].event = s.event
        /\ webhooks'[h].purchase = p /\ txRef' = txRef
    BY <1>8 DEF CommitEffect
  <2>2. payments'[s.ref].purchase = p
    BY <1>2, <1>8, CommitKeepsPayments
  <2>3. enrollments'[p] # None
    BY <1>2, <1>5, <1>7
  <2> QED BY <1>2, <2>1, <2>2, <2>3 DEF Knows, Located
<1> QED BY <1>8, <1>9, <1>10, <1>11, <1>12, <1>13, CommitSafe

LEMMA RecordSafe ==
    ASSUME TypeInv, SafetyInv, NEW h \in WebhookSlots, RecordFailed(h) \/ RecordOther(h)
    PROVE  SafetyInv'
<1> USE NoneAssumption, NoRowAssumption
<1> DEFINE s == webhooks[h]
           p == s.purchase
<1>1. s.pc = "locked" /\ s.pc \in Located /\ s.event.status # "APPROVED"
  BY DEF RecordFailed, RecordOther, WebhookAt, Located, Approving, Failing
<1>2. /\ s \in WebhookSession /\ webhooks \in [WebhookSlots -> WebhookSession]
      /\ p \in PurchaseIds /\ purchases[p] \in PurchaseRow
      /\ purchases \in [PurchaseIds -> PurchaseRow \cup {None}]
      /\ ~s.confirm
  BY <1>1, LocatedRows DEF TypeInv, TypeOK, SafetyInv, WebhooksKnow, Knows
<1>3. \A o \in PurchaseIds :
        \/ purchases'[o] = purchases[o]
        \/ /\ purchases[o] # None /\ purchases'[o] # None
           /\ purchases'[o].status = "FAILED"
           /\ purchases'[o].user = purchases[o].user
           /\ purchases'[o].course = purchases[o].course
  <2>1. [purchases[p] EXCEPT !.status = "FAILED"] \in PurchaseRow
    BY <1>2 DEF PurchaseRow, PurchaseStatus
  <2>2. \/ purchases' = [purchases EXCEPT ![p] = [purchases[p] EXCEPT !.status = "FAILED"]]
        \/ purchases' = purchases
    BY <1>2 DEF RecordFailed, RecordOther
  <2> QED BY <1>2, <2>1, <2>2 DEF PurchaseRow
<1>4. CommitEffect(h) /\ enrollments' = enrollments
  BY <1>1, <1>2 DEF CommitEffect, RecordFailed, RecordOther, settlementRest, WebhookSession
<1>5. EnrollmentsMatch' /\ PaidHasEnrollment' /\ OneActiveEnrollment'
  BY <1>3, <1>4 DEF SafetyInv, EnrollmentsMatch, PaidHasEnrollment, OneActiveEnrollment
<1>6. AccessWasPaidFor'
  BY <1>4, CommitKeepsPaidFor DEF AccessWasPaidFor, Approved
<1>7. Knows(h)'
  <2>1. webhooks'[h] = [s EXCEPT !.pc = "respond"]
    BY <1>2 DEF RecordFailed, RecordOther
  <2> QED BY <1>1, <1>2, <2>1 DEF Knows, Located, WebhookSession
<1> QED BY <1>4, <1>5, <1>6, <1>7, CommitSafe

LEMMA SettlementSafe == TypeInv /\ SafetyInv /\ WebhookNext => SafetyInv'
  BY LookupSafe, LockSafe, SettlePaidSafe, SettleConflictSafe, RecordSafe, RespondSafe
     DEF WebhookNext, WebhookStep
-----------------------------------------------------------------------------
(* The provider, the background tasks and the crash *)

LEMMA ProviderSafe == TypeInv /\ SafetyInv /\ ProviderNext => SafetyInv'
<1> SUFFICES ASSUME TypeInv, SafetyInv, ProviderNext PROVE SafetyInv'
  OBVIOUS
<1> USE NoneAssumption DEF SafetyInv
<1>1. ASSUME NEW t \in Transactions, NEW status \in ProviderStatuses,
             \/ \E r \in References : PayAtCheckout(t, r, status)
             \/ PayElsewhere(t, status)
             \/ UpdateTransaction(t, status)
      PROVE  SafetyInv'
  <2>1. /\ issued' = issued \cup {[tx |-> t, status |-> status]}
        /\ UNCHANGED <<purchases, payments, enrollments, webhooks, acked, outbox, confirmed>>
    BY <1>1 DEF PayAtCheckout, PayElsewhere, UpdateTransaction, providerRest, tables, mail
  <2>2. /\ \A e \in issued : txRef'[e.tx] = txRef[e.tx]
        /\ \A u \in Transactions : txRef'[u] = txRef[u] \/
             /\ u = t /\ txRef[u] = None /\ payments[txRef'[u]] # None
             /\ \A e \in issued : e.tx # u
    <3>1. CASE UNCHANGED txRef
      BY <3>1
    <3>2. CASE \E r \in References : PayAtCheckout(t, r, status)
      <4>0. PICK r \in References : PayAtCheckout(t, r, status)
        BY <3>2
      <4>1. StatusesOf(t) = {} /\ payments[r] # None /\ txRef' = [txRef EXCEPT ![t] = r]
        BY <4>0 DEF PayAtCheckout
      <4>2. \A e \in issued : e.tx # t
        BY <4>1 DEF StatusesOf
      <4>3. txRef \in [Transactions -> References \cup {None}] /\ issued \subseteq Event
        BY DEF TypeInv, TypeOK
      <4>4. txRef[t] = None
        BY <4>2, <4>3 DEF TransactionsKnown
      <4>5. txRef'[t] = r /\ \A u \in Transactions : u # t => txRef'[u] = txRef[u]
        BY <4>1, <4>3
      <4>6. \A e \in issued : e.tx \in Transactions
        BY <4>3 DEF Event
      <4> QED BY <4>1, <4>2, <4>4, <4>5, <4>6
    <3>3. UNCHANGED txRef \/ \E r \in References : PayAtCheckout(t, r, status)
      BY <1>1 DEF PayElsewhere, UpdateTransaction
    <3> QED BY <3>1, <3>2, <3>3
  <2>3. [tx |-> t, status |-> status] \in issued' /\ issued \subseteq issued'
    BY <2>1
  <2>4. TransactionsKnown'
    <3>1. \A u \in Transactions : txRef'[u] # None =>
              payments'[txRef'[u]] # None /\ \E e \in issued' : e.tx = u
      BY <2>1, <2>2, <2>3 DEF TransactionsKnown
    <3>2. \A r \in References : \A u \in Transactions :
              payments'[r] # None /\ payments'[r].tx = u => txRef'[u] = r
      BY <2>1, <2>2 DEF TransactionsKnown
    <3> QED BY <3>1, <3>2 DEF TransactionsKnown
  <2>5. AccessWasPaidFor'
    BY <2>1, <2>2 DEF AccessWasPaidFor, Approved
  <2>6. EnrollmentsMatch' /\ PaidHasEnrollment' /\ OneActiveEnrollment'
    BY <2>1 DEF EnrollmentsMatch, PaidHasEnrollment, OneActiveEnrollment
  <2>7. WebhooksKnow'
    <3> SUFFICES ASSUME NEW h \in WebhookSlots PROVE Knows(h)'
      BY DEF WebhooksKnow
    <3>1. webhooks[h].pc # "idle" => txRef'[webhooks[h].event.tx] = txRef[webhooks[h].event.tx]
      BY <2>2 DEF TypeInv, WebhooksTyped
    <3> QED BY <2>1, <3>1 DEF WebhooksKnow, Knows, Located
  <2>8. AckedApprovalGrantsAccess' /\ ConfirmationNeedsAccess'
    <3>1. \A u \in Transactions : Approved(u) \in acked => txRef'[u] = txRef[u]
      BY <2>2 DEF TypeInv, TypeOK, Approved
    <3> QED BY <2>1, <3>1 DEF AckedApprovalGrantsAccess, ConfirmationNeedsAccess, Approved
  <2> QED BY <2>4, <2>5, <2>6, <2>7, <2>8
<1>2. ASSUME NEW h \in WebhookSlots, NEW e \in issued, Deliver(h, e)
      PROVE  SafetyInv'
  <2>1. /\ webhooks' = [webhooks EXCEPT ![h] = [IdleWebhook EXCEPT !.pc = "lookup",
                                                                   !.event = e]]
        /\ UNCHANGED <<purchases, payments, enrollments, txRef, issued, acked, mail>>
    BY <1>2 DEF Deliver, tables
  <2>2. Knows(h)'
    BY <2>1 DEF Knows, IdleWebhook, Located, TypeInv, TypeOK
  <2> QED BY <2>1, <2>2, SessionStepSafe DEF TypeInv, TypeOK
<1> QED BY <1>1, <1>2 DEF ProviderNext

LEMMA ProcessSafe ==
    TypeInv /\ SafetyInv /\ (Crash \/ \E p \in PurchaseIds : RunConfirmation(p))
    => SafetyInv'
<1> SUFFICES ASSUME TypeInv, SafetyInv,
                    Crash \/ \E p \in PurchaseIds : RunConfirmation(p)
             PROVE  SafetyInv'
  OBVIOUS
<1> USE NoneAssumption DEF SafetyInv
<1>1. UNCHANGED <<purchases, payments, enrollments, txRef, issued, acked>>
  BY DEF Crash, RunConfirmation, tables, provider
<1>2. EnrollmentsMatch' /\ PaidHasEnrollment' /\ OneActiveEnrollment'
  BY <1>1 DEF EnrollmentsMatch, PaidHasEnrollment, OneActiveEnrollment
<1>3. AccessWasPaidFor' /\ TransactionsKnown' /\ AckedApprovalGrantsAccess'
  BY <1>1 DEF AccessWasPaidFor, TransactionsKnown, AckedApprovalGrantsAccess, Approved
<1>4. WebhooksKnow'
  BY <1>1 DEF WebhooksKnow, Knows, Crash, RunConfirmation, IdleWebhook, Located
<1>5. \A p \in PurchaseIds : outbox'[p] + confirmed'[p] > 0 =>
                              outbox[p] + confirmed[p] > 0
  BY DEF Crash, RunConfirmation, TypeInv, TypeOK
<1>6. ConfirmationNeedsAccess'
  BY <1>1, <1>5 DEF ConfirmationNeedsAccess
<1> QED BY <1>2, <1>3, <1>4, <1>6

LEMMA InitSafe == Init => SafetyInv
  BY DEF Init, SafetyInv, EnrollmentsMatch, PaidHasEnrollment, OneActiveEnrollment,
         AccessWasPaidFor, TransactionsKnown, WebhooksKnow, Knows, IdleWebhook, Located,
         AckedApprovalGrantsAccess, ConfirmationNeedsAccess, Approved

LEMMA StutterSafe == SafetyInv /\ UNCHANGED vars => SafetyInv'
  BY DEF SafetyInv, EnrollmentsMatch, PaidHasEnrollment, OneActiveEnrollment,
         AccessWasPaidFor, TransactionsKnown, WebhooksKnow, Knows,
         AckedApprovalGrantsAccess, ConfirmationNeedsAccess, Approved,
         vars, tables, provider, mail
-----------------------------------------------------------------------------
\* The inductive safety invariant holds in every reachable state.
THEOREM SafetyInvariant == Spec => []SafetyInv
<1>1. TypeInv /\ SafetyInv /\ [Next]_vars => SafetyInv'
  BY CheckoutSafe, SettlementSafe, ProviderSafe, ProcessSafe, StutterSafe DEF Next
<1> QED BY <1>1, InitSafe, TypeInvariant, PTL DEF Spec

\* Rule 8: at every commit a PAID purchase has its matching ACTIVE enrollment.
THEOREM PaidPurchasesAreEnrolled == Spec => []PaidHasEnrollment
<1>1. SafetyInv => PaidHasEnrollment
  BY DEF SafetyInv
<1> QED BY <1>1, SafetyInvariant, PTL

\* A user never has two ACTIVE enrollments in a course.
THEOREM EnrollmentsAreUnique == Spec => []OneActiveEnrollment
<1>1. SafetyInv => OneActiveEnrollment
  BY DEF SafetyInv
<1> QED BY <1>1, SafetyInvariant, PTL

\* Rules 5 and 6: nobody gets access without an approved transaction on a
\* payment of that very purchase.
THEOREM AccessIsPaidFor == Spec => []AccessWasPaidFor
<1>1. SafetyInv => AccessWasPaidFor
  BY DEF SafetyInv
<1> QED BY <1>1, SafetyInvariant, PTL

\* No approval is acknowledged to the provider and then lost.
THEOREM NoApprovalIsLost == Spec => []AckedApprovalGrantsAccess
<1>1. SafetyInv => AckedApprovalGrantsAccess
  BY DEF SafetyInv
<1> QED BY <1>1, SafetyInvariant, PTL

\* A confirmation is scheduled only after its access was committed.
THEOREM ConfirmationsFollowAccess == Spec => []ConfirmationNeedsAccess
<1>1. SafetyInv => ConfirmationNeedsAccess
  BY DEF SafetyInv
<1> QED BY <1>1, SafetyInvariant, PTL
-----------------------------------------------------------------------------
(***************************************************************************)
(* Commerce implements AccessLedger: the view of the tables and of the     *)
(* provider that ImplementsLedger takes makes a step of the ledger, or     *)
(* none, at every step of the program.                                     *)
(*                                                                         *)
(* Each lemma says what a group of steps does to the view.  What makes the *)
(* guards of the ledger true is SafetyInv: a located session works on the  *)
(* payment of its event's transaction, a session that answers an approval  *)
(* finds the enrollment there, and enrollments match their purchases.      *)
(***************************************************************************)

Granted == {p \in PurchaseIds : enrollments[p] # None}
Told    == {p \in PurchaseIds : confirmed[p] > 0}
TermsOf(p) == IF purchases[p] = None THEN None
              ELSE [user |-> purchases[p].user, course |-> purchases[p].course,
                    amount |-> purchases[p].amount]
AllTerms == [p \in PurchaseIds |-> TermsOf(p)]

\* The mapping of the instance, in the words of this module.
Step == \/ \E p \in PurchaseIds, t \in PurchaseTerms :
              /\ AllTerms[p] = None /\ AllTerms' = [AllTerms EXCEPT ![p] = t]
              /\ UNCHANGED <<ApprovedIn(issued), Granted, ApprovedIn(acked), Told>>
        \/ \E p \in PurchaseIds :
              /\ AllTerms[p] # None /\ ApprovedIn(issued)' = ApprovedIn(issued) \cup {p}
              /\ UNCHANGED <<AllTerms, Granted, ApprovedIn(acked), Told>>
        \/ \E p \in PurchaseIds :
              /\ p \in ApprovedIn(issued)
              /\ \A q \in Granted : ~(/\ AllTerms[p].user = AllTerms[q].user
                                      /\ AllTerms[p].course = AllTerms[q].course)
              /\ Granted' = Granted \cup {p}
              /\ UNCHANGED <<AllTerms, ApprovedIn(issued), ApprovedIn(acked), Told>>
        \/ \E p \in PurchaseIds :
              /\ p \in ApprovedIn(issued) \cap Granted
              /\ ApprovedIn(acked)' = ApprovedIn(acked) \cup {p}
              /\ UNCHANGED <<AllTerms, ApprovedIn(issued), Granted, Told>>
        \/ \E p \in PurchaseIds :
              /\ p \in Granted /\ Told' = Told \cup {p}
              /\ UNCHANGED <<AllTerms, ApprovedIn(issued), Granted, ApprovedIn(acked)>>

Stutter == UNCHANGED <<AllTerms, ApprovedIn(issued), Granted, ApprovedIn(acked), Told>>

LEMMA StepIsLedgerStep == Step => Ledger!Next
  BY DEF Step, Ledger!Next, Ledger!Open, Ledger!Approve, Ledger!Grant, Ledger!SameAccess,
         Ledger!Settle, Ledger!Tell, AllTerms, TermsOf, Granted, Told

LEMMA StutterIsLedgerStutter == Stutter => UNCHANGED Ledger!vars
  BY DEF Stutter, Ledger!vars, AllTerms, TermsOf, Granted, Told
-----------------------------------------------------------------------------
\* Payments keep their purchases, so the approvals are read as before.
PaymentsKept == /\ UNCHANGED txRef
                /\ \A t \in Transactions : txRef[t] # None =>
                      payments'[txRef[t]].purchase = payments[txRef[t]].purchase

LEMMA ApprovalsKept ==
    ASSUME PaymentsKept
    PROVE  /\ UNCHANGED issued => UNCHANGED ApprovedIn(issued)
           /\ UNCHANGED acked => UNCHANGED ApprovedIn(acked)
  BY DEF PaymentsKept, ApprovedIn, Approved

\* A change of a purchase's status leaves its terms alone.
TermsKept == \A p \in PurchaseIds :
    \/ purchases'[p] = purchases[p]
    \/ /\ purchases[p] # None /\ purchases'[p] # None
       /\ purchases'[p].user = purchases[p].user
       /\ purchases'[p].course = purchases[p].course
       /\ purchases'[p].amount = purchases[p].amount

LEMMA TermsKeptUnchanged == TermsKept => UNCHANGED AllTerms
  BY DEF TermsKept, AllTerms, TermsOf
-----------------------------------------------------------------------------
\* Checkout inserts at most one purchase, with complete terms.
LEMMA CheckoutOpensOne ==
    ASSUME TypeInv, CheckoutNext
    PROVE  \/ UNCHANGED purchases
           \/ \E p \in PurchaseIds, row \in PurchaseRow :
                 /\ purchases[p] = None /\ row # None
                 /\ purchases' = [purchases EXCEPT ![p] = row]
<1> USE NoneAssumption, NoRowAssumption DEF TypeInv
<1>1. ASSUME NEW q \in RequestSlots, InsertPurchase(q), ~Answer(q)
      PROVE  \E p \in PurchaseIds, row \in PurchaseRow :
                 /\ purchases[p] = None /\ row # None
                 /\ purchases' = [purchases EXCEPT ![p] = row]
  <2>1. PICK p \in PurchaseIds :
          /\ purchases[p] = None
          /\ purchases' = [purchases EXCEPT ![p] = NewPurchase(requests[q])]
    BY <1>1 DEF InsertPurchase
  <2>2. NewPurchase(requests[q]) \in PurchaseRow
    BY <1>1 DEF InsertPurchase, At, RequestsTyped, PurchasePc, NewPurchase, PurchaseRow,
           PurchaseStatus
  <2>3. NewPurchase(requests[q]) # None
    BY <2>2
  <2> QED BY <2>1, <2>2, <2>3
<1>2. ASSUME NEW q \in RequestSlots, Answer(q) PROVE UNCHANGED purchases
  BY <1>2 DEF Answer, Continue, tables
<1>3. ASSUME NEW q \in RequestSlots, InsertPayment(q) \/ DeleteCourse(q)
      PROVE  UNCHANGED purchases
  BY <1>2, <1>3 DEF InsertPayment, DeleteCourse
<1>4. ASSUME NEW q \in RequestSlots, StartRequest(q) \/ CheckAlreadyPurchased(q)
                                     \/ ReusePending(q) \/ ReusePayment(q)
      PROVE  UNCHANGED purchases
  BY <1>4 DEF StartRequest, ReadCourse, ReadPurchase, CountPurchases,
     CheckAlreadyPurchased, ReusePending, ReusePayment, Answer, Continue, tables
<1>5. ASSUME NEW c \in Courses, NEW status \in AdminStatuses, NEW price \in Prices,
             UpdateCourse(c, status, price)
      PROVE  UNCHANGED purchases
  BY <1>5 DEF UpdateCourse
<1> QED
  BY <1>1, <1>2, <1>3, <1>4, <1>5 DEF CheckoutNext, PurchaseStep, PaymentStep

LEMMA CheckoutImplements ==
    ASSUME TypeInv, SafetyInv, CheckoutNext
    PROVE  Step \/ Stutter
<1> USE NoneAssumption, NoRowAssumption
<1>1. CheckoutEffect
  BY CheckoutOnlyAdds
<1>2. PaymentsKept
  BY <1>1 DEF CheckoutEffect, PaymentsKept, provider, SafetyInv, TransactionsKnown,
              TypeInv, TypeOK
<1>3. UNCHANGED <<ApprovedIn(issued), Granted, ApprovedIn(acked), Told>>
  <2>1. UNCHANGED <<issued, acked, enrollments, confirmed>>
    BY <1>1 DEF CheckoutEffect, provider, mail
  <2> QED BY <2>1, <1>2, ApprovalsKept DEF Granted, Told
<1>4. CASE UNCHANGED purchases
  BY <1>3, <1>4 DEF Stutter, AllTerms, TermsOf
<1>5. ASSUME NEW p \in PurchaseIds, NEW row \in PurchaseRow,
             purchases[p] = None, row # None,
             purchases' = [purchases EXCEPT ![p] = row]
      PROVE  Step
  <2> DEFINE t == [user |-> row.user, course |-> row.course, amount |-> row.amount]
  <2>1. t \in PurchaseTerms
    BY DEF PurchaseTerms, PurchaseRow
  <2>2. AllTerms[p] = None
    BY <1>5 DEF AllTerms, TermsOf
  <2>3. AllTerms' = [AllTerms EXCEPT ![p] = t]
    BY <1>5 DEF AllTerms, TermsOf, TypeInv, TypeOK
  <2> QED BY <2>1, <2>2, <2>3, <1>3 DEF Step
<1> QED BY <1>4, <1>5, CheckoutOpensOne
-----------------------------------------------------------------------------
(* Settlement *)

LEMMA CommitKeepsView ==
    ASSUME TypeInv, SafetyInv, NEW h \in WebhookSlots, CommitEffect(h)
    PROVE  UNCHANGED <<ApprovedIn(issued), ApprovedIn(acked), Told>>
<1>1. UNCHANGED <<acked, txRef, issued, outbox, confirmed>>
  BY DEF CommitEffect, mail
<1>2. PaymentsKept
  BY <1>1, CommitKeepsPayments, NoneAssumption
     DEF PaymentsKept, SafetyInv, TransactionsKnown, TypeInv, TypeOK
<1> QED BY <1>1, <1>2, ApprovalsKept DEF Told

LEMMA SettlePaidImplements ==
    ASSUME TypeInv, SafetyInv, NEW h \in WebhookSlots, SettlePaid(h)
    PROVE  Step \/ Stutter
<1> USE NoneAssumption, NoRowAssumption
<1> DEFINE s == webhooks[h]
           p == s.purchase
<1>1. s.pc = "locked" /\ s.pc \in Located
  BY DEF SettlePaid, WebhookAt, Located
<1>2. /\ s.event \in issued /\ s.event \in Event /\ s.event.status = "APPROVED"
      /\ p \in PurchaseIds /\ purchases[p] \in PurchaseRow /\ purchases[p] # None
      /\ s.ref \in References /\ s.ref = txRef[s.event.tx]
      /\ payments[s.ref].purchase = p
      /\ webhooks \in [WebhookSlots -> WebhookSession]
  BY <1>1, LocatedRows
     DEF TypeInv, TypeOK, WebhooksTyped, RowsExist, SafetyInv, WebhooksKnow, Knows,
         SettlePaid, Approving
<1>3. CommitEffect(h)
  BY <1>1, <1>2 DEF CommitEffect, SettlePaid, settlementRest, WebhookSession
<1>4. UNCHANGED <<ApprovedIn(issued), ApprovedIn(acked), Told>>
  BY <1>3, CommitKeepsView
<1>5. TermsKept
  <2>1. PICK status \in PurchaseStatus :
          purchases' = [purchases EXCEPT ![p] = [purchases[p] EXCEPT !.status = status]]
    BY <1>2 DEF SettlePaid, Flushed, PurchaseRow, PurchaseStatus
  <2>2. [purchases[p] EXCEPT !.status = status] \in PurchaseRow
    BY <1>2, <2>1 DEF PurchaseRow
  <2> QED BY <1>2, <2>1, <2>2 DEF TermsKept, TypeInv, TypeOK, PurchaseRow
<1>6. p \in ApprovedIn(issued)
  <2>1. Approved(s.event.tx) = s.event /\ s.event.tx \in Transactions
    BY <1>2 DEF Event, Approved
  <2>2. txRef[s.event.tx] # None /\ payments[txRef[s.event.tx]].purchase = p
    BY <1>2
  <2> QED BY <1>2, <2>1, <2>2 DEF ApprovedIn
<1>7. Granted' = Granted \cup {p}
  <2>1. [user |-> purchases[p].user, course |-> purchases[p].course,
         status |-> "ACTIVE"] \in EnrollmentRow
    BY <1>2 DEF PurchaseRow, EnrollmentRow, EnrollmentStatus
  <2>2. ActivatedEnrollment(p) # None
    BY <2>1 DEF ActivatedEnrollment
  <2>3. enrollments' = [enrollments EXCEPT ![p] = ActivatedEnrollment(p)]
    BY DEF SettlePaid
  <2> QED BY <1>2, <2>2, <2>3 DEF Granted, TypeInv, TypeOK
<1>8. CASE p \in Granted
  BY <1>4, <1>5, <1>7, <1>8, TermsKeptUnchanged DEF Stutter
<1>9. CASE p \notin Granted
  <2>1. ASSUME NEW q \in Granted
        PROVE  ~(/\ AllTerms[p].user = AllTerms[q].user
                 /\ AllTerms[p].course = AllTerms[q].course)
    <3>1. /\ purchases[q] # None
          /\ enrollments[q] = [user |-> purchases[q].user, course |-> purchases[q].course,
                               status |-> "ACTIVE"]
      BY DEF Granted, SafetyInv, EnrollmentsMatch
    <3>2. ~HasActiveEnrollment(purchases[p].user, purchases[p].course)
      BY <1>9, <1>2 DEF SettlePaid, EnrollmentConflicts, Granted
    <3> QED BY <3>1, <3>2, <1>2 DEF HasActiveEnrollment, AllTerms, TermsOf, Granted
  <2> QED BY <2>1, <1>2, <1>4, <1>5, <1>6, <1>7, TermsKeptUnchanged DEF Step
<1> QED BY <1>8, <1>9

\* The other commits of a webhook record the event and touch nothing of the view.
LEMMA RecordImplements ==
    ASSUME TypeInv, SafetyInv, NEW h \in WebhookSlots, RecordFailed(h) \/ RecordOther(h)
    PROVE  Stutter
<1> USE NoneAssumption, NoRowAssumption
<1> DEFINE s == webhooks[h]
           p == s.purchase
<1>1. s.pc = "locked" /\ s.pc \in Located
  BY DEF RecordFailed, RecordOther, WebhookAt, Located
<1>2. /\ s \in WebhookSession /\ webhooks \in [WebhookSlots -> WebhookSession]
      /\ p \in PurchaseIds /\ purchases[p] \in PurchaseRow /\ purchases[p] # None
      /\ purchases \in [PurchaseIds -> PurchaseRow \cup {None}]
  BY <1>1, LocatedRows DEF TypeInv, TypeOK
<1>3. CommitEffect(h) /\ enrollments' = enrollments
  BY <1>1, <1>2 DEF CommitEffect, RecordFailed, RecordOther, settlementRest, WebhookSession
<1>4. UNCHANGED <<ApprovedIn(issued), ApprovedIn(acked), Told>>
  BY <1>3, CommitKeepsView
<1>5. TermsKept
  <2>1. [purchases[p] EXCEPT !.status = "FAILED"] \in PurchaseRow
    BY <1>2 DEF PurchaseRow, PurchaseStatus
  <2>2. \/ purchases' = [purchases EXCEPT ![p] = [purchases[p] EXCEPT !.status = "FAILED"]]
        \/ purchases' = purchases
    BY <1>2 DEF RecordFailed, RecordOther
  <2> QED BY <1>2, <2>1, <2>2 DEF TermsKept, PurchaseRow
<1> QED BY <1>3, <1>4, <1>5, TermsKeptUnchanged DEF Stutter, Granted

\* A step that writes no row and no answer leaves the whole view alone.
LEMMA QuietStep ==
    UNCHANGED <<purchases, payments, enrollments, txRef, issued, acked, confirmed>> => Stutter
  BY DEF Stutter, AllTerms, TermsOf, ApprovedIn, Approved, Granted, Told

LEMMA RespondImplements ==
    ASSUME TypeInv, SafetyInv, NEW h \in WebhookSlots, Respond(h)
    PROVE  Step \/ Stutter
<1> USE NoneAssumption
<1> DEFINE e == webhooks[h].event
<1>1. /\ e \in issued /\ e \in Event /\ webhooks[h].pc = "respond" /\ Knows(h)
      /\ acked' = acked \cup {e}
      /\ UNCHANGED <<purchases, payments, enrollments, txRef, issued, confirmed>>
  BY DEF Respond, WebhookAt, TypeInv, TypeOK, WebhooksTyped, SafetyInv, WebhooksKnow, tables
<1>2. UNCHANGED <<AllTerms, ApprovedIn(issued), Granted, Told>>
  BY <1>1 DEF AllTerms, TermsOf, ApprovedIn, Approved, Granted, Told
<1>3. CASE e.status = "APPROVED" /\ txRef[e.tx] # None
  <2> DEFINE p == payments[txRef[e.tx]].purchase
  <2>1. e = Approved(e.tx) /\ e.tx \in Transactions
    BY <1>1, <1>3 DEF Approved, Event
  <2>2. p \in PurchaseIds
    BY <1>3, <2>1, NoRowAssumption DEF SafetyInv, TransactionsKnown, TypeInv, TypeOK, PaymentRow
  <2>3. p \in ApprovedIn(issued)
    BY <1>1, <1>3, <2>1, <2>2 DEF ApprovedIn
  <2>4. p \in Granted
    BY <1>1, <1>3, <2>2 DEF Knows, Granted
  <2>5. \A t \in Transactions : Approved(t) = e => t = e.tx
    BY DEF Approved
  <2>6. ApprovedIn(acked)' = ApprovedIn(acked) \cup {p}
    BY <1>1, <1>3, <2>1, <2>2, <2>5 DEF ApprovedIn, Approved
  <2> QED BY <1>2, <2>2, <2>3, <2>4, <2>6 DEF Step
<1>4. CASE ~(e.status = "APPROVED" /\ txRef[e.tx] # None)
  <2>1. \A t \in Transactions : Approved(t) = e => txRef[t] = None
    BY <1>4 DEF Approved
  <2>2. UNCHANGED ApprovedIn(acked)
    BY <1>1, <2>1 DEF ApprovedIn, Approved
  <2> QED BY <1>2, <2>2 DEF Stutter
<1> QED BY <1>3, <1>4

LEMMA SettlementImplements ==
    ASSUME TypeInv, SafetyInv, WebhookNext
    PROVE  Step \/ Stutter
<1>1. ASSUME NEW h \in WebhookSlots,
             Lookup(h) \/ LockPurchase(h) \/ AlreadyProcessed(h) \/ SettleConflict(h)
      PROVE  UNCHANGED <<purchases, payments, enrollments, txRef, issued, acked, confirmed>>
  BY <1>1 DEF Lookup, LockPurchase, AlreadyProcessed, SettleConflict, ContinueWebhook,
              settlementRest, mail
<1> QED
  BY <1>1, QuietStep, SettlePaidImplements, RecordImplements, RespondImplements
     DEF WebhookNext, WebhookStep
-----------------------------------------------------------------------------
(* The provider, the background tasks and the crash *)

\* A new event of a transaction approves its purchase, or says nothing new.
LEMMA IssueImplements ==
    ASSUME TypeInv, SafetyInv, NEW t \in Transactions, NEW status \in ProviderStatuses,
           \/ \E r \in References : PayAtCheckout(t, r, status)
           \/ PayElsewhere(t, status)
           \/ UpdateTransaction(t, status)
    PROVE  Step \/ Stutter
<1> USE NoneAssumption, NoRowAssumption
<1> DEFINE e == [tx |-> t, status |-> status]
           r == txRef'[t]
           p == payments[r].purchase
<1>1. /\ issued' = issued \cup {e}
      /\ UNCHANGED <<purchases, payments, enrollments, acked, confirmed>>
  BY DEF PayAtCheckout, PayElsewhere, UpdateTransaction, providerRest, tables, mail
<1>2. /\ \A u \in Transactions \ {t} : txRef'[u] = txRef[u]
      /\ txRef'[t] # txRef[t] => StatusesOf(t) = {}
      /\ txRef'[t] = None \/ (txRef'[t] \in References /\ payments[txRef'[t]] # None)
  <2>1. txRef \in [Transactions -> References \cup {None}]
    BY DEF TypeInv, TypeOK
  <2>2. CASE UNCHANGED txRef
    BY <2>1, <2>2 DEF SafetyInv, TransactionsKnown
  <2>3. CASE \E s \in References : PayAtCheckout(t, s, status)
    BY <2>1, <2>3 DEF PayAtCheckout
  <2> QED BY <2>2, <2>3 DEF PayElsewhere, UpdateTransaction
<1>3. \A u \in Transactions : Approved(u) \in issued => txRef'[u] = txRef[u]
  BY <1>2 DEF StatusesOf, Approved
<1>4. acked \subseteq issued
  BY DEF TypeInv, TypeOK
<1>5. UNCHANGED <<AllTerms, Granted, ApprovedIn(acked), Told>>
  BY <1>1, <1>3, <1>4 DEF AllTerms, TermsOf, Granted, Told, ApprovedIn, Approved
<1>6. \A u \in Transactions : Approved(u) = e <=> (u = t /\ status = "APPROVED")
  BY DEF Approved
<1>7. CASE status = "APPROVED" /\ r # None
  <2>1. p \in PurchaseIds /\ purchases[p] # None
    BY <1>2, <1>7 DEF TypeInv, TypeOK, PaymentRow, RowsExist
  <2>2. AllTerms[p] # None
    <3>1. purchases[p] \in PurchaseRow
      BY <2>1 DEF TypeInv, TypeOK
    <3>2. [user |-> purchases[p].user, course |-> purchases[p].course,
           amount |-> purchases[p].amount] \in PurchaseTerms
      BY <3>1 DEF PurchaseRow, PurchaseTerms
    <3> QED BY <2>1, <3>2 DEF AllTerms, TermsOf
  <2>3. ApprovedIn(issued)' = ApprovedIn(issued) \cup {p}
    <3>1. \A q \in PurchaseIds : q \in ApprovedIn(issued)' <=> q \in ApprovedIn(issued) \/ q = p
      BY <1>1, <1>3, <1>6, <1>7, <2>1 DEF ApprovedIn, Approved
    <3> QED BY <3>1, <2>1 DEF ApprovedIn
  <2> QED BY <1>5, <2>1, <2>2, <2>3 DEF Step
<1>8. CASE ~(status = "APPROVED" /\ r # None)
  <2>1. \A q \in PurchaseIds : q \in ApprovedIn(issued)' <=> q \in ApprovedIn(issued)
    BY <1>1, <1>3, <1>6, <1>8 DEF ApprovedIn, Approved
  <2>2. UNCHANGED ApprovedIn(issued)
    BY <2>1 DEF ApprovedIn
  <2> QED BY <1>5, <2>2 DEF Stutter
<1> QED BY <1>7, <1>8

LEMMA ProviderImplements ==
    ASSUME TypeInv, SafetyInv, ProviderNext
    PROVE  Step \/ Stutter
<1>1. ASSUME NEW h \in WebhookSlots, NEW e \in issued, Deliver(h, e) PROVE Stutter
  BY <1>1, QuietStep DEF Deliver, tables, mail
<1> QED BY <1>1, IssueImplements DEF ProviderNext

\* A confirmation that runs was scheduled for committed access.
LEMMA ConfirmationImplements ==
    ASSUME TypeInv, SafetyInv, NEW p \in PurchaseIds, RunConfirmation(p)
    PROVE  Step
<1>1. /\ outbox[p] > 0 /\ confirmed' = [confirmed EXCEPT ![p] = @ + 1]
      /\ UNCHANGED <<purchases, payments, enrollments, txRef, issued, acked>>
  BY DEF RunConfirmation, tables, provider
<1>2. outbox \in [PurchaseIds -> Nat] /\ confirmed \in [PurchaseIds -> Nat]
  BY DEF TypeInv, TypeOK
<1>3. p \in Granted
  BY <1>1, <1>2 DEF SafetyInv, ConfirmationNeedsAccess, Granted
<1>4. Told' = Told \cup {p}
  BY <1>1, <1>2 DEF Told
<1>5. UNCHANGED <<AllTerms, ApprovedIn(issued), Granted, ApprovedIn(acked)>>
  BY <1>1 DEF AllTerms, TermsOf, ApprovedIn, Approved, Granted
<1> QED BY <1>3, <1>4, <1>5 DEF Step

LEMMA CrashImplements == Crash => Stutter
  BY QuietStep DEF Crash, tables, provider

LEMMA InitImplements == Init => Ledger!Init
  BY DEF Init, Ledger!Init, ApprovedIn
-----------------------------------------------------------------------------
\* Commerce implements the ledger: whatever the requests, deliveries, repeats
\* and crashes of checkout and settlement, terms are frozen at the purchase,
\* access follows approved money, once and for good, and is there before the
\* approval is answered 200 or the student is told.
THEOREM LedgerRefinement == Spec => ImplementsLedger
<1>1. TypeInv /\ SafetyInv /\ Next => Step \/ Stutter
  BY CheckoutImplements, SettlementImplements, ProviderImplements,
     ConfirmationImplements, CrashImplements DEF Next
<1>2. UNCHANGED vars => Stutter
  BY QuietStep DEF vars, tables, provider, mail
<1>3. TypeInv /\ SafetyInv /\ [Next]_vars => [Ledger!Next]_(Ledger!vars)
  BY <1>1, <1>2, StepIsLedgerStep, StutterIsLedgerStutter
<1> QED
  BY <1>3, InitImplements, SafetyInvariant, TypeInvariant, PTL
     DEF Spec, ImplementsLedger, Ledger!Spec
-----------------------------------------------------------------------------
(***************************************************************************)
(* One delivery at a time.  A webhook decides on the status it read before *)
(* it had the lock; with no other delivery in between, that status is      *)
(* still the purchase's own.  Only then is a purchase settled once, and    *)
(* its access and its confirmation follow its status.                      *)
(***************************************************************************)

OneDelivery == \A g, h \in WebhookSlots : g = h

Paid(p) == purchases[p] # None /\ purchases[p].status = "PAID"

SeenIsCurrent == \A h \in WebhookSlots : webhooks[h].pc \in Located =>
    webhooks[h].purchaseSeen = purchases[webhooks[h].purchase].status

ConfirmedOnce(p) ==
    /\ outbox[p] + confirmed[p] <= 1
    /\ outbox[p] + confirmed[p] > 0 => Paid(p)
    /\ \A h \in WebhookSlots : webhooks[h].confirm /\ webhooks[h].purchase = p =>
           Paid(p) /\ outbox[p] + confirmed[p] = 0

SerialInv == /\ SeenIsCurrent
             /\ \A p \in PurchaseIds : enrollments[p] # None => Paid(p)
             /\ \A p \in PurchaseIds : ConfirmedOnce(p)

LEMMA InitSerial == Init => SerialInv
  BY DEF Init, SerialInv, SeenIsCurrent, ConfirmedOnce, IdleWebhook, Located

LEMMA CheckoutSerial ==
    ASSUME TypeInv, SerialInv, CheckoutNext PROVE SerialInv'
<1>1. CheckoutEffect
  BY CheckoutOnlyAdds
<1>2. \A p \in PurchaseIds : purchases[p] # None => purchases'[p] = purchases[p]
  BY <1>1 DEF CheckoutEffect
<1>3. \A h \in WebhookSlots : webhooks[h].pc \in Located =>
          purchases'[webhooks[h].purchase] = purchases[webhooks[h].purchase]
  BY <1>2, LocatedRows, NoRowAssumption
<1>4. SeenIsCurrent'
  BY <1>1, <1>3 DEF SerialInv, SeenIsCurrent, CheckoutEffect
<1>5. \A p \in PurchaseIds : Paid(p) => Paid(p)'
  BY <1>2 DEF Paid
<1>. QED
  BY <1>1, <1>4, <1>5 DEF SerialInv, ConfirmedOnce, CheckoutEffect, mail

\* The session of a delivery changes, and no row or mail does.
LEMMA SessionSerial ==
    ASSUME OneDelivery, TypeInv, SerialInv, NEW h \in WebhookSlots, NEW session,
           webhooks' = [webhooks EXCEPT ![h] = session],
           UNCHANGED <<purchases, enrollments, mail>>,
           session.pc \in Located =>
               session.purchaseSeen = purchases[session.purchase].status,
           session.confirm = FALSE
    PROVE  SerialInv'
<1>1. \A g \in WebhookSlots : webhooks'[g] = session
  BY DEF OneDelivery, TypeInv, TypeOK
<1>. QED
  BY <1>1 DEF SerialInv, SeenIsCurrent, ConfirmedOnce, Paid, mail

LEMMA LookupSerial ==
    ASSUME OneDelivery, TypeInv, SafetyInv, SerialInv, NEW h \in WebhookSlots,
           Lookup(h) \/ LockPurchase(h) \/ AlreadyProcessed(h) \/ SettleConflict(h)
    PROVE  SerialInv'
<1>. DEFINE s == webhooks[h]
<1>1. s \in WebhookSession /\ s.pc # "respond" /\ s.confirm = FALSE
  BY DEF Lookup, LockPurchase, AlreadyProcessed, SettleConflict, WebhookAt, TypeInv, TypeOK,
         WebhookSession, SafetyInv, WebhooksKnow, Knows
<1>2. UNCHANGED <<purchases, enrollments, mail>>
  BY DEF Lookup, LockPurchase, AlreadyProcessed, SettleConflict, ContinueWebhook, settlementRest
<1>3. CASE LockPurchase(h)
  <2>1. webhooks' = [webhooks EXCEPT ![h] = [s EXCEPT !.pc = "locked"]]
        /\ s.pc \in Located
    BY <1>3 DEF LockPurchase, ContinueWebhook, WebhookAt, Located
  <2>2. s.purchaseSeen = purchases[s.purchase].status
    BY <2>1 DEF SerialInv, SeenIsCurrent
  <2>. DEFINE session == [s EXCEPT !.pc = "locked"]
  <2>3. session.purchaseSeen = purchases[session.purchase].status /\ session.confirm = FALSE
    BY <1>1, <2>2 DEF WebhookSession
  <2>4. webhooks' = [webhooks EXCEPT ![h] = session]
    BY <2>1
  <2>. HIDE DEF session
  <2>. QED
    BY <1>2, <2>3, <2>4, SessionSerial
<1>4. CASE AlreadyProcessed(h) \/ SettleConflict(h) \/ ContinueWebhook(h, [s EXCEPT !.pc = "respond"])
  <2>1. PICK session \in {[s EXCEPT !.pc = "respond"], IdleWebhook} :
            webhooks' = [webhooks EXCEPT ![h] = session]
    BY <1>4 DEF AlreadyProcessed, SettleConflict, ContinueWebhook
  <2>2. session.pc \notin Located /\ session.confirm = FALSE
    BY <1>1 DEF WebhookSession, IdleWebhook, Located
  <2>. QED
    BY <1>2, <2>1, <2>2, SessionSerial
<1>5. CASE Lookup(h) /\ ~ContinueWebhook(h, [s EXCEPT !.pc = "respond"])
  <2>1. PICK r \in PaymentsOfTransaction(s.event.tx) :
          ContinueWebhook(h,
            [s EXCEPT !.pc = "lock", !.ref = r, !.purchase = payments[r].purchase,
                      !.purchaseSeen = purchases[payments[r].purchase].status,
                      !.statusSeen = payments[r].status, !.txSeen = payments[r].tx])
    BY <1>5 DEF Lookup
  <2>. DEFINE session ==
            [s EXCEPT !.pc = "lock", !.ref = r, !.purchase = payments[r].purchase,
                      !.purchaseSeen = purchases[payments[r].purchase].status,
                      !.statusSeen = payments[r].status, !.txSeen = payments[r].tx]
  <2>2. session.purchaseSeen = purchases[session.purchase].status /\ session.confirm = FALSE
    BY <1>1 DEF WebhookSession
  <2>3. webhooks' = [webhooks EXCEPT ![h] = session]
    BY <2>1 DEF ContinueWebhook
  <2>. HIDE DEF session
  <2>. QED
    BY <1>2, <2>2, <2>3, SessionSerial
<1>. QED
  BY <1>3, <1>4, <1>5

\* What a commit does to its purchase, seen as it is.
LEMMA CommitSerial ==
    ASSUME OneDelivery, TypeInv, SafetyInv, SerialInv, NEW h \in WebhookSlots,
           SettlePaid(h) \/ RecordFailed(h) \/ RecordOther(h)
    PROVE  /\ SerialInv'
           /\ \A p \in PurchaseIds : Paid(p) => purchases'[p] = purchases[p]
<1>. DEFINE s == webhooks[h]
<1>0. PICK p \in PurchaseIds : p = s.purchase
  BY LocatedRows DEF SettlePaid, RecordFailed, RecordOther, WebhookAt, Located
<1>1. /\ s \in WebhookSession /\ p = s.purchase /\ purchases[p] \in PurchaseRow
      /\ purchases[p] # None /\ s.purchaseSeen = purchases[p].status
      /\ s.purchaseSeen # "PAID" /\ s.confirm = FALSE
  <2>1. s.pc = "locked" /\ s.pc \in Located /\ s.purchaseSeen # "PAID"
    BY DEF SettlePaid, RecordFailed, RecordOther, WebhookAt, Located, AlreadySettled
  <2>. QED
    BY <1>0, <2>1, LocatedRows, NoRowAssumption
       DEF SerialInv, SeenIsCurrent, SafetyInv, WebhooksKnow, Knows, WebhookSession
<1>2. ~Paid(p) /\ enrollments[p] = None /\ outbox[p] + confirmed[p] = 0
  <2>1. ~Paid(p)
    BY <1>1 DEF Paid
  <2>2. outbox[p] \in Nat /\ confirmed[p] \in Nat
    BY DEF TypeInv, TypeOK
  <2>3. ~(outbox[p] + confirmed[p] > 0)
    BY <2>1 DEF SerialInv, ConfirmedOnce
  <2>. QED
    BY <2>1, <2>2, <2>3 DEF SerialInv
<1>3. UNCHANGED mail
  BY DEF SettlePaid, RecordFailed, RecordOther, settlementRest
<1>4. CASE SettlePaid(h)
  <2>. DEFINE row == [purchases[p] EXCEPT !.status = "PAID"]
              session == [s EXCEPT !.pc = "respond", !.confirm = TRUE]
  <2>1. /\ purchases' = [purchases EXCEPT ![p] = row]
        /\ enrollments' = [enrollments EXCEPT ![p] = ActivatedEnrollment(p)]
        /\ webhooks' = [webhooks EXCEPT ![h] = session]
    BY <1>1, <1>4 DEF SettlePaid, Flushed
  <2>2. row.status = "PAID" /\ row \in PurchaseRow
    BY <1>1 DEF PurchaseRow, PurchaseStatus
  <2>3. session.pc = "respond" /\ session.purchase = p
    BY <1>1 DEF WebhookSession
  <2>. HIDE DEF row, session
  <2>4. \A o \in PurchaseIds : purchases'[o] = IF o = p THEN row ELSE purchases[o]
    BY <2>1 DEF TypeInv, TypeOK
  <2>5. \A o \in PurchaseIds : enrollments'[o] = IF o = p THEN ActivatedEnrollment(p)
                                                          ELSE enrollments[o]
    BY <2>1 DEF TypeInv, TypeOK
  <2>6. \A g \in WebhookSlots : webhooks'[g] = session
    BY <2>1 DEF OneDelivery, TypeInv, TypeOK
  <2>7. Paid(p)' /\ \A o \in PurchaseIds : Paid(o) => Paid(o)'
    BY <1>1, <2>2, <2>4, NoRowAssumption DEF Paid
  <2>8. SeenIsCurrent'
    BY <2>3, <2>6 DEF SeenIsCurrent, Located
  <2>9. \A o \in PurchaseIds : enrollments'[o] # None => Paid(o)'
    BY <2>5, <2>7 DEF SerialInv
  <2>10. \A o \in PurchaseIds : ConfirmedOnce(o)'
    BY <1>2, <1>3, <2>3, <2>6, <2>7 DEF SerialInv, ConfirmedOnce, mail
  <2>11. \A o \in PurchaseIds : Paid(o) => purchases'[o] = purchases[o]
    BY <1>2, <2>4
  <2>. QED
    BY <2>8, <2>9, <2>10, <2>11 DEF SerialInv
<1>5. CASE RecordFailed(h) \/ RecordOther(h)
  <2>. DEFINE session == [s EXCEPT !.pc = "respond"]
  <2>1. UNCHANGED enrollments /\ webhooks' = [webhooks EXCEPT ![h] = session]
    BY <1>1, <1>5 DEF RecordFailed, RecordOther
  <2>2. session.pc = "respond" /\ session.confirm = FALSE
    BY <1>1 DEF WebhookSession
  <2>3. \A o \in PurchaseIds \ {p} : purchases'[o] = purchases[o]
    BY <1>1, <1>5 DEF RecordFailed, RecordOther, TypeInv, TypeOK
  <2>. HIDE DEF session
  <2>4. \A g \in WebhookSlots : webhooks'[g] = session
    BY <2>1 DEF OneDelivery, TypeInv, TypeOK
  <2>5. \A o \in PurchaseIds : Paid(o) => purchases'[o] = purchases[o]
    BY <1>2, <2>3
  <2>6. SeenIsCurrent'
    BY <2>2, <2>4 DEF SeenIsCurrent, Located
  <2>7. \A o \in PurchaseIds : ConfirmedOnce(o)'
    BY <1>3, <2>2, <2>4, <2>5 DEF SerialInv, ConfirmedOnce, Paid, mail
  <2>. QED
    BY <2>1, <2>5, <2>6, <2>7 DEF SerialInv, Paid
<1>. QED
  BY <1>4, <1>5

LEMMA RespondSerial ==
    ASSUME OneDelivery, TypeInv, SafetyInv, SerialInv, NEW h \in WebhookSlots, Respond(h)
    PROVE  SerialInv'
<1>. DEFINE s == webhooks[h]
<1>1. /\ webhooks' = [webhooks EXCEPT ![h] = IdleWebhook]
      /\ UNCHANGED <<purchases, enrollments, confirmed>>
      /\ outbox' = IF s.confirm THEN [outbox EXCEPT ![s.purchase] = @ + 1] ELSE outbox
  BY DEF Respond, tables
<1>2. \A g \in WebhookSlots : webhooks'[g] = IdleWebhook
  BY <1>1 DEF OneDelivery, TypeInv, TypeOK
<1>3. IdleWebhook.pc = "idle" /\ IdleWebhook.confirm = FALSE
  BY DEF IdleWebhook
<1>4. \A p \in PurchaseIds : outbox[p] \in Nat /\ confirmed[p] \in Nat
  BY DEF TypeInv, TypeOK
<1>5. ASSUME NEW p \in PurchaseIds PROVE ConfirmedOnce(p)'
  <2>1. CASE s.confirm /\ s.purchase = p
    <3>1. Paid(p) /\ outbox[p] + confirmed[p] = 0
      BY <2>1 DEF SerialInv, ConfirmedOnce
    <3>2. outbox'[p] = outbox[p] + 1
      BY <1>1, <2>1 DEF TypeInv, TypeOK
    <3>. QED
      BY <1>1, <1>2, <1>3, <1>4, <3>1, <3>2 DEF ConfirmedOnce, Paid
  <2>2. CASE ~(s.confirm /\ s.purchase = p)
    <3>1. outbox'[p] = outbox[p]
      BY <1>1, <2>2 DEF TypeInv, TypeOK
    <3>. QED
      BY <1>1, <1>2, <1>3, <3>1 DEF SerialInv, ConfirmedOnce, Paid
  <2>. QED
    BY <2>1, <2>2
<1>. QED
  BY <1>1, <1>2, <1>3, <1>5 DEF SerialInv, SeenIsCurrent, Located, Paid

LEMMA ProviderSerial ==
    ASSUME OneDelivery, TypeInv, SerialInv, ProviderNext PROVE SerialInv'
<1>1. ASSUME NEW h \in WebhookSlots, NEW e \in issued, Deliver(h, e) PROVE SerialInv'
  <2>. DEFINE session == [IdleWebhook EXCEPT !.pc = "lookup", !.event = e]
  <2>1. /\ webhooks' = [webhooks EXCEPT ![h] = session]
        /\ UNCHANGED <<purchases, enrollments, mail>>
    BY <1>1 DEF Deliver, tables
  <2>2. session.pc = "lookup" /\ session.confirm = FALSE
    BY DEF IdleWebhook
  <2>. HIDE DEF session
  <2>. QED
    BY <2>1, <2>2, SessionSerial DEF Located
<1>2. CASE UNCHANGED <<purchases, enrollments, webhooks, mail>>
  BY <1>2 DEF SerialInv, SeenIsCurrent, ConfirmedOnce, Paid, mail
<1>. QED
  BY <1>1, <1>2 DEF ProviderNext, PayAtCheckout, PayElsewhere, UpdateTransaction, providerRest,
                    tables

LEMMA ProcessSerial ==
    ASSUME TypeInv, SerialInv, Crash \/ \E p \in PurchaseIds : RunConfirmation(p)
    PROVE  SerialInv'
<1>. USE DEF SerialInv, SeenIsCurrent, ConfirmedOnce, Paid
<1>1. UNCHANGED <<purchases, enrollments>>
  BY DEF Crash, RunConfirmation, tables
<1>2. \A p \in PurchaseIds : outbox[p] \in Nat /\ confirmed[p] \in Nat
  BY DEF TypeInv, TypeOK
<1>3. CASE Crash
  <2>1. \A h \in WebhookSlots : webhooks'[h].pc = "idle" /\ webhooks'[h].confirm = FALSE
    BY <1>3 DEF Crash, IdleWebhook
  <2>2. \A p \in PurchaseIds : outbox'[p] = 0 /\ confirmed'[p] = confirmed[p]
    BY <1>3 DEF Crash
  <2>. QED
    BY <1>1, <1>2, <2>1, <2>2 DEF Located
<1>4. CASE \E p \in PurchaseIds : RunConfirmation(p)
  <2>1. UNCHANGED webhooks /\ \A p \in PurchaseIds :
            outbox'[p] + confirmed'[p] = outbox[p] + confirmed[p]
    BY <1>2, <1>4 DEF RunConfirmation, TypeInv, TypeOK
  <2>. QED
    BY <1>1, <2>1
<1>. QED
  BY <1>3, <1>4

LEMMA StepSerial ==
    ASSUME OneDelivery, TypeInv, SafetyInv, SerialInv, [Next]_vars
    PROVE  SerialInv' /\ \A p \in PurchaseIds : Paid(p) => purchases'[p] = purchases[p]
<1>1. CASE CheckoutNext
  BY <1>1, CheckoutSerial, CheckoutOnlyAdds DEF CheckoutEffect, Paid
<1>2. ASSUME NEW h \in WebhookSlots, WebhookStep(h)
      PROVE  SerialInv' /\ \A p \in PurchaseIds : Paid(p) => purchases'[p] = purchases[p]
  <2>1. CASE SettlePaid(h) \/ RecordFailed(h) \/ RecordOther(h)
    BY <2>1, CommitSerial
  <2>2. CASE Respond(h)
    BY <2>2, RespondSerial DEF Respond, tables
  <2>3. CASE Lookup(h) \/ LockPurchase(h) \/ AlreadyProcessed(h) \/ SettleConflict(h)
    <3>1. UNCHANGED purchases
      BY <2>3 DEF Lookup, LockPurchase, AlreadyProcessed, SettleConflict, ContinueWebhook
    <3>. QED
      BY <2>3, <3>1, LookupSerial
  <2>. QED
    BY <1>2, <2>1, <2>2, <2>3 DEF WebhookStep
<1>3. CASE ProviderNext \/ Crash \/ \E p \in PurchaseIds : RunConfirmation(p)
  <2>1. UNCHANGED purchases
    BY <1>3 DEF ProviderNext, PayAtCheckout, PayElsewhere, UpdateTransaction, Deliver,
                providerRest, Crash, RunConfirmation, tables
  <2>. QED
    BY <1>3, <2>1, ProviderSerial, ProcessSerial
<1>4. CASE UNCHANGED vars
  BY <1>4 DEF SerialInv, SeenIsCurrent, ConfirmedOnce, Paid, vars, tables, mail
<1>. QED
  BY <1>1, <1>2, <1>3, <1>4 DEF Next, WebhookNext

LEMMA SerialInvariant == ASSUME OneDelivery PROVE Spec => []SerialInv
<1>1. TypeInv /\ SafetyInv /\ SerialInv /\ [Next]_vars => SerialInv'
  BY StepSerial
<1>. QED
  BY <1>1, InitSerial, TypeInvariant, SafetyInvariant, PTL DEF Spec

\* Rule 2, with one delivery at a time: who has access has a PAID purchase.
THEOREM AccessIsForPaidPurchases == ASSUME OneDelivery PROVE Spec => []AccessNeedsPaid
<1>1. SerialInv => AccessNeedsPaid
  BY DEF SerialInv, Paid, AccessNeedsPaid
<1>. QED
  BY <1>1, SerialInvariant, PTL

\* Rule 7, with one delivery at a time: redeliveries and crashes never make the
\* program confirm a purchase twice.
THEOREM ConfirmationsAreUnique == ASSUME OneDelivery PROVE Spec => []ConfirmedAtMostOnce
<1>1. ASSUME TypeInv, SerialInv PROVE ConfirmedAtMostOnce
  BY <1>1 DEF SerialInv, ConfirmedOnce, ConfirmedAtMostOnce, TypeInv, TypeOK
<1>. QED
  BY <1>1, SerialInvariant, TypeInvariant, PTL

\* With one delivery at a time, no event undoes a settled purchase.
THEOREM PaymentIsFinal == ASSUME OneDelivery PROVE Spec => PaidIsFinal
<1>1. TypeInv /\ SafetyInv /\ SerialInv /\ [Next]_vars =>
          [\A p \in PurchaseIds : purchases[p] # None /\ purchases[p].status = "PAID" =>
                                  purchases'[p] = purchases[p]]_vars
  BY StepSerial DEF Paid
<1>. QED
  BY <1>1, SerialInvariant, TypeInvariant, SafetyInvariant, PTL DEF Spec, PaidIsFinal
=============================================================================
