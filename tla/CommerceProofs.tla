--------------------------- MODULE CommerceProofs ---------------------------
(***************************************************************************)
(* Theorems about Commerce, for every value of its constants.              *)
(*                                                                         *)
(* TypeOK is not inductive by itself: an INSERT takes its columns from a   *)
(* session, and a webhook writes rows it only remembers.  TypeInv adds     *)
(* what a session carries at each await and that the rows it remembers     *)
(* exist; rows of the three tables it refers to are never deleted.         *)
(***************************************************************************)
EXTENDS Commerce, FiniteSetTheorems, TLAPS

PurchasePc == {"has_paid", "get_pending", "insert_purchase"}
PaymentPc  == {"get_payment", "insert_payment"}
Located    == {"lock", "locked"}

\* The locals a request has set when it reaches each await.
RequestsTyped ==
    \A q \in RequestSlots :
        /\ requests[q].pc \in PurchasePc =>
              /\ requests[q].user \in Users
              /\ requests[q].course \in Courses
              /\ requests[q].amount \in Prices
        /\ requests[q].pc \in PaymentPc =>
              /\ requests[q].purchase \in PurchaseIds
              /\ requests[q].amount \in Prices
        /\ requests[q].pc = "delete_course" => requests[q].course \in Courses

\* The locals a webhook has set when it reaches each await.
WebhooksTyped ==
    \A h \in WebhookSlots :
        /\ webhooks[h].pc # "idle" => webhooks[h].event \in issued
        /\ webhooks[h].pc \in Located =>
              /\ webhooks[h].ref \in References
              /\ webhooks[h].purchase \in PurchaseIds
        /\ webhooks[h].confirm => webhooks[h].purchase \in PurchaseIds

\* Rows that rows or sessions refer to exist.
RowsExist ==
    /\ \A r \in References :
          payments[r] # None => purchases[payments[r].purchase] # None
    /\ \A q \in RequestSlots :
          requests[q].pc \in PaymentPc => purchases[requests[q].purchase] # None
    /\ \A h \in WebhookSlots :
          webhooks[h].pc \in Located =>
              /\ payments[webhooks[h].ref] # None
              /\ payments[webhooks[h].ref].purchase = webhooks[h].purchase

TypeInv == TypeOK /\ RequestsTyped /\ WebhooksTyped /\ RowsExist

-----------------------------------------------------------------------------
(* Checkout *)

\* Every start of a request keeps TypeInv.
LEMMA StartRequestTyped ==
    ASSUME TypeInv, NEW q \in RequestSlots, StartRequest(q)
    PROVE  TypeInv'
<1> USE NoneAssumption, NoRowAssumption DEF TypeInv
<1>1. CASE \E u \in Users, c \in Courses : ReadCourse(q, u, c)
  <2>1. PICK u \in Users, c \in Courses : ReadCourse(q, u, c)
    BY <1>1
  <2>2. courses[c] \in CourseRow
    BY <2>1 DEF ReadCourse, TypeOK
  <2>3. TypeOK'
    BY <2>1, <2>2 DEF TypeOK, ReadCourse, Continue, checkoutRest, tables, provider, mail,
          At, RequestSession, IdleRequest, RequestPc, CourseRow
  <2>4. RequestsTyped'
    BY <2>1, <2>2 DEF TypeOK, RequestsTyped, ReadCourse, Continue, At, IdleRequest,
          PurchasePc, PaymentPc, CourseRow
  <2>5. WebhooksTyped' /\ RowsExist'
    BY <2>1 DEF TypeOK, WebhooksTyped, RowsExist, ReadCourse, Continue, checkoutRest,
          tables, provider, At, IdleRequest, PaymentPc
  <2> QED BY <2>3, <2>4, <2>5
<1>2. CASE \E u \in Users, p \in PurchaseIds : ReadPurchase(q, u, p)
  <2>1. PICK u \in Users, p \in PurchaseIds : ReadPurchase(q, u, p)
    BY <1>2
  <2>2. purchases[p] \in PurchaseRow
    BY <2>1 DEF ReadPurchase, TypeOK
  <2>3. TypeOK'
    BY <2>1, <2>2 DEF TypeOK, ReadPurchase, Continue, checkoutRest, tables, provider, mail,
          At, RequestSession, IdleRequest, RequestPc, PurchaseRow
  <2>4. RequestsTyped'
    BY <2>1, <2>2 DEF TypeOK, RequestsTyped, ReadPurchase, Continue, At, IdleRequest,
          PurchasePc, PaymentPc, PurchaseRow
  <2>5. WebhooksTyped' /\ RowsExist'
    BY <2>1 DEF TypeOK, WebhooksTyped, RowsExist, ReadPurchase, Continue, checkoutRest,
          tables, provider, At, IdleRequest, PaymentPc
  <2> QED BY <2>3, <2>4, <2>5
<1>3. CASE \E c \in Courses : CountPurchases(q, c)
  <2>1. PICK c \in Courses : CountPurchases(q, c)
    BY <1>3
  <2>3. TypeOK'
    BY <2>1 DEF TypeOK, CountPurchases, Continue, checkoutRest, tables, provider, mail,
          At, RequestSession, IdleRequest, RequestPc
  <2>4. RequestsTyped'
    BY <2>1 DEF TypeOK, RequestsTyped, CountPurchases, Continue, At, IdleRequest,
          PurchasePc, PaymentPc
  <2>5. WebhooksTyped' /\ RowsExist'
    BY <2>1 DEF TypeOK, WebhooksTyped, RowsExist, CountPurchases, Continue, checkoutRest,
          tables, provider, At, IdleRequest, PaymentPc
  <2> QED BY <2>3, <2>4, <2>5
<1> QED BY <1>1, <1>2, <1>3 DEF StartRequest

\* A request that is answered, or goes on to its next query, keeps TypeInv.
LEMMA RequestMovesTyped ==
    ASSUME TypeInv, NEW q \in RequestSlots, NEW pc \in RequestPc,
           Continue(q, [requests[q] EXCEPT !.pc = pc]),
           \/ requests[q].pc \in PurchasePc /\ pc \in PurchasePc
           \/ requests[q].pc \in PaymentPc /\ pc \in PaymentPc
    PROVE  TypeInv'
<1> USE DEF TypeInv
<1>1. TypeOK'
  BY DEF TypeOK, Continue, checkoutRest, tables, provider, mail, RequestSession
<1>2. RequestsTyped'
  BY DEF TypeOK, RequestsTyped, Continue, PurchasePc, PaymentPc, RequestSession
<1>3. WebhooksTyped' /\ RowsExist'
  BY DEF TypeOK, WebhooksTyped, RowsExist, Continue, checkoutRest, tables, provider,
         PurchasePc, PaymentPc, RequestSession
<1> QED BY <1>1, <1>2, <1>3

LEMMA AnswerTyped ==
    ASSUME TypeInv, NEW q \in RequestSlots, Answer(q)
    PROVE  TypeInv'
<1> USE NoneAssumption DEF TypeInv, Answer
<1>1. TypeOK'
  BY DEF TypeOK, Continue, checkoutRest, tables, provider, mail, RequestSession,
         IdleRequest, RequestPc
<1>2. RequestsTyped' /\ WebhooksTyped' /\ RowsExist'
  BY DEF TypeOK, RequestsTyped, WebhooksTyped, RowsExist, Continue, checkoutRest, tables,
         provider, IdleRequest, PurchasePc, PaymentPc
<1> QED BY <1>1, <1>2

\* The INSERT of a purchase takes a complete row from its session.
LEMMA InsertPurchaseTyped ==
    ASSUME TypeInv, NEW q \in RequestSlots, InsertPurchase(q)
    PROVE  TypeInv'
<1> USE NoneAssumption, NoRowAssumption DEF TypeInv
<1>1. CASE Answer(q)
  BY <1>1, AnswerTyped
<1>2. CASE ~Answer(q)
  <2> DEFINE row == NewPurchase(requests[q])
  <2>1. row \in PurchaseRow
    BY DEF InsertPurchase, At, RequestsTyped, PurchasePc, NewPurchase, PurchaseRow,
           PurchaseStatus
  <2>2. PICK p \in PurchaseIds :
              /\ purchases[p] = None
              /\ purchases' = [purchases EXCEPT ![p] = row]
    BY <1>2 DEF InsertPurchase
  <2>3. /\ requests' = [requests EXCEPT ![q] = IdleRequest]
        /\ UNCHANGED <<courses, payments, enrollments, offered, checkoutRest>>
    BY <1>2 DEF InsertPurchase
  <2> HIDE DEF row
  <2>4. TypeOK'
    BY <2>1, <2>2, <2>3 DEF TypeOK, checkoutRest, provider, mail, RequestSession,
          IdleRequest, RequestPc
  <2>5. RequestsTyped' /\ WebhooksTyped'
    BY <2>3 DEF TypeOK, RequestsTyped, WebhooksTyped, checkoutRest, provider, IdleRequest,
          PurchasePc, PaymentPc
  <2>6. RowsExist'
    BY <2>1, <2>2, <2>3 DEF TypeOK, RowsExist, RequestsTyped, checkoutRest, IdleRequest,
          PaymentPc, PaymentRow
  <2> QED BY <2>4, <2>5, <2>6
<1> QED BY <1>1, <1>2

\* The INSERT of a payment takes a complete row of a purchase that exists.
LEMMA InsertPaymentTyped ==
    ASSUME TypeInv, NEW q \in RequestSlots, InsertPayment(q)
    PROVE  TypeInv'
<1> USE NoneAssumption, NoRowAssumption DEF TypeInv
<1>1. CASE Answer(q)
  BY <1>1, AnswerTyped
<1>2. CASE ~Answer(q)
  <2> DEFINE row == NewPayment(requests[q])
  <2>1. row \in PaymentRow /\ purchases[row.purchase] # None
    BY DEF InsertPayment, At, RequestsTyped, RowsExist, PaymentPc, NewPayment, PaymentRow,
           PaymentStatus
  <2>2. PICK r \in References :
              payments[r] = None /\ payments' = [payments EXCEPT ![r] = row]
    BY <1>2 DEF InsertPayment
  <2>3. /\ requests' = [requests EXCEPT ![q] = IdleRequest]
        /\ UNCHANGED <<courses, purchases, enrollments, offered, checkoutRest>>
    BY <1>2 DEF InsertPayment
  <2> HIDE DEF row
  <2>4. TypeOK'
    BY <2>1, <2>2, <2>3 DEF TypeOK, checkoutRest, provider, mail, RequestSession,
          IdleRequest, RequestPc
  <2>5. RequestsTyped' /\ WebhooksTyped'
    BY <2>3 DEF TypeOK, RequestsTyped, WebhooksTyped, checkoutRest, provider, IdleRequest,
          PurchasePc, PaymentPc
  <2>6. RowsExist'
    BY <2>1, <2>2, <2>3 DEF TypeOK, RowsExist, checkoutRest, IdleRequest, PaymentPc,
          WebhooksTyped
  <2> QED BY <2>4, <2>5, <2>6
<1> QED BY <1>1, <1>2

\* The administrators' writes touch courses only.
LEMMA CourseWriteTyped ==
    ASSUME TypeInv,
           \/ \E c \in Courses, status \in AdminStatuses, price \in Prices :
                 UpdateCourse(c, status, price)
           \/ \E q \in RequestSlots : DeleteCourse(q)
    PROVE  TypeInv'
<1> USE NoneAssumption, NoRowAssumption, StatusesAssumption DEF TypeInv
<1>1. CASE \E c \in Courses, status \in AdminStatuses, price \in Prices :
              UpdateCourse(c, status, price)
  <2>1. PICK c \in Courses, status \in AdminStatuses, price \in Prices :
              UpdateCourse(c, status, price)
    BY <1>1
  <2>2. [status |-> status, price |-> price] \in CourseRow
    BY DEF CourseRow
  <2>3. courses' \in [Courses -> CourseRow \cup {None}]
    BY <2>1, <2>2 DEF UpdateCourse, TypeOK
  <2>4. Offer(courses') \subseteq Courses \X Prices
    BY <2>3 DEF Offer, CourseRow
  <2>5. offered' \subseteq Courses \X Prices
    BY <2>1, <2>4 DEF UpdateCourse, TypeOK
  <2>6. UNCHANGED <<purchases, payments, enrollments, requests, checkoutRest>>
    BY <2>1 DEF UpdateCourse
  <2>7. TypeOK'
    BY <2>3, <2>5, <2>6 DEF TypeOK, checkoutRest, provider, mail
  <2>8. RequestsTyped' /\ WebhooksTyped' /\ RowsExist'
    BY <2>6 DEF RequestsTyped, WebhooksTyped, RowsExist, checkoutRest, provider
  <2> QED BY <2>7, <2>8
<1>2. CASE \E q \in RequestSlots : DeleteCourse(q)
  <2>1. PICK q \in RequestSlots : DeleteCourse(q)
    BY <1>2
  <2>2. CASE Answer(q)
    BY <2>2, AnswerTyped
  <2>3. CASE ~Answer(q)
    <3>1. /\ courses' = [courses EXCEPT ![requests[q].course] = None]
          /\ requests' = [requests EXCEPT ![q] = IdleRequest]
          /\ UNCHANGED <<purchases, payments, enrollments, offered, checkoutRest>>
      BY <2>1, <2>3 DEF DeleteCourse
    <3>2. TypeOK'
      BY <3>1 DEF TypeOK, checkoutRest, provider, mail, RequestSession, IdleRequest, RequestPc
    <3>3. RequestsTyped' /\ WebhooksTyped' /\ RowsExist'
      BY <3>1 DEF TypeOK, RequestsTyped, WebhooksTyped, RowsExist, checkoutRest, provider,
            IdleRequest, PurchasePc, PaymentPc
    <3> QED BY <3>2, <3>3
  <2> QED BY <2>2, <2>3
<1> QED BY <1>1, <1>2

LEMMA CheckoutTyped == TypeInv /\ CheckoutNext => TypeInv'
<1> SUFFICES ASSUME TypeInv, CheckoutNext PROVE TypeInv'
  OBVIOUS
<1>1. ASSUME NEW q \in RequestSlots, CheckAlreadyPurchased(q) PROVE TypeInv'
  BY <1>1, AnswerTyped, RequestMovesTyped
     DEF CheckAlreadyPurchased, At, PurchasePc, RequestPc
<1>2. ASSUME NEW q \in RequestSlots, ReusePending(q) PROVE TypeInv'
  BY <1>2, AnswerTyped, RequestMovesTyped DEF ReusePending, At, PurchasePc, RequestPc
<1>3. ASSUME NEW q \in RequestSlots, ReusePayment(q) PROVE TypeInv'
  BY <1>3, AnswerTyped, RequestMovesTyped DEF ReusePayment, At, PaymentPc, RequestPc
<1> QED
  BY <1>1, <1>2, <1>3, StartRequestTyped, InsertPurchaseTyped, InsertPaymentTyped,
     CourseWriteTyped DEF CheckoutNext, PurchaseStep, PaymentStep
-----------------------------------------------------------------------------
(* Settlement *)

\* Rows and locals that a step of a located webhook works on.
LEMMA LocatedRows ==
    ASSUME TypeInv, NEW h \in WebhookSlots, webhooks[h].pc \in Located
    PROVE  /\ webhooks[h] \in WebhookSession
           /\ webhooks[h].event \in issued
           /\ webhooks[h].ref \in References
           /\ webhooks[h].purchase \in PurchaseIds
           /\ payments[webhooks[h].ref] \in PaymentRow
           /\ payments[webhooks[h].ref].purchase = webhooks[h].purchase
           /\ purchases[webhooks[h].purchase] \in PurchaseRow
<1> USE DEF TypeInv
<1>1. /\ webhooks[h] \in WebhookSession
      /\ webhooks[h].event \in issued
      /\ webhooks[h].ref \in References
      /\ webhooks[h].purchase \in PurchaseIds
  BY DEF TypeOK, WebhooksTyped, Located
<1>2. /\ payments[webhooks[h].ref] \in PaymentRow
      /\ payments[webhooks[h].ref].purchase = webhooks[h].purchase
  BY <1>1 DEF TypeOK, RowsExist
<1>3. purchases[webhooks[h].purchase] \in PurchaseRow
  BY <1>1, <1>2, NoRowAssumption DEF TypeOK, RowsExist
<1> QED BY <1>1, <1>2, <1>3

LEMMA LookupTyped ==
    ASSUME TypeInv, NEW h \in WebhookSlots, Lookup(h)
    PROVE  TypeInv'
<1> USE NoneAssumption, NoRowAssumption DEF TypeInv
<1> DEFINE s == webhooks[h]
<1>1. s \in WebhookSession /\ s.event \in issued /\ s.event \in Event
  BY DEF Lookup, WebhookAt, TypeOK, WebhooksTyped
<1>2. CASE ContinueWebhook(h, [s EXCEPT !.pc = "respond"])
  <2>1. TypeOK'
    BY <1>1, <1>2 DEF TypeOK, ContinueWebhook, settlementRest, mail, WebhookSession, WebhookPc
  <2>2. RequestsTyped' /\ WebhooksTyped' /\ RowsExist'
    BY <1>1, <1>2 DEF TypeOK, RequestsTyped, WebhooksTyped, RowsExist, ContinueWebhook,
          settlementRest, WebhookSession, Located
  <2> QED BY <2>1, <2>2
<1>3. CASE ~ContinueWebhook(h, [s EXCEPT !.pc = "respond"])
  <2> DEFINE found == PaymentsOfTransaction(s.event.tx)
  <2>1. PICK r \in found :
          ContinueWebhook(h,
            [s EXCEPT !.pc = "lock", !.ref = r, !.purchase = payments[r].purchase,
                      !.purchaseSeen = purchases[payments[r].purchase].status,
                      !.statusSeen = payments[r].status, !.txSeen = payments[r].tx])
    BY <1>3 DEF Lookup
  <2>2. r \in References /\ payments[r] # None
    BY <2>1 DEF PaymentsOfTransaction, PaymentsByReference, PaymentsByTransactionId
  <2>3. payments[r] \in PaymentRow /\ purchases[payments[r].purchase] \in PurchaseRow
    BY <2>2 DEF TypeOK, RowsExist, PaymentRow
  <2> HIDE DEF found
  <2>4. TypeOK'
    BY <1>1, <2>1, <2>2, <2>3 DEF TypeOK, ContinueWebhook, settlementRest, mail,
          WebhookSession, WebhookPc, PaymentRow, PurchaseRow
  <2>5. RequestsTyped' /\ WebhooksTyped' /\ RowsExist'
    BY <1>1, <2>1, <2>2, <2>3 DEF TypeOK, RequestsTyped, WebhooksTyped, RowsExist,
          ContinueWebhook, settlementRest, WebhookSession, Located, PaymentRow
  <2> QED BY <2>4, <2>5
<1> QED BY <1>2, <1>3

\* Taking the lock and leaving a settled purchase alone.
LEMMA LockTyped ==
    ASSUME TypeInv, NEW h \in WebhookSlots, LockPurchase(h) \/ AlreadyProcessed(h)
    PROVE  TypeInv'
<1> USE NoneAssumption DEF TypeInv
<1>1. PICK pc \in {"locked", "respond"} :
        /\ webhooks[h].pc \in Located
        /\ ContinueWebhook(h, [webhooks[h] EXCEPT !.pc = pc])
  BY DEF LockPurchase, AlreadyProcessed, WebhookAt, Located
<1>2. webhooks[h] \in WebhookSession /\ webhooks[h].event \in issued
  BY <1>1, LocatedRows
<1>3. TypeOK'
  BY <1>1, <1>2 DEF TypeOK, ContinueWebhook, settlementRest, mail, WebhookSession, WebhookPc
<1>4. RequestsTyped' /\ WebhooksTyped' /\ RowsExist'
  BY <1>1, <1>2 DEF TypeOK, RequestsTyped, WebhooksTyped, RowsExist, ContinueWebhook,
        settlementRest, WebhookSession, Located
<1> QED BY <1>3, <1>4

\* The payment row as a commit leaves it is a payment row of the same purchase.
LEMMA RecordedPaymentTyped ==
    ASSUME TypeInv, NEW h \in WebhookSlots, webhooks[h].pc \in Located
    PROVE  /\ RecordedPayment(webhooks[h]) \in PaymentRow
           /\ RecordedPayment(webhooks[h]).purchase = webhooks[h].purchase
<1>1. payments[webhooks[h].ref] \in PaymentRow /\ webhooks[h].event \in Event
  BY LocatedRows DEF TypeInv, TypeOK
<1> QED
  BY <1>1, LocatedRows DEF RecordedPayment, Flushed, PaymentRow, Event

\* A commit that writes the purchase and the payment of the session, and may
\* insert its enrollment, keeps TypeInv.
LEMMA CommitTyped ==
    ASSUME TypeInv, NEW h \in WebhookSlots, webhooks[h].pc \in Located,
           NEW status \in PurchaseStatus, NEW confirm \in BOOLEAN,
           enrollments' \in [PurchaseIds -> EnrollmentRow \cup {None}],
           purchases' = [purchases EXCEPT ![webhooks[h].purchase].status = status],
           payments' = [payments EXCEPT ![webhooks[h].ref] = RecordedPayment(webhooks[h])],
           webhooks' = [webhooks EXCEPT ![h].pc = "respond", ![h].confirm = confirm],
           UNCHANGED <<acked, refused, settlementRest>>
    PROVE  TypeInv'
<1> USE NoneAssumption, NoRowAssumption
<1> DEFINE s == webhooks[h]
           p == webhooks[h].purchase
           row == RecordedPayment(webhooks[h])
<1>1. /\ s \in WebhookSession /\ s.event \in issued
      /\ s.ref \in References /\ p \in PurchaseIds
      /\ purchases[p] \in PurchaseRow /\ payments[s.ref] \in PaymentRow
      /\ payments[s.ref].purchase = p
      /\ row \in PaymentRow /\ row.purchase = p
  BY LocatedRows, RecordedPaymentTyped
<1>2. [purchases[p] EXCEPT !.status = status] \in PurchaseRow
  BY <1>1 DEF PurchaseRow
<1> HIDE DEF row
<1>3. /\ purchases' = [purchases EXCEPT ![p] = [purchases[p] EXCEPT !.status = status]]
      /\ payments' = [payments EXCEPT ![s.ref] = row]
  BY <1>1 DEF TypeInv, TypeOK, row
<1> DEFINE t == [s EXCEPT !.pc = "respond", !.confirm = confirm]
<1>4. /\ t \in WebhookSession /\ t.pc = "respond" /\ t.event = s.event
      /\ t.purchase = p
      /\ webhooks' = [webhooks EXCEPT ![h] = t]
  BY <1>1 DEF TypeInv, TypeOK, WebhookSession, WebhookPc
<1> HIDE DEF t
<1>5. purchases' \in [PurchaseIds -> PurchaseRow \cup {None}]
  BY <1>1, <1>2, <1>3 DEF TypeInv, TypeOK
<1>6. payments' \in [References -> PaymentRow \cup {None}]
  BY <1>1, <1>3 DEF TypeInv, TypeOK
<1>7. webhooks' \in [WebhookSlots -> WebhookSession]
  BY <1>4 DEF TypeInv, TypeOK
<1>8. UNCHANGED <<courses, offered, requests, txRef, issued, duplicates, outbox,
                  confirmed, crashes, acked, refused>>
  BY DEF settlementRest, mail
<1>9. TypeOK'
  BY <1>5, <1>6, <1>7, <1>8 DEF TypeInv, TypeOK
<1>10. RequestsTyped' /\ WebhooksTyped'
  BY <1>1, <1>4, <1>8 DEF TypeInv, TypeOK, RequestsTyped, WebhooksTyped, Located
<1>11. \A o \in PurchaseIds : purchases[o] # None => purchases'[o] # None
  BY <1>1, <1>2, <1>3 DEF TypeInv, TypeOK
<1>12. \A r \in References :
          payments[r] # None =>
            payments'[r] # None /\ payments'[r].purchase = payments[r].purchase
  BY <1>1, <1>3 DEF TypeInv, TypeOK
<1>13. \A r \in References :
          payments'[r] # None => purchases'[payments'[r].purchase] # None
  <2> TAKE r \in References
  <2> HAVE payments'[r] # None
  <2>1. CASE r = s.ref
    BY <2>1, <1>1, <1>3, <1>11 DEF TypeInv, TypeOK
  <2>2. CASE r # s.ref
    <3>1. payments'[r] = payments[r] /\ payments[r] \in PaymentRow
      BY <2>2, <1>3 DEF TypeInv, TypeOK
    <3>2. payments[r].purchase \in PurchaseIds
      BY <3>1 DEF PaymentRow
    <3> QED BY <3>1, <3>2, <1>11 DEF TypeInv, RowsExist
  <2> QED BY <2>1, <2>2
<1>14. RowsExist'
  BY <1>4, <1>8, <1>11, <1>12, <1>13
     DEF TypeInv, TypeOK, RowsExist, RequestsTyped, WebhooksTyped, Located, PaymentPc
<1> QED BY <1>9, <1>10, <1>14 DEF TypeInv

LEMMA SettlePaidTyped ==
    ASSUME TypeInv, NEW h \in WebhookSlots, SettlePaid(h)
    PROVE  TypeInv'
<1> DEFINE s == webhooks[h]
           status == Flushed(purchases[s.purchase].status, s.purchaseSeen, "PAID")
<1>1. webhooks[h].pc \in Located
  BY DEF SettlePaid, WebhookAt, Located
<1>2. /\ s.purchase \in PurchaseIds /\ purchases[s.purchase] \in PurchaseRow
      /\ purchases \in [PurchaseIds -> PurchaseRow \cup {None}]
      /\ enrollments \in [PurchaseIds -> EnrollmentRow \cup {None}]
      /\ webhooks \in [WebhookSlots -> WebhookSession]
  BY <1>1, LocatedRows DEF TypeInv, TypeOK
<1>3. status \in PurchaseStatus
  BY <1>2 DEF Flushed, PurchaseRow, PurchaseStatus
<1>4. ActivatedEnrollment(s.purchase) \in EnrollmentRow
  BY <1>2 DEF ActivatedEnrollment, EnrollmentRow, PurchaseRow, EnrollmentStatus
<1>5. enrollments' \in [PurchaseIds -> EnrollmentRow \cup {None}]
  BY <1>2, <1>4 DEF SettlePaid
<1>6. /\ purchases' = [purchases EXCEPT ![s.purchase].status = status]
      /\ payments' = [payments EXCEPT ![s.ref] = RecordedPayment(s)]
      /\ webhooks' = [webhooks EXCEPT ![h].pc = "respond", ![h].confirm = TRUE]
      /\ UNCHANGED <<acked, refused, settlementRest>>
  BY DEF SettlePaid
<1> HIDE DEF status
<1> QED BY <1>1, <1>3, <1>5, <1>6, CommitTyped

LEMMA RecordFailedTyped ==
    ASSUME TypeInv, NEW h \in WebhookSlots, RecordFailed(h) \/ RecordOther(h)
    PROVE  TypeInv'
<1> DEFINE s == webhooks[h]
<1>1. webhooks[h].pc \in Located
  BY DEF RecordFailed, RecordOther, WebhookAt, Located
<1>2. /\ s.purchase \in PurchaseIds /\ purchases[s.purchase] \in PurchaseRow
      /\ purchases \in [PurchaseIds -> PurchaseRow \cup {None}]
      /\ webhooks \in [WebhookSlots -> WebhookSession]
      /\ s \in WebhookSession
  BY <1>1, LocatedRows DEF TypeInv, TypeOK
<1>3. \/ purchases' = [purchases EXCEPT ![s.purchase].status = "FAILED"]
      \/ purchases' = purchases
  BY DEF RecordFailed, RecordOther
<1>4. purchases = [purchases EXCEPT ![s.purchase].status = purchases[s.purchase].status]
  BY <1>2 DEF PurchaseRow
<1>5. PICK status \in PurchaseStatus :
        purchases' = [purchases EXCEPT ![s.purchase].status = status]
  BY <1>2, <1>3, <1>4 DEF PurchaseRow, PurchaseStatus
<1>6. webhooks' = [webhooks EXCEPT ![h].pc = "respond", ![h].confirm = s.confirm]
  <2>1. webhooks' = [webhooks EXCEPT ![h].pc = "respond"]
    BY DEF RecordFailed, RecordOther
  <2> QED BY <2>1, <1>2 DEF WebhookSession
<1>7. s.confirm \in BOOLEAN
  BY <1>2 DEF WebhookSession
<1>8. /\ payments' = [payments EXCEPT ![s.ref] = RecordedPayment(s)]
      /\ UNCHANGED <<enrollments, acked, refused, settlementRest>>
  BY DEF RecordFailed, RecordOther
<1>9. enrollments' \in [PurchaseIds -> EnrollmentRow \cup {None}]
  BY <1>8 DEF TypeInv, TypeOK
<1> QED BY <1>1, <1>5, <1>6, <1>7, <1>8, <1>9, CommitTyped

\* Sessions that end: a refused settlement and an answered event.
LEMMA EndTyped ==
    ASSUME TypeInv, NEW h \in WebhookSlots, SettleConflict(h) \/ Respond(h)
    PROVE  TypeInv'
<1> USE NoneAssumption DEF TypeInv
<1>1. /\ webhooks' = [webhooks EXCEPT ![h] = IdleWebhook]
      /\ UNCHANGED <<tables, requests, txRef, issued, duplicates, confirmed, crashes>>
      /\ acked' \in {acked, acked \cup {webhooks[h].event}}
      /\ refused' \in {refused, refused \cup {webhooks[h].event}}
  BY DEF SettleConflict, Respond, settlementRest, tables, mail
<1>2. webhooks[h].event \in issued
  BY DEF SettleConflict, Respond, WebhookAt, WebhooksTyped
<1>3. acked' \subseteq issued /\ refused' \subseteq issued
  BY <1>1, <1>2 DEF TypeOK
<1>4. outbox' \in [PurchaseIds -> Nat]
  BY DEF SettleConflict, Respond, settlementRest, mail, TypeOK, WebhooksTyped
<1>5. IdleWebhook \in WebhookSession
  BY DEF IdleWebhook, WebhookSession, WebhookPc
<1>6. TypeOK'
  BY <1>1, <1>3, <1>4, <1>5 DEF TypeOK, tables
<1>7. RequestsTyped' /\ WebhooksTyped' /\ RowsExist'
  BY <1>1 DEF TypeOK, RequestsTyped, WebhooksTyped, RowsExist, tables, IdleWebhook, Located
<1> QED BY <1>6, <1>7

LEMMA SettlementTyped == TypeInv /\ WebhookNext => TypeInv'
  BY LookupTyped, LockTyped, SettlePaidTyped, RecordFailedTyped, EndTyped
     DEF WebhookNext, WebhookStep
-----------------------------------------------------------------------------
(* The provider, the background tasks and the crash *)

LEMMA ProviderTyped == TypeInv /\ ProviderNext => TypeInv'
<1> SUFFICES ASSUME TypeInv, ProviderNext PROVE TypeInv'
  OBVIOUS
<1> USE NoneAssumption, StatusesAssumption DEF TypeInv
<1>1. ASSUME NEW t \in Transactions, NEW status \in ProviderStatuses,
             \/ \E r \in References : PayAtCheckout(t, r, status)
             \/ PayElsewhere(t, status)
             \/ UpdateTransaction(t, status)
      PROVE  TypeInv'
  <2>1. /\ issued' = issued \cup {[tx |-> t, status |-> status]}
        /\ txRef' \in [Transactions -> References \cup {None}]
        /\ UNCHANGED providerRest
    BY <1>1 DEF PayAtCheckout, PayElsewhere, UpdateTransaction, TypeOK
  <2>2. [tx |-> t, status |-> status] \in Event
    BY DEF Event
  <2>3. TypeOK'
    BY <2>1, <2>2 DEF TypeOK, providerRest, tables, mail
  <2>4. RequestsTyped' /\ WebhooksTyped' /\ RowsExist'
    BY <2>1 DEF RequestsTyped, WebhooksTyped, RowsExist, providerRest, tables
  <2> QED BY <2>3, <2>4
<1>2. ASSUME NEW h \in WebhookSlots, NEW e \in issued, Deliver(h, e)
      PROVE  TypeInv'
  <2> DEFINE s == [IdleWebhook EXCEPT !.pc = "lookup", !.event = e]
  <2>1. s \in WebhookSession /\ s.pc = "lookup" /\ s.event = e /\ ~s.confirm
    BY DEF TypeOK, IdleWebhook, WebhookSession, WebhookPc
  <2>2. /\ webhooks' = [webhooks EXCEPT ![h] = s]
        /\ UNCHANGED <<tables, requests, txRef, issued, acked, refused, mail, crashes>>
    BY <1>2 DEF Deliver
  <2>3. duplicates' \in 0 .. MaxDuplicates
    BY <1>2, BoundsAssumption DEF Deliver, TypeOK
  <2> HIDE DEF s
  <2>4. TypeOK'
    BY <2>1, <2>2, <2>3 DEF TypeOK, tables, mail
  <2>5. RequestsTyped' /\ WebhooksTyped' /\ RowsExist'
    BY <2>1, <2>2 DEF TypeOK, RequestsTyped, WebhooksTyped, RowsExist, tables, Located
  <2> QED BY <2>4, <2>5
<1> QED BY <1>1, <1>2 DEF ProviderNext

LEMMA ProcessTyped ==
    TypeInv /\ (Crash \/ \E p \in PurchaseIds : RunConfirmation(p)) => TypeInv'
<1> USE NoneAssumption DEF TypeInv
<1>1. ASSUME TypeInv, Crash PROVE TypeInv'
  <2>1. TypeOK'
    BY <1>1, BoundsAssumption DEF TypeOK, Crash, tables, provider, RequestSession,
          IdleRequest, RequestPc, WebhookSession, IdleWebhook, WebhookPc
  <2>2. RequestsTyped' /\ WebhooksTyped' /\ RowsExist'
    BY <1>1 DEF RequestsTyped, WebhooksTyped, RowsExist, Crash, tables, provider,
          IdleRequest, IdleWebhook, PurchasePc, PaymentPc, Located
  <2> QED BY <2>1, <2>2
<1>2. ASSUME TypeInv, NEW p \in PurchaseIds, RunConfirmation(p) PROVE TypeInv'
  <2>1. TypeOK'
    BY <1>2 DEF TypeOK, RunConfirmation, tables, provider
  <2>2. RequestsTyped' /\ WebhooksTyped' /\ RowsExist'
    BY <1>2 DEF RequestsTyped, WebhooksTyped, RowsExist, RunConfirmation, tables, provider
  <2> QED BY <2>1, <2>2
<1> QED BY <1>1, <1>2

LEMMA StutterTyped == TypeInv /\ UNCHANGED vars => TypeInv'
  BY DEF TypeInv, TypeOK, RequestsTyped, WebhooksTyped, RowsExist, vars, tables, provider,
         mail

LEMMA InitTyped == Init => TypeInv
<1> SUFFICES ASSUME Init PROVE TypeInv
  OBVIOUS
<1> USE NoneAssumption DEF Init
<1>1. courses \in [Courses -> CourseRow]
  BY DEF CourseRow, CourseStatus
<1>2. Offer(courses) \subseteq Courses \X Prices
  BY <1>1 DEF Offer, CourseRow
<1>3. TypeOK
  BY <1>1, <1>2, BoundsAssumption DEF TypeOK, RequestSession, IdleRequest, RequestPc,
        WebhookSession, IdleWebhook, WebhookPc
<1>4. RequestsTyped /\ WebhooksTyped /\ RowsExist
  BY DEF RequestsTyped, WebhooksTyped, RowsExist, IdleRequest, IdleWebhook, PurchasePc,
        PaymentPc, Located
<1> QED BY <1>3, <1>4 DEF TypeInv

\* Every reachable state has the inductive type invariant.
THEOREM TypeInvariant == Spec => []TypeInv
<1>1. TypeInv /\ [Next]_vars => TypeInv'
  BY CheckoutTyped, SettlementTyped, ProviderTyped, ProcessTyped, StutterTyped DEF Next
<1> QED BY <1>1, InitTyped, PTL DEF Spec

\* Every variable keeps its type: no row is ever written with a missing column
\* and no session acts on a row that is not there.
THEOREM TypeCorrect == Spec => []TypeOK
<1>1. TypeInv => TypeOK
  BY DEF TypeInv
<1> QED BY <1>1, TypeInvariant, PTL
-----------------------------------------------------------------------------
(***************************************************************************)
(* The financial history.  A purchase and a payment take their amounts     *)
(* from what a request has read some awaits earlier, so the invariant says *)
(* what the request still knows by then: prices that were once offered     *)
(* stay in offered, and a purchase never changes its terms.                *)
(***************************************************************************)

Remembers(session) ==
    /\ session.pc \in PurchasePc => <<session.course, session.amount>> \in offered
    /\ session.pc \in PaymentPc => session.amount = purchases[session.purchase].amount

PurchaseFits(p) == purchases[p] # None =>
    /\ courses[purchases[p].course] # None
    /\ <<purchases[p].course, purchases[p].amount>> \in offered

PaymentFits(r) == payments[r] # None =>
    /\ payments[r].amount = purchases[payments[r].purchase].amount
    /\ \A o \in References :
           payments[o] # None /\ payments[o].purchase = payments[r].purchase => o = r

OffersKept == \A c \in Courses :
    courses[c] # None /\ courses[c].status = "PUBLISHED" => <<c, courses[c].price>> \in offered

HistoryInv == /\ \A p \in PurchaseIds : PurchaseFits(p)
              /\ \A r \in References : PaymentFits(r)
              /\ OffersKept
              /\ \A q \in RequestSlots : Remembers(requests[q])

LEMMA InitHistory == Init => HistoryInv
  BY DEF Init, HistoryInv, PurchaseFits, PaymentFits, OffersKept, Offer, Remembers, IdleRequest,
         PurchasePc, PaymentPc

\* Steps that write no amount, no course and no new row: the answers of the
\* provider, the commits of webhooks, the background tasks and the crash.
HistoryKept ==
    /\ UNCHANGED <<courses, offered>>
    /\ \A p \in PurchaseIds :
          \/ purchases'[p] = purchases[p]
          \/ /\ purchases[p] # None /\ purchases'[p].course = purchases[p].course
             /\ purchases'[p].amount = purchases[p].amount
    /\ \A r \in References :
          \/ payments'[r] = payments[r]
          \/ /\ payments[r] # None /\ payments'[r].purchase = payments[r].purchase
             /\ payments'[r].amount = payments[r].amount
    /\ \A q \in RequestSlots : requests'[q] \in {requests[q], IdleRequest}

LEMMA KeptHistory == ASSUME TypeInv, HistoryInv, HistoryKept PROVE HistoryInv'
<1>1. \A p \in PurchaseIds : PurchaseFits(p)'
  BY DEF HistoryInv, PurchaseFits, HistoryKept
<1>2. \A r \in References : payments[r] # None => payments[r].purchase \in PurchaseIds
  BY DEF TypeInv, TypeOK, PaymentRow
<1>3. ASSUME NEW r \in References PROVE PaymentFits(r)'
  <2>1. payments'[r] # None =>
            /\ payments[r] # None /\ payments'[r].purchase = payments[r].purchase
            /\ payments'[r].amount = payments[r].amount
            /\ purchases'[payments[r].purchase].amount = purchases[payments[r].purchase].amount
    BY <1>2 DEF HistoryKept
  <2>2. \A o \in References : payments'[o] # None =>
            payments[o] # None /\ payments'[o].purchase = payments[o].purchase
    BY DEF HistoryKept
  <2>. QED
    BY <2>1, <2>2 DEF HistoryInv, PaymentFits
<1>4. ASSUME NEW q \in RequestSlots PROVE Remembers(requests[q])'
  <2>1. requests[q].pc \in PaymentPc => requests[q].purchase \in PurchaseIds
    BY DEF TypeInv, RequestsTyped
  <2>2. IdleRequest.pc \notin PurchasePc \cup PaymentPc
    BY DEF IdleRequest, PurchasePc, PaymentPc
  <2>. QED
    BY <2>1, <2>2 DEF HistoryInv, HistoryKept, Remembers
<1>. QED
  BY <1>1, <1>3, <1>4 DEF HistoryInv, HistoryKept, OffersKept

\* A request that goes on with a session that remembers what it must.
LEMMA ContinueHistory ==
    ASSUME TypeInv, HistoryInv, NEW q \in RequestSlots, NEW session, Remembers(session),
           Continue(q, session)
    PROVE  HistoryInv'
<1>1. \A o \in RequestSlots : requests'[o] = IF o = q THEN session ELSE requests[o]
  BY DEF Continue, TypeInv, TypeOK
<1>2. UNCHANGED <<courses, purchases, payments, offered>>
  BY DEF Continue, tables
<1>. QED
  BY <1>1, <1>2 DEF HistoryInv, PurchaseFits, PaymentFits, OffersKept, Remembers

LEMMA IdleRemembers == Remembers(IdleRequest)
  BY DEF Remembers, IdleRequest, PurchasePc, PaymentPc

LEMMA StartHistory ==
    ASSUME TypeInv, HistoryInv, NEW q \in RequestSlots, StartRequest(q) PROVE HistoryInv'
<1>. /\ IdleRequest \in RequestSession
     /\ IdleRequest = [pc |-> "idle", user |-> None, course |-> None, purchase |-> None,
                       amount |-> None]
  BY DEF IdleRequest, RequestSession, RequestPc
<1>1. ASSUME NEW u \in Users, NEW c \in Courses, ReadCourse(q, u, c) PROVE HistoryInv'
  <2>. DEFINE session == [IdleRequest EXCEPT !.pc = "has_paid", !.user = u, !.course = c,
                                             !.amount = courses[c].price]
  <2>1. Continue(q, session) /\ <<c, courses[c].price>> \in offered
    BY <1>1 DEF ReadCourse, HistoryInv, OffersKept
  <2>2. session.pc = "has_paid" /\ session.course = c /\ session.amount = courses[c].price
    OBVIOUS
  <2>. HIDE DEF session
  <2>3. Remembers(session)
    BY <2>1, <2>2 DEF Remembers, PaymentPc
  <2>. QED
    BY <2>1, <2>3, ContinueHistory
<1>2. ASSUME NEW u \in Users, NEW p \in PurchaseIds, ReadPurchase(q, u, p) PROVE HistoryInv'
  <2>. DEFINE session == [IdleRequest EXCEPT !.pc = "get_payment", !.purchase = p,
                                             !.amount = purchases[p].amount]
  <2>1. Remembers(session)
    BY DEF Remembers, PurchasePc
  <2>. QED
    BY <1>2, <2>1, ContinueHistory DEF ReadPurchase
<1>3. ASSUME NEW c \in Courses, CountPurchases(q, c) PROVE HistoryInv'
  <2>1. Remembers([IdleRequest EXCEPT !.pc = "delete_course", !.course = c])
    BY DEF Remembers, PurchasePc, PaymentPc
  <2>. QED
    BY <1>3, <2>1, ContinueHistory DEF CountPurchases
<1>. QED
  BY <1>1, <1>2, <1>3 DEF StartRequest

\* The lookups before the two inserts keep what the request has read.
LEMMA MoveHistory ==
    ASSUME TypeInv, HistoryInv, NEW q \in RequestSlots,
           CheckAlreadyPurchased(q) \/ ReusePending(q) \/ ReusePayment(q)
    PROVE  HistoryInv'
<1>1. requests[q] \in RequestSession /\ Remembers(requests[q])
  BY DEF TypeInv, TypeOK, HistoryInv
<1>2. CASE Continue(q, IdleRequest)
  BY <1>2, IdleRemembers, ContinueHistory
<1>3. CASE ~Continue(q, IdleRequest)
  <2>1. PICK pc \in {"get_pending", "insert_purchase", "insert_payment"} :
            /\ Continue(q, [requests[q] EXCEPT !.pc = pc])
            /\ pc = "insert_payment" <=> requests[q].pc \in PaymentPc
            /\ pc # "insert_payment" <=> requests[q].pc \in PurchasePc
    BY <1>3 DEF CheckAlreadyPurchased, ReusePending, ReusePayment, Answer, At, PurchasePc, PaymentPc
  <2>2. Remembers([requests[q] EXCEPT !.pc = pc])
    BY <1>1, <2>1 DEF Remembers, RequestSession, PurchasePc, PaymentPc
  <2>. QED
    BY <2>1, <2>2, ContinueHistory
<1>. QED
  BY <1>2, <1>3

LEMMA InsertPurchaseHistory ==
    ASSUME TypeInv, HistoryInv, NEW q \in RequestSlots, InsertPurchase(q) PROVE HistoryInv'
<1>. DEFINE s == requests[q]
            row == NewPurchase(s)
<1>1. CASE Answer(q)
  BY <1>1, IdleRemembers, ContinueHistory DEF Answer
<1>2. CASE ~Answer(q)
  <2>1. PICK p \in PurchaseIds :
            /\ courses[s.course] # None /\ purchases[p] = None
            /\ purchases' = [purchases EXCEPT ![p] = row]
            /\ requests' = [requests EXCEPT ![q] = IdleRequest]
            /\ UNCHANGED <<courses, payments, offered>>
    BY <1>2 DEF InsertPurchase
  <2>2. row.course = s.course /\ row.amount = s.amount /\ <<s.course, s.amount>> \in offered
    BY DEF NewPurchase, InsertPurchase, At, HistoryInv, Remembers, PurchasePc
  <2>. HIDE DEF s, row
  <2>3. \A o \in PurchaseIds : purchases'[o] = IF o = p THEN row ELSE purchases[o]
    BY <2>1 DEF TypeInv, TypeOK
  <2>4. \A o \in RequestSlots : requests'[o] = IF o = q THEN IdleRequest ELSE requests[o]
    BY <2>1 DEF TypeInv, TypeOK
  <2>5. \A o \in PurchaseIds : PurchaseFits(o)'
    BY <2>1, <2>2, <2>3 DEF HistoryInv, PurchaseFits
  <2>6. ASSUME NEW r \in References PROVE PaymentFits(r)'
    <3>1. payments[r] # None => payments[r].purchase \in PurchaseIds \ {p}
      BY <2>1 DEF TypeInv, TypeOK, PaymentRow, RowsExist
    <3>. QED
      BY <2>1, <2>3, <3>1 DEF HistoryInv, PaymentFits
  <2>7. ASSUME NEW o \in RequestSlots PROVE Remembers(requests[o])'
    <3>1. requests[o].pc \in PaymentPc => requests[o].purchase \in PurchaseIds \ {p}
      BY <2>1 DEF TypeInv, RequestsTyped, RowsExist
    <3>2. IdleRequest.pc \notin PurchasePc \cup PaymentPc
      BY DEF IdleRequest, PurchasePc, PaymentPc
    <3>. QED
      BY <2>1, <2>3, <2>4, <3>1, <3>2 DEF HistoryInv, Remembers
  <2>. QED
    BY <2>1, <2>5, <2>6, <2>7 DEF HistoryInv, OffersKept
<1>. QED
  BY <1>1, <1>2

LEMMA InsertPaymentHistory ==
    ASSUME TypeInv, HistoryInv, NEW q \in RequestSlots, InsertPayment(q) PROVE HistoryInv'
<1>. DEFINE s == requests[q]
            row == NewPayment(s)
<1>1. CASE Answer(q)
  BY <1>1, IdleRemembers, ContinueHistory DEF Answer
<1>2. CASE ~Answer(q)
  <2>1. PICK r \in References :
            /\ PaymentsOfPurchase(s.purchase) = {} /\ payments[r] = None
            /\ payments' = [payments EXCEPT ![r] = row]
            /\ requests' = [requests EXCEPT ![q] = IdleRequest]
            /\ UNCHANGED <<courses, purchases, offered>>
    BY <1>2 DEF InsertPayment, PurchaseHasPayment
  <2>2. /\ row.purchase = s.purchase /\ row.amount = s.amount
        /\ s.amount = purchases[s.purchase].amount
    BY DEF NewPayment, InsertPayment, At, HistoryInv, Remembers, PaymentPc
  <2>. HIDE DEF s, row
  <2>3. \A o \in References : payments'[o] = IF o = r THEN row ELSE payments[o]
    BY <2>1 DEF TypeInv, TypeOK
  <2>4. \A o \in RequestSlots : requests'[o] = IF o = q THEN IdleRequest ELSE requests[o]
    BY <2>1 DEF TypeInv, TypeOK
  <2>5. \A o \in References : payments[o] # None => payments[o].purchase # s.purchase
    BY <2>1 DEF PaymentsOfPurchase
  <2>6. \A o \in References : PaymentFits(o)'
    BY <2>1, <2>2, <2>3, <2>5 DEF HistoryInv, PaymentFits
  <2>7. \A o \in RequestSlots : Remembers(requests[o])'
    <3>1. IdleRequest.pc \notin PurchasePc \cup PaymentPc
      BY DEF IdleRequest, PurchasePc, PaymentPc
    <3>. QED
      BY <2>1, <2>4, <3>1 DEF HistoryInv, Remembers
  <2>. QED
    BY <2>1, <2>6, <2>7 DEF HistoryInv, OffersKept, PurchaseFits
<1>. QED
  BY <1>1, <1>2

\* Administrators change prices and statuses, and delete courses without
\* purchases: what was offered stays on record.
LEMMA CourseHistory ==
    ASSUME TypeInv, HistoryInv,
           \/ \E q \in RequestSlots : DeleteCourse(q)
           \/ \E c \in Courses, status \in AdminStatuses, price \in Prices :
                 UpdateCourse(c, status, price)
    PROVE  HistoryInv'
<1>1. ASSUME NEW q \in RequestSlots, DeleteCourse(q), ~Answer(q) PROVE HistoryInv'
  <2>. DEFINE c == requests[q].course
  <2>1. /\ ~CourseIsReferenced(c) /\ courses' = [courses EXCEPT ![c] = None]
        /\ requests' = [requests EXCEPT ![q] = IdleRequest]
        /\ UNCHANGED <<purchases, payments, offered>>
    BY <1>1 DEF DeleteCourse
  <2>. HIDE DEF c
  <2>2. \A d \in Courses : courses'[d] = IF d = c THEN None ELSE courses[d]
    BY <2>1 DEF TypeInv, TypeOK
  <2>3. \A o \in RequestSlots : requests'[o] = IF o = q THEN IdleRequest ELSE requests[o]
    BY <2>1 DEF TypeInv, TypeOK
  <2>4. ASSUME NEW p \in PurchaseIds PROVE PurchaseFits(p)'
    <3>1. purchases[p] # None => purchases[p].course \in Courses \ {c}
      BY <2>1 DEF CourseIsReferenced, TypeInv, TypeOK, PurchaseRow
    <3>. QED
      BY <2>1, <2>2, <3>1 DEF HistoryInv, PurchaseFits
  <2>5. \A o \in RequestSlots : Remembers(requests[o])'
    <3>1. IdleRequest.pc \notin PurchasePc \cup PaymentPc
      BY DEF IdleRequest, PurchasePc, PaymentPc
    <3>. QED
      BY <2>1, <2>3, <3>1 DEF HistoryInv, Remembers
  <2>. QED
    BY <2>1, <2>2, <2>4, <2>5 DEF HistoryInv, OffersKept, PaymentFits
<1>2. ASSUME NEW c \in Courses, NEW status \in AdminStatuses, NEW price \in Prices,
             UpdateCourse(c, status, price)
      PROVE  HistoryInv'
  <2>. DEFINE row == [status |-> status, price |-> price]
  <2>1. /\ courses' = [courses EXCEPT ![c] = row] /\ offered' = offered \cup Offer(courses')
        /\ UNCHANGED <<purchases, payments, requests>>
    BY <1>2 DEF UpdateCourse
  <2>2. row # None
    BY StatusesAssumption, NoRowAssumption DEF CourseRow
  <2>. HIDE DEF row
  <2>3. \A d \in Courses : courses'[d] = IF d = c THEN row ELSE courses[d]
    BY <2>1 DEF TypeInv, TypeOK
  <2>4. OffersKept'
    BY <2>1 DEF OffersKept, Offer
  <2>5. \A p \in PurchaseIds : PurchaseFits(p)'
    BY <2>1, <2>2, <2>3 DEF HistoryInv, PurchaseFits, TypeInv, TypeOK, PurchaseRow
  <2>. QED
    BY <2>1, <2>4, <2>5 DEF HistoryInv, PaymentFits, Remembers
<1>3. ASSUME NEW q \in RequestSlots, Answer(q) PROVE HistoryInv'
  BY <1>3, IdleRemembers, ContinueHistory DEF Answer
<1>. QED
  BY <1>1, <1>2, <1>3

LEMMA CheckoutHistory == ASSUME TypeInv, HistoryInv, CheckoutNext PROVE HistoryInv'
  BY StartHistory, MoveHistory, InsertPurchaseHistory, InsertPaymentHistory, CourseHistory
     DEF CheckoutNext, PurchaseStep, PaymentStep

\* The commits of webhooks write statuses and transaction ids only.
LEMMA WebhookKeepsHistory ==
    ASSUME TypeInv, NEW h \in WebhookSlots, WebhookStep(h) PROVE HistoryKept
<1>. DEFINE s == webhooks[h]
            p == s.purchase
<1>1. UNCHANGED <<courses, offered, requests>>
  BY DEF WebhookStep, Lookup, LockPurchase, AlreadyProcessed, SettlePaid, SettleConflict,
         RecordFailed, RecordOther, Respond, ContinueWebhook, settlementRest, tables
<1>2. CASE UNCHANGED <<purchases, payments>>
  BY <1>1, <1>2 DEF HistoryKept
<1>3. CASE SettlePaid(h) \/ RecordFailed(h) \/ RecordOther(h)
  <2>1. s.pc \in Located
    BY <1>3 DEF SettlePaid, RecordFailed, RecordOther, WebhookAt, Located
  <2>2. /\ payments[s.ref] \in PaymentRow /\ purchases[p] \in PurchaseRow /\ p \in PurchaseIds
        /\ s.ref \in References
    BY <2>1, LocatedRows
  <2>3. payments' = [payments EXCEPT ![s.ref] = RecordedPayment(s)]
    BY <1>3 DEF SettlePaid, RecordFailed, RecordOther
  <2>4. /\ RecordedPayment(s).purchase = payments[s.ref].purchase
        /\ RecordedPayment(s).amount = payments[s.ref].amount
    BY <2>2 DEF RecordedPayment, PaymentRow
  <2>5. \A status : /\ [purchases[p] EXCEPT !.status = status].course = purchases[p].course
                    /\ [purchases[p] EXCEPT !.status = status].amount = purchases[p].amount
    BY <2>2 DEF PurchaseRow
  <2>6. \/ purchases' = purchases
        \/ \E status : purchases' = [purchases EXCEPT ![p] = [purchases[p] EXCEPT !.status = status]]
    BY <1>3 DEF SettlePaid, RecordFailed, RecordOther
  <2>7. \A o \in PurchaseIds :
            \/ purchases'[o] = purchases[o]
            \/ /\ purchases[o] # None /\ purchases'[o].course = purchases[o].course
               /\ purchases'[o].amount = purchases[o].amount
    <3>1. ASSUME NEW status,
                 purchases' = [purchases EXCEPT ![p] = [purchases[p] EXCEPT !.status = status]],
                 NEW o \in PurchaseIds
          PROVE  \/ purchases'[o] = purchases[o]
                 \/ /\ purchases[o] # None /\ purchases'[o].course = purchases[o].course
                    /\ purchases'[o].amount = purchases[o].amount
      <4>. DEFINE row == [purchases[p] EXCEPT !.status = status]
      <4>1. row.course = purchases[p].course /\ row.amount = purchases[p].amount
        BY <2>5
      <4>. HIDE DEF row
      <4>2. purchases' = [purchases EXCEPT ![p] = row]
        BY <3>1 DEF row
      <4>. HIDE DEF p
      <4>. QED
        BY <2>2, <4>1, <4>2, NoRowAssumption DEF TypeInv, TypeOK
    <3>. QED
      BY <2>6, <3>1
  <2>8. \A r \in References :
            \/ payments'[r] = payments[r]
            \/ /\ payments[r] # None /\ payments'[r].purchase = payments[r].purchase
               /\ payments'[r].amount = payments[r].amount
    BY <2>2, <2>3, <2>4, NoRowAssumption DEF TypeInv, TypeOK
  <2>. QED
    BY <1>1, <2>7, <2>8 DEF HistoryKept
<1>. QED
  BY <1>2, <1>3 DEF WebhookStep, Lookup, LockPurchase, AlreadyProcessed, SettleConflict, Respond,
                    ContinueWebhook, tables

LEMMA OtherStepsKeepHistory ==
    ASSUME TypeInv, ProviderNext \/ Crash \/ (\E p \in PurchaseIds : RunConfirmation(p))
                    \/ UNCHANGED vars
    PROVE  HistoryKept
  BY DEF ProviderNext, PayAtCheckout, PayElsewhere, UpdateTransaction, Deliver, providerRest,
         RunConfirmation, Crash, tables, provider, vars, HistoryKept

\* The history of purchases and payments is as HistoryInv says in every
\* reachable state.
THEOREM HistoryInvariant == Spec => []HistoryInv
<1>1. TypeInv /\ HistoryInv /\ [Next]_vars => HistoryInv'
  BY CheckoutHistory, WebhookKeepsHistory, OtherStepsKeepHistory, KeptHistory
     DEF Next, WebhookNext
<1>. QED
  BY <1>1, InitHistory, TypeInvariant, PTL DEF Spec

\* However many requests buy and pay while courses are deleted, a purchase
\* keeps its course and has one payment at most, for its own amount.
THEOREM HistoryIsConsistent == Spec => []HistoryFitsTogether
<1>1. ASSUME TypeInv, HistoryInv PROVE HistoryFitsTogether
  <2>1. ASSUME NEW p \in PurchaseIds PROVE Cardinality(PaymentsOfPurchase(p)) <= 1
    <3>1. CASE PaymentsOfPurchase(p) = {}
      BY <3>1, FS_EmptySet
    <3>2. CASE PaymentsOfPurchase(p) # {}
      <4>1. PICK r \in References : r \in PaymentsOfPurchase(p)
        BY <3>2 DEF PaymentsOfPurchase
      <4>2. PaymentsOfPurchase(p) = {r}
        BY <1>1, <4>1 DEF HistoryInv, PaymentFits, PaymentsOfPurchase
      <4>3. Cardinality({r}) = 1
        BY FS_Singleton
      <4>. QED
        BY <4>2, <4>3
    <3>. QED
      BY <3>1, <3>2
  <2>. QED
    BY <1>1, <2>1 DEF HistoryInv, PurchaseFits, PaymentFits, TypeInv, RowsExist, HistoryFitsTogether
<1>. QED
  BY <1>1, HistoryInvariant, TypeInvariant, PTL

\* A purchase costs what its course was once offered for, although a draft, a
\* new price or a deletion may come between the read and the INSERT.
THEOREM AmountsWereOffered == Spec => []AmountWasOffered
<1>1. HistoryInv => AmountWasOffered
  BY DEF HistoryInv, PurchaseFits, AmountWasOffered
<1>. QED
  BY <1>1, HistoryInvariant, PTL
=============================================================================
