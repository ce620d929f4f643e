------------------------------ MODULE Checkout ------------------------------
(***************************************************************************)
(* The requests of students and administrators before any money moves:     *)
(* PurchaseService.create_purchase, PaymentService.create_payment and the  *)
(* course updates and deletions of CourseService.  Each action is one      *)
(* await of the handler with the code that follows it, so the requests in  *)
(* flight interleave at the awaits.  A flush and its commit are one step:  *)
(* a concurrent writer of the same unique key waits for the commit.        *)
(***************************************************************************)
EXTENDS CommerceTables

checkoutRest == <<webhooks, provider, mail, crashes>>

\* The session changes, the tables do not.
Continue(q, s) == /\ requests' = [requests EXCEPT ![q] = s]
                  /\ UNCHANGED <<tables, checkoutRest>>

\* The request is answered (200, 4xx or 500 with a rollback): no row changes.
Answer(q) == Continue(q, IdleRequest)

\* A request of session state pc goes on to step next.
At(q, pc) == requests[q].pc = pc
-----------------------------------------------------------------------------
(* POST /purchases *)

\* create_purchase reads the course; an absent, archived or draft one is
\* refused without a trace. The price is frozen as read here.
ReadCourse(q, u, c) ==
    /\ At(q, "idle")
    /\ courses[c] # None
    /\ courses[c].status = "PUBLISHED"
    /\ Continue(q, [IdleRequest EXCEPT !.pc = "has_paid", !.user = u,
                        !.course = c, !.amount = courses[c].price])

\* ALREADY_PURCHASED, or on to the search for a pending purchase.
CheckAlreadyPurchased(q) ==
    LET s == requests[q]
    IN  /\ At(q, "has_paid")
        /\ \/ HasPaidPurchase(s.user, s.course) /\ Answer(q)
           \/ /\ ~HasPaidPurchase(s.user, s.course)
              /\ Continue(q, [s EXCEPT !.pc = "get_pending"])

\* The pending purchase is returned as it is, or a new one is built.
ReusePending(q) ==
    LET s == requests[q]
    IN  /\ At(q, "get_pending")
        /\ \/ PendingForUserCourse(s.user, s.course) # {} /\ Answer(q)
           \/ /\ PendingForUserCourse(s.user, s.course) = {}
              /\ Continue(q, [s EXCEPT !.pc = "insert_purchase"])

RepricedPurchase(s) == [user |-> s.user, course |-> s.course,
                        amount |-> courses[s.course].price, status |-> "PENDING"]
NewPurchase(s) == [user |-> s.user, course |-> s.course, amount |-> s.amount,
                   status |-> "PENDING"]

\* INSERT and commit; the foreign key fails when the course was deleted.
InsertPurchase(q) ==
    LET s == requests[q]
    IN  /\ At(q, "insert_purchase")
        /\ \/ courses[s.course] = None /\ Answer(q)
           \/ /\ courses[s.course] # None
              /\ \E p \in PurchaseIds :
                    /\ purchases[p] = None
                    /\ purchases' = [purchases EXCEPT ![p] = NewPurchase(s)]
              /\ requests' = [requests EXCEPT ![q] = IdleRequest]
              /\ UNCHANGED <<courses, payments, enrollments, offered, checkoutRest>>
-----------------------------------------------------------------------------
(* POST /payments/create *)

\* The purchase must belong to the caller and be PENDING.
ReadPurchase(q, u, p) ==
    /\ At(q, "idle")
    /\ purchases[p] # None
    /\ purchases[p].user = u
    /\ purchases[p].status = "PENDING"
    /\ Continue(q, [IdleRequest EXCEPT !.pc = "get_payment", !.purchase = p,
                        !.amount = purchases[p].amount])

\* The in-flight payment is returned as it is, or a new one is built.
ReusePayment(q) ==
    LET s == requests[q]
    IN  /\ At(q, "get_payment")
        /\ \/ PaymentsOfPurchase(s.purchase) # {} /\ Answer(q)
           \/ /\ PaymentsOfPurchase(s.purchase) = {}
              /\ Continue(q, [s EXCEPT !.pc = "insert_payment"])

\* WompiPaymentProvider.create_payment signs a URL: no transaction exists yet.
NewPayment(s) == [purchase |-> s.purchase, amount |-> s.amount,
                  status |-> "PENDING", tx |-> None]

\* INSERT under a fresh reference and commit; the unique purchase_id fails
\* when another request was faster.
InsertPayment(q) ==
    LET s == requests[q]
    IN  /\ At(q, "insert_payment")
        /\ \/ PurchaseHasPayment(s.purchase) /\ Answer(q)
           \/ /\ ~PurchaseHasPayment(s.purchase)
              /\ \E r \in References :
                    /\ payments[r] = None
                    /\ payments' = [payments EXCEPT ![r] = NewPayment(s)]
              /\ requests' = [requests EXCEPT ![q] = IdleRequest]
              /\ UNCHANGED <<courses, purchases, enrollments, offered, checkoutRest>>
-----------------------------------------------------------------------------
(* PUT and DELETE /admin/courses/{course_id} *)

\* What the public catalogue offers: the prices of PUBLISHED courses.
Offer(table) ==
    {<<c, table[c].price>> : c \in {d \in Courses : /\ table[d] # None
                                                    /\ table[d].status = "PUBLISHED"}}

\* update_course writes the columns of the payload, whatever they were.
UpdateCourse(c, status, price) ==
    /\ courses[c] # None
    /\ courses[c] # [status |-> status, price |-> price]
    /\ courses' = [courses EXCEPT ![c] = [status |-> status, price |-> price]]
    /\ offered' = offered \cup Offer(courses')
    /\ UNCHANGED <<purchases, payments, enrollments, requests, checkoutRest>>

\* delete_course counts the purchases of the course: COURSE_HAS_PURCHASES.
CountPurchases(q, c) ==
    /\ At(q, "idle")
    /\ courses[c] # None
    /\ ~\E p \in PurchaseIds : purchases[p] # None /\ purchases[p].course = c
    /\ Continue(q, [IdleRequest EXCEPT !.pc = "delete_course", !.course = c])

\* DELETE and commit; a purchase that came in since then makes the flush fail
\* (its course_id can neither be nullified nor left dangling).
DeleteCourse(q) ==
    LET c == requests[q].course
    IN  /\ At(q, "delete_course")
        /\ \/ CourseIsReferenced(c) /\ Answer(q)
           \/ /\ ~CourseIsReferenced(c)
              /\ courses' = [courses EXCEPT ![c] = None]
              /\ requests' = [requests EXCEPT ![q] = IdleRequest]
              /\ UNCHANGED <<purchases, payments, enrollments, offered, checkoutRest>>
-----------------------------------------------------------------------------
PurchaseStep(q) == CheckAlreadyPurchased(q) \/ ReusePending(q) \/ InsertPurchase(q)
PaymentStep(q)  == ReusePayment(q) \/ InsertPayment(q)

StartRequest(q) ==
    \/ \E u \in Users, c \in Courses : ReadCourse(q, u, c)
    \/ \E u \in Users, p \in PurchaseIds : ReadPurchase(q, u, p)
    \/ \E c \in Courses : CountPurchases(q, c)

CheckoutNext ==
    \/ \E q \in RequestSlots : \/ StartRequest(q)
                               \/ PurchaseStep(q)
                               \/ PaymentStep(q)
                               \/ DeleteCourse(q)
    \/ \E c \in Courses, status \in AdminStatuses, price \in Prices :
          UpdateCourse(c, status, price)
=============================================================================
