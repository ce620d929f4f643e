------------------------------ MODULE Commerce ------------------------------
(***************************************************************************)
(* The commerce backend as a whole: checkout requests and webhook          *)
(* deliveries interleave over the same tables, the payment provider        *)
(* (external) settles transactions and delivers its events at least once   *)
(* and in any order, confirmations are background tasks in memory, and the *)
(* API process may crash between any two steps.                            *)
(***************************************************************************)
EXTENDS Checkout, Settlement

Init ==
    /\ courses \in [Courses -> [status : {"PUBLISHED"}, price : Prices]]
    /\ purchases = [p \in PurchaseIds |-> None]
    /\ payments = [r \in References |-> None]
    /\ enrollments = [p \in PurchaseIds |-> None]
    /\ offered = Offer(courses)
    /\ requests = [q \in RequestSlots |-> IdleRequest]
    /\ webhooks = [h \in WebhookSlots |-> IdleWebhook]
    /\ txRef = [t \in Transactions |-> None]
    /\ issued = {} /\ acked = {} /\ refused = {}
    /\ duplicates = 0 /\ crashes = 0
    /\ outbox = [p \in PurchaseIds |-> 0]
    /\ confirmed = [p \in PurchaseIds |-> 0]
-----------------------------------------------------------------------------
(* The payment provider (external).                                        *)

StatusesOf(t) == {e.status : e \in {f \in issued : f.tx = t}}

providerRest == <<tables, requests, webhooks, acked, refused, duplicates,
                  mail, crashes>>

\* A customer pays at the checkout URL of a committed payment. After a
\* declined card the customer may pay the same reference again.
PayAtCheckout(t, r, status) ==
    /\ payments[r] # None
    /\ StatusesOf(t) = {} /\ status # "VOIDED"
    /\ txRef' = [txRef EXCEPT ![t] = r]
    /\ issued' = issued \cup {[tx |-> t, status |-> status]}
    /\ UNCHANGED providerRest

\* A transaction of the merchant account that did not start at our checkout.
PayElsewhere(t, status) ==
    /\ StatusesOf(t) = {} /\ status # "VOIDED"
    /\ issued' = issued \cup {[tx |-> t, status |-> status]}
    /\ UNCHANGED <<txRef, providerRest>>

\* A pending transaction is decided; an approved one may be voided.
UpdateTransaction(t, status) ==
    /\ \/ StatusesOf(t) = {"PENDING"} /\ status \in {"APPROVED", "DECLINED", "ERROR"}
       \/ "APPROVED" \in StatusesOf(t) /\ status = "VOIDED"
    /\ issued' = issued \cup {[tx |-> t, status |-> status]}
    /\ UNCHANGED <<txRef, providerRest>>

\* The events this provider can report.
Reportable == [tx : Transactions, status : ProviderStatuses]

InFlight(e) == \E h \in WebhookSlots : webhooks[h].event = e

\* An event is delivered until it is answered 200, and sometimes again.
Deliver(h, e) ==
    /\ WebhookAt(h, "idle")
    /\ \/ e \notin acked /\ ~InFlight(e) /\ UNCHANGED duplicates
       \/ /\ e \in acked \/ InFlight(e)
          /\ duplicates < MaxDuplicates
          /\ duplicates' = duplicates + 1
    /\ webhooks' = [webhooks EXCEPT ![h] = [IdleWebhook EXCEPT !.pc = "lookup",
                                                               !.event = e]]
    /\ UNCHANGED <<tables, requests, txRef, issued, acked, refused, mail, crashes>>

ProviderNext ==
    \/ \E t \in Transactions, status \in ProviderStatuses :
          \/ \E r \in References : PayAtCheckout(t, r, status)
          \/ PayElsewhere(t, status)
          \/ UpdateTransaction(t, status)
    \/ \E h \in WebhookSlots, e \in issued : Deliver(h, e)
-----------------------------------------------------------------------------
(* The API process *)

\* A background task runs after its response: send_email_background.
RunConfirmation(p) ==
    /\ outbox[p] > 0
    /\ outbox' = [outbox EXCEPT ![p] = @ - 1]
    /\ confirmed' = [confirmed EXCEPT ![p] = @ + 1]
    /\ UNCHANGED <<tables, requests, webhooks, provider, crashes>>

\* The process dies: open transactions roll back, the connections free their
\* row locks, scheduled background tasks are gone.
Crash ==
    /\ crashes < MaxCrashes
    /\ crashes' = crashes + 1
    /\ requests' = [q \in RequestSlots |-> IdleRequest]
    /\ webhooks' = [h \in WebhookSlots |-> IdleWebhook]
    /\ outbox' = [p \in PurchaseIds |-> 0]
    /\ UNCHANGED <<tables, provider, confirmed>>

WebhookNext == \E h \in WebhookSlots : WebhookStep(h)

Next == \/ CheckoutNext
        \/ WebhookNext
        \/ ProviderNext
        \/ \E p \in PurchaseIds : RunConfirmation(p)
        \/ Crash

Spec == Init /\ [][Next]_vars

\* The event loop runs every handler that can run, and the provider goes on
\* delivering an event it has no 200 for.
Redeliver(e) == /\ e \in issued \ acked
                /\ ~InFlight(e)
                /\ \E h \in WebhookSlots : Deliver(h, e)

Fairness == /\ \A h \in WebhookSlots : WF_vars(WebhookStep(h))
            /\ \A e \in Reportable : WF_vars(Redeliver(e))
            /\ \A p \in PurchaseIds : WF_vars(RunConfirmation(p))

FairSpec == Spec /\ Fairness
-----------------------------------------------------------------------------
(* Properties *)

\* Every variable holds rows, sessions and counters of its type.
TypeOK ==
    /\ courses \in [Courses -> CourseRow \cup {None}]
    /\ purchases \in [PurchaseIds -> PurchaseRow \cup {None}]
    /\ payments \in [References -> PaymentRow \cup {None}]
    /\ enrollments \in [PurchaseIds -> EnrollmentRow \cup {None}]
    /\ offered \subseteq Courses \X Prices
    /\ requests \in [RequestSlots -> RequestSession]
    /\ webhooks \in [WebhookSlots -> WebhookSession]
    /\ txRef \in [Transactions -> References \cup {None}]
    /\ issued \subseteq Event /\ acked \subseteq issued /\ refused \subseteq issued
    /\ duplicates \in 0 .. MaxDuplicates
    /\ crashes \in 0 .. MaxCrashes
    /\ outbox \in [PurchaseIds -> Nat]
    /\ confirmed \in [PurchaseIds -> Nat]

\* A PAID purchase has its ACTIVE enrollment, of the same user in the same
\* course, at every commit (rule 8): the webhook settles both or neither,
\* whatever interleaves or crashes.
PaidHasEnrollment ==
    \A p \in PurchaseIds :
        purchases[p] # None /\ purchases[p].status = "PAID" =>
            enrollments[p] = [user |-> purchases[p].user,
                              course |-> purchases[p].course, status |-> "ACTIVE"]

\* A user has at most one ACTIVE enrollment in a course, although several of
\* the user's purchases of that course may be approved.
OneActiveEnrollment ==
    \A p, o \in PurchaseIds :
        /\ enrollments[p] # None /\ enrollments[p].status = "ACTIVE"
        /\ enrollments[o] # None /\ enrollments[o].status = "ACTIVE"
        /\ enrollments[p].user = enrollments[o].user
        /\ enrollments[p].course = enrollments[o].course
        => p = o

Approved(t) == [tx |-> t, status |-> "APPROVED"]

\* Access was paid for (rules 5 and 6): an enrollment exists only if the
\* provider approved a transaction on the reference of a payment of that
\* purchase; no request of a student leads there.
AccessWasPaidFor ==
    \A p \in PurchaseIds : enrollments[p] # None =>
        \E t \in Transactions, r \in References :
            /\ Approved(t) \in issued /\ txRef[t] = r
            /\ payments[r] # None /\ payments[r].purchase = p

\* The provider is never told 200 for an approved transaction of ours whose
\* purchase has no enrollment: an approval is not lost to a crash, a
\* rollback or a reordering between its delivery and its answer.
AckedApprovalGrantsAccess ==
    \A t \in Transactions :
        Approved(t) \in acked /\ txRef[t] # None =>
            enrollments[payments[txRef[t]].purchase] # None

\* The financial history fits together, however many requests buy and pay at
\* once while the course is being deleted: a purchase keeps its course, and has
\* at most one payment, for the purchase's own amount.
HistoryFitsTogether ==
    /\ \A p \in PurchaseIds : purchases[p] # None =>
           /\ courses[purchases[p].course] # None
           /\ Cardinality(PaymentsOfPurchase(p)) <= 1
    /\ \A r \in References : payments[r] # None =>
           /\ purchases[payments[r].purchase] # None
           /\ payments[r].amount = purchases[payments[r].purchase].amount

\* The price of a purchase is one its course was PUBLISHED at (rules 3, 4), not
\* that of a draft, although the course may change or vanish before the INSERT.
AmountWasOffered ==
    \A p \in PurchaseIds : purchases[p] # None =>
        <<purchases[p].course, purchases[p].amount>> \in offered

\* A confirmation goes out only for committed access: no response of a rolled
\* back settlement schedules one.
ConfirmationNeedsAccess ==
    \A p \in PurchaseIds : outbox[p] + confirmed[p] > 0 => enrollments[p] # None

\* Rule 2: an ACTIVE enrollment, hence its private links, needs a PAID purchase.
AccessNeedsPaid ==
    \A p \in PurchaseIds :
        enrollments[p] # None /\ enrollments[p].status = "ACTIVE" =>
            purchases[p].status = "PAID"

\* Rule 7: an approved purchase is confirmed by one email, not more.
ConfirmedAtMostOnce == \A p \in PurchaseIds : confirmed[p] <= 1

\* create_purchase keeps one pending purchase per user and course.  Not kept
\* with two requests at a time.
OnePendingPurchase ==
    \A u \in Users, c \in Courses : Cardinality(PendingForUserCourse(u, c)) <= 1

\* Every authenticated event is answered 200, processed or ignored.
AuthenticatedEventsAccepted == refused = {}

\* The purchases that the provider approved, as far as these events say.
ApprovedIn(events) ==
    {p \in PurchaseIds : \E t \in Transactions :
        /\ Approved(t) \in events /\ txRef[t] # None
        /\ payments[txRef[t]].purchase = p}

Ledger == INSTANCE AccessLedger WITH
    Purchases <- PurchaseIds,
    Terms     <- PurchaseTerms,
    terms     <- [p \in PurchaseIds |->
                     IF purchases[p] = None THEN None
                     ELSE [user   |-> purchases[p].user,
                           course |-> purchases[p].course,
                           amount |-> purchases[p].amount]],
    approved  <- ApprovedIn(issued),
    granted   <- {p \in PurchaseIds : enrollments[p] # None},
    settled   <- ApprovedIn(acked),
    told      <- {p \in PurchaseIds : confirmed[p] > 0}

\* Sessions with stale reads, lost answers and repeated events keep the plain
\* promise of the ledger: terms frozen (rules 3 and 4), access for approved
\* money only, once, for good, and before it is acknowledged or confirmed.
ImplementsLedger == Ledger!Spec

\* A PAID purchase stays PAID: no late, repeated or reordered event undoes it.
PaidIsFinal ==
    [][\A p \in PurchaseIds :
          purchases[p] # None /\ purchases[p].status = "PAID" =>
              purchases'[p] = purchases[p]]_vars

\* Every approval of a transaction of ours ends in the student's access.
ApprovalEndsInAccess ==
    \A t \in Transactions :
        (Approved(t) \in issued /\ txRef[t] # None)
            ~> (txRef[t] # None /\ enrollments[payments[txRef[t]].purchase] # None)

\* Every event the provider reports is answered 200 in the end.
EventsAreAnswered == \A e \in Reportable : e \in issued ~> e \in acked
=============================================================================
