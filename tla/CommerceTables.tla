--------------------------- MODULE CommerceTables ---------------------------
(***************************************************************************)
(* The rows, sessions and queries that the commerce modules share: the     *)
(* PostgreSQL tables of migrations/versions/0001_initial_schema.py as the  *)
(* ORM classes of app/models see them, the queries of app/repositories as  *)
(* operators over the committed rows, and the SQLAlchemy sessions of the   *)
(* requests that are between two awaits.                                   *)
(*                                                                         *)
(* PostgreSQL runs at READ COMMITTED: each query of a session sees what    *)
(* had been committed when the query ran, so a query is an operator over   *)
(* the current tables and what a session remembers between two queries is  *)
(* a local variable of the session, possibly stale.                        *)
(***************************************************************************)
EXTENDS Naturals, FiniteSets

CONSTANTS
    Users,             \* students
    Courses,           \* course ids
    Prices,            \* amounts an administrator may set
    PurchaseIds,       \* uuids of purchase rows
    References,        \* external references sent to the provider (sev-<uuid>)
    Transactions,      \* transaction ids of the provider
    RequestSlots,      \* concurrent API requests of students and administrators
    WebhookSlots,      \* concurrent webhook deliveries
    AdminStatuses,     \* the statuses administrators set on a course
    ProviderStatuses,  \* the statuses this provider reports
    None,              \* NULL, no row
    MaxDuplicates,     \* bound on needless redeliveries of an event
    MaxCrashes         \* bound on crashes of the API process

CourseStatus   == {"DRAFT", "PUBLISHED", "ARCHIVED"}
PurchaseStatus == {"PENDING", "PAID", "FAILED", "CANCELLED", "REFUNDED"}
PaymentStatus  == {"PENDING", "APPROVED", "DECLINED", "ERROR", "VOIDED", "REFUNDED"}
EnrollmentStatus == {"ACTIVE", "CANCELLED", "COMPLETED"}

CourseRow   == [status : CourseStatus, price : Prices]
PurchaseRow == [user : Users, course : Courses, amount : Prices,
                status : PurchaseStatus]
PaymentRow  == [purchase : PurchaseIds, amount : Prices,
                status : PaymentStatus, tx : Transactions \cup {None}]
PurchaseTerms == [user : Users, course : Courses, amount : Prices]
EnrollmentRow == [user : Users, course : Courses, status : EnrollmentStatus]

\* A normalized webhook event; its reference is that of its transaction.
Event == [tx : Transactions, status : PaymentStatus]

ASSUME BoundsAssumption == MaxDuplicates \in Nat /\ MaxCrashes \in Nat
ASSUME StatusesAssumption ==
    AdminStatuses \subseteq CourseStatus /\ ProviderStatuses \subseteq PaymentStatus
ASSUME NoneAssumption ==
    /\ None \notin Users /\ None \notin Courses /\ None \notin Prices
    /\ None \notin PurchaseIds /\ None \notin References
    /\ None \notin Transactions /\ None \notin PurchaseStatus
ASSUME NoRowAssumption ==
    /\ None \notin CourseRow /\ None \notin PurchaseRow
    /\ None \notin PaymentRow /\ None \notin EnrollmentRow
    /\ None \notin Event /\ None \notin PurchaseTerms

VARIABLES
    courses, purchases, payments, enrollments,  \* committed rows, by primary key
    offered,    \* history: the <<course, price>> pairs ever PUBLISHED
    requests,   \* sessions of API requests
    webhooks,   \* sessions of webhook deliveries
    txRef,      \* provider: the reference each transaction pays
    issued,     \* provider: the events it has to deliver
    acked,      \* provider: the events answered 200
    refused,    \* history: the authenticated events answered 500
    duplicates, \* number of needless redeliveries so far
    outbox,     \* confirmations scheduled as background tasks, in memory
    confirmed,  \* history: confirmation tasks that ran, per purchase
    crashes     \* number of crashes so far

tables   == <<courses, purchases, payments, enrollments, offered>>
provider == <<txRef, issued, acked, refused, duplicates>>
mail     == <<outbox, confirmed>>
vars     == <<tables, requests, webhooks, provider, mail, crashes>>
-----------------------------------------------------------------------------
(* Sessions. A slot that serves nothing holds the idle session.            *)

RequestPc == {"idle", "has_paid", "get_pending", "insert_purchase",
              "get_payment", "insert_payment", "delete_course"}
RequestSession ==
    [pc : RequestPc, user : Users \cup {None}, course : Courses \cup {None},
     purchase : PurchaseIds \cup {None}, amount : Prices \cup {None}]
IdleRequest == [pc |-> "idle", user |-> None, course |-> None,
                purchase |-> None, amount |-> None]

\* purchaseSeen, statusSeen and txSeen are the attributes as the identity map
\* of the session loaded them; the lock query does not reload them.
WebhookPc == {"idle", "lookup", "lock", "locked", "respond"}
WebhookSession ==
    [pc : WebhookPc, event : Event \cup {None},
     ref : References \cup {None}, purchase : PurchaseIds \cup {None},
     purchaseSeen : PurchaseStatus \cup {None},
     statusSeen : PaymentStatus \cup {None},
     txSeen : Transactions \cup {None}, confirm : BOOLEAN]
IdleWebhook == [pc |-> "idle", event |-> None, ref |-> None, purchase |-> None,
                purchaseSeen |-> None, statusSeen |-> None, txSeen |-> None,
                confirm |-> FALSE]
-----------------------------------------------------------------------------
(* PurchaseRepository *)

HasPaidPurchase(u, c) ==
    \E p \in PurchaseIds : /\ purchases[p] # None
                           /\ purchases[p].user = u /\ purchases[p].course = c
                           /\ purchases[p].status = "PAID"

PendingForUserCourse(u, c) ==
    {p \in PurchaseIds : /\ purchases[p] # None
                         /\ purchases[p].user = u /\ purchases[p].course = c
                         /\ purchases[p].status = "PENDING"}

(* PaymentRepository *)

PaymentsOfPurchase(p) ==
    {r \in References : payments[r] # None /\ payments[r].purchase = p}

PaymentsByReference(r) == {s \in References : s = r /\ payments[s] # None}

PaymentsByTransactionId(t) ==
    {r \in References : payments[r] # None /\ payments[r].tx = t}

(* Constraints of the schema: what makes a flush raise IntegrityError.     *)

\* uq_active_enrollment_user_course: the partial unique index.
HasActiveEnrollment(u, c) ==
    \E p \in PurchaseIds : /\ enrollments[p] # None
                           /\ enrollments[p].user = u /\ enrollments[p].course = c
                           /\ enrollments[p].status = "ACTIVE"

\* payments.purchase_id is unique.
UncheckedPurchaseHasPayment(p) == FALSE
PurchaseHasPayment(p) == PaymentsOfPurchase(p) # {}

\* purchases.course_id and enrollments.course_id restrict the course's delete.
CourseIsReferenced(c) ==
    \E p \in PurchaseIds : \/ purchases[p] # None /\ purchases[p].course = c
                           \/ enrollments[p] # None /\ enrollments[p].course = c
=============================================================================
