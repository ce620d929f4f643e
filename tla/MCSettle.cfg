SPECIFICATION Spec
CONSTANTS
    Users = {u1}
    Courses = {c1}
    Prices = {100}
    PurchaseIds = {p1, p2}
    References = {r1, r2}
    Transactions = {t1, t2, t3}
    RequestSlots = {q1}
    WebhookSlots = {h1, h2}
    AdminStatuses = {}
    ProviderStatuses = {"APPROVED", "DECLINED"}
    MaxDuplicates = 0
    MaxCrashes = 1
    None = None
SYMMETRY Symmetry
INVARIANTS
    PaidHasEnrollment
    AccessWasPaidFor
    AckedApprovalGrantsAccess
PROPERTY ImplementsLedger
CHECK_DEADLOCK FALSE
