SPECIFICATION Spec
CONSTANTS
    Users = {u1}
    Courses = {c1}
    Prices = {100}
    PurchaseIds = {p1, p2}
    References = {r1, r2}
    Transactions = {t1, t2}
    RequestSlots = {q1}
    WebhookSlots = {h1}
    AdminStatuses = {}
    ProviderStatuses = {"PENDING", "APPROVED", "DECLINED", "VOIDED"}
    MaxDuplicates = 1
    MaxCrashes = 1
    None = None
SYMMETRY Symmetry
INVARIANTS
    AccessNeedsPaid
    ConfirmedAtMostOnce
PROPERTY PaidIsFinal
CHECK_DEADLOCK FALSE
