SPECIFICATION FairSpec
CONSTANTS
    Users = {u1}
    Courses = {c1}
    Prices = {100}
    PurchaseIds = {p1}
    References = {r1}
    Transactions = {t1, t2}
    RequestSlots = {q1}
    WebhookSlots = {h1, h2}
    AdminStatuses = {}
    ProviderStatuses = {"APPROVED", "DECLINED"}
    MaxDuplicates = 1
    MaxCrashes = 1
    None = None
PROPERTIES
    ApprovalEndsInAccess
    EventsAreAnswered
CHECK_DEADLOCK FALSE
