SPECIFICATION Spec
CONSTANTS
    Users = {u1}
    Courses = {c1}
    Prices = {100, 200}
    PurchaseIds = {p1, p2}
    References = {r1, r2}
    Transactions = {t1}
    RequestSlots = {q1, q2}
    WebhookSlots = {h1}
    AdminStatuses = {"DRAFT", "PUBLISHED", "ARCHIVED"}
    ProviderStatuses = {"APPROVED"}
    MaxDuplicates = 0
    MaxCrashes = 1
    None = None
SYMMETRY Symmetry
INVARIANTS
    HistoryFitsTogether
    AmountWasOffered
CHECK_DEADLOCK FALSE
