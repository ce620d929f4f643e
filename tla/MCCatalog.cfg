SPECIFICATION Spec
CONSTANTS
    CourseIds = {c1, c2}
    Seed = seed
    Removed = removed
    First = n1
    Second = n2
    Third = n3
    Fourth = n4
    BaseSlugs = {seed, removed}
    FreshSlugs = {f1}
    SeedSlugs = {seed}
    RemovedSlugs = {removed}
    Names = {n1, n2, n3, n4}
    SeedNames = {n1, n2}
    Requested = {n1, n3, n4}
    Admins = {a1}
    Boots = {b1, b2}
    MaxBoots = 2
    None = None
    Stem <- MCStem
    Lettered <- MCLettered
    Position <- MCPosition
    Drafts <- MCDrafts
    Edits <- MCEdits
SYMMETRY Symmetric
INVARIANTS
    TypeOK
    SlugsUnique
    BoughtCoursesStay
    SyncedCatalogIsComplete
    UnhinderedBootCommits
    BootsNeverDeadlock
PROPERTY BootIsIdempotent
CHECK_DEADLOCK FALSE
