SPECIFICATION FairSpec
CONSTANTS
    curso = curso
    taller = taller
    sample = sample
    CatalogSlugs = {curso, taller}
    SampleSlug = sample
    PriceList <- MCPriceList
    OldPrice <- MCOldPrice
    NewPrice <- MCNewPrice
    TitleRank <- MCTitleRank
    AdminPrices = {25}
    Containers = {c1, c2}
    Console = console
    Sorts = {"price", "-created_at"}
    Limits = {1, 2}
    MaxOperations = 1
    MaxFailures = 1
    None = None
INVARIANTS PricesFollowVersion WalkIsExact
PROPERTIES OnlyMigrationsReprice GrowthSkipsNothing RolloutCompletes CatalogueArrives
CHECK_DEADLOCK FALSE
