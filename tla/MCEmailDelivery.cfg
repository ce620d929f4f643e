SPECIFICATION PoolFairSpec
CONSTANTS
    Mails = {m1, m2}
    MaxAttempts = 3
    None = None
    Webhooks = {w1}
    PoolSize = 2
INVARIANTS LogIsTruthful OutcomeLogged CopiesBounded
PROPERTIES ResentOnlyAfterDatabaseFailure EveryTaskEnds PaymentsGetThrough
CHECK_DEADLOCK FALSE
