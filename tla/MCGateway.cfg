SPECIFICATION FairSpec
CONSTANTS
    Providers = {"wompi", "fake"}
    References = {r1}
    Transactions = {t1}
    Prices <- MCPrices
    Timestamps <- MCTimestamps
    PropertyLists <- MCPropertyLists
    Digits <- MCDigits
    RawStatuses = {"APPROVED", "REFUNDED", "HELD"}
    MaxReports = 2
    MaxRotations = 1
    MaxFaults = 1
    None = None
 
PROPERTIES  EveryNoticeAnswered
CHECK_DEADLOCK FALSE
