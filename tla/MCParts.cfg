CONSTANTS
    MaxRetries = 3
    HasDb = TRUE
    n1 = n1
    n2 = n2
    n3 = n3
    Nonces = {n1, n2, n3}
    MaxAge = 1
    MaxCache = 2
    HasEngineerKey = TRUE
    MaxNow = 2
    NotANumber = NotANumber
    Never = Never
    Margin = 2
    Assumed = 4
    Latency = 1
    Grants = {1, 4}
    MaxTokens = 2
    MaxClock = 6
    Unknown = Unknown
    NoToken = NoToken
    PageSize = 2
    MaxRows = 5
    MaxDeletes = 1
    RawRecords <- Record
    MaxRecords = 2
    Missing = Missing
    Payloads <- Payload
    LongTexts = {"p"}
    SensitiveKeys = {"token"}
    PayloadCap = 3
    Redacted = Redacted
SPECIFICATION PartsSpec
INVARIANTS
    PartsTypeOK
    RaisesOnlyWhenSpent
    NoCallAfterTheLast
    DeadLetterTellsTheError
    CacheInOrder
    CachedTokenHasLife
    SuppliedIsRetired
    SteadyRowsAreShown
    NoEmptyPage
    RowPerRecord
    LinksResolve
    NothingSensitiveStored
PROPERTIES
    EveryCallEnds
    SignedRequestOnce
CHECK_DEADLOCK FALSE
