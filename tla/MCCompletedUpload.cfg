CONSTANTS
    deals = deals
    deal_associations = deal_associations
    ObjectTypes = {deals}
    Pages = 1
    w1 = w1
    w2 = w2
    Workers = {w1}
    h1 = h1
    Handlers = {h1}
    Omitted = Omitted
    NoTask = NoTask
    Requests <- OneType
    CallerHasLoop = {TRUE}
    MaxFaults = 0
    r1 = r1
    NormRequests = {r1}
    NormOptions <- SavingOptions
    Tables = {deals, deal_associations}
    TablesOf <- DealTables
    MaxAsked = 1
    Expired = Expired
SPECIFICATION NSpec
PROPERTIES
    CompletedScanIsUploaded
CHECK_DEADLOCK FALSE
