CONSTANTS
    deals = deals
    deal_associations = deal_associations
    ObjectTypes = {deals}
    Pages = 2
    w1 = w1
    w2 = w2
    Workers = {w1, w2}
    h1 = h1
    Handlers = {h1}
    Omitted = Omitted
    NoTask = NoTask
    Requests <- OneType
    CallerHasLoop = {TRUE}
    MaxFaults = 0
    r1 = r1
    NormRequests = {r1}
    NormOptions <- SaveOnly
    Tables = {deals, deal_associations}
    TablesOf <- DealTables
    MaxAsked = 2
    Expired = Expired
SPECIFICATION RacesSpec
INVARIANTS
    SavedTablesStand
SYMMETRY Symmetry
CHECK_DEADLOCK FALSE
