CONSTANTS
    contacts = contacts
    deals = deals
    ObjectTypes = {contacts}
    Pages = 2
    w1 = w1
    w2 = w2
    Workers = {w1, w2}
    h1 = h1
    Handlers = {h1}
    Omitted = Omitted
    NoTask = NoTask
    Requests <- OneType
    CallerHasLoop = {TRUE, FALSE}
    MaxFaults = 1
SPECIFICATION Spec
INVARIANTS
    TypeOK
    NoSkippedPage
    CompletedCovers
    RawIsSuffix
    RunningHasHeartbeat
    NoOrphanCheckpoint
SYMMETRY Symmetry
CHECK_DEADLOCK FALSE
