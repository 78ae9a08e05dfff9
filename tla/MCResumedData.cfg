CONSTANTS
    contacts = contacts
    deals = deals
    ObjectTypes = {contacts}
    Pages = 2
    w1 = w1
    w2 = w2
    Workers = {w1, w2}
    h1 = h1
    Handlers = {h1}
    Omitted = Omitted
    NoTask = NoTask
    Requests <- OneType
    CallerHasLoop = {TRUE}
    MaxFaults = 0
SPECIFICATION Spec
INVARIANTS
    CompletedDataIsWhole
CHECK_DEADLOCK FALSE
