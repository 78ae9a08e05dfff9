CONSTANTS
    contacts = contacts
    deals = deals
    ObjectTypes = {contacts, deals}
    Pages = 1
    w1 = w1
    w2 = w2
    Workers = {w1, w2}
    h1 = h1
    h2 = h2
    Handlers = {h1, h2}
    Omitted = Omitted
    NoTask = NoTask
    Requests <- TwoTypes
    CallerHasLoop = {TRUE, FALSE}
    MaxFaults = 0
SPECIFICATION RacesSpec
INVARIANTS
    CompletedCovers
    OverrunBounded
    RegistryIsLive
    ActiveHasWorker
PROPERTIES
    FollowsUnlocked
    TerminalSettles
SYMMETRY Symmetry
CHECK_DEADLOCK FALSE
