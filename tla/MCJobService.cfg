CONSTANTS
    s1 = s1
    s2 = s2
    Scans = {s1, s2}
    contacts = contacts
    deals = deals
    ObjectTypes = {contacts}
    p1 = p1
    Positions = {p1}
    Null = Null
    MaxTime = 2
SPECIFICATION Spec
INVARIANTS
    TypeOK
    EveryRunIsDetectable
    StampsMatchOutcome
    DurationIsDefined
    NoOrphanCheckpoint
PROPERTIES
    StartIsKept
    FollowsLifecycle
