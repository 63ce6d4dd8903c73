SPECIFICATION Spec
CONSTANTS
    m1 = m1
    m2 = m2
    m3 = m3
    m4 = m4
    s1 = s1
    s2 = s2
    Mos = {m1, m2, m3, m4}
    Structs = {s1, s2}
    Owner <- MCOwner
    Runtime = {m3, s2}
    Unnotified = {m4}
    Present = {m1, m3, m4, s1}
    Ccbs = {1, 2}
    maxSAMemoryForCMEvents = 5
    Amounts = {2}
    MaxNotifications = 3
    MaxStarts = 2
INVARIANTS
    TypeOK
    EventTellsChanges
    EventTypesFit
    NoPhantomMemory
    DiscardedNotCached
    CcbLeavesNothing
    FilterMeansSubscribed
PROPERTIES
    PromiseKept
CHECK_DEADLOCK FALSE
