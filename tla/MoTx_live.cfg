\* One transaction while IMM may fail for ever.
SPECIFICATION FairSpec
CONSTANTS
    t1 = t1
    t2 = t2
    Top = Top
    Child = Child
    Tx = {t1}
    Dns = {Top, Child}
    Root = Root
    Parent <- MCParent
    NoOwner = NoOwner
    Stale = Stale
    Foreign = Foreign
    LockMo = TRUE
    ExplicitPrepare = FALSE
    Retries = 2
    MaxEdits = 2
    MaxValidates = 1
    MaxFaults = 0
    FaultsForever = TRUE
INVARIANT
    TypeOK
PROPERTIES
    CallsReturn
CHECK_DEADLOCK FALSE
