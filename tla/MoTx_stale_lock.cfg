\* A deletion that IMM aborts gives back locks taken before it.
SPECIFICATION Spec
CONSTANTS
    t1 = t1
    t2 = t2
    Top = Top
    Child = Child
    Tx = {t1}
    Dns = {Top, Child}
    Root = Root
    Parent <- MCParent
    NoOwner = NoOwner
    Stale = Stale
    Foreign = Foreign
    LockMo = FALSE
    ExplicitPrepare = FALSE
    Retries = 1
    MaxEdits = 2
    MaxValidates = 1
    MaxFaults = 1
    FaultsForever = FALSE
INVARIANT OwnershipIsReal
CHECK_DEADLOCK FALSE
