\* The master prepares without validating first.
SPECIFICATION Spec
CONSTANTS
    t1 = t1
    t2 = t2
    Top = Top
    Child = Child
    Tx = {t1}
    Dns = {Top, Child}
    Root = Root
    Parent <- MCParent
    NoOwner = NoOwner
    Stale = Stale
    Foreign = Foreign
    LockMo = FALSE
    ExplicitPrepare = TRUE
    Retries = 1
    MaxEdits = 2
    MaxValidates = 1
    MaxFaults = 0
    FaultsForever = FALSE
INVARIANT CommitIsComplete
CHECK_DEADLOCK FALSE
