\* Two transactions; the master validates before it prepares.
SPECIFICATION Spec
CONSTANTS
    t1 = t1
    t2 = t2
    Top = Top
    Child = Child
    Tx = {t1, t2}
    Dns = {Top, Child}
    Root = Root
    Parent <- MCParent
    NoOwner = NoOwner
    Stale = Stale
    Foreign = Foreign
    LockMo = FALSE
    ExplicitPrepare = FALSE
    Retries = 1
    MaxEdits = 2
    MaxValidates = 1
    MaxFaults = 1
    FaultsForever = FALSE
SYMMETRY TxSymmetry
INVARIANTS
    CommitIsComplete
    AppliedAtMostOnce
PROPERTIES
    OwnershipNotStolen
    TransactionsAtomic
CHECK_DEADLOCK FALSE
