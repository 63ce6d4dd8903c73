SPECIFICATION Spec
CONSTANTS
    moc = moc
    obj1 = obj1
    obj2 = obj2
    attr = attr
    comp1 = comp1
    comp2 = comp2
    None = None
    Regs <- MCRegs
    ClassOf <- MCClassOf
    CtClasses <- MCCtClasses
    Struct <- MCStruct
    Components <- MCComponents
    MaxCalls = 2
    Ccbs = {47}
    FirstAdmin = 47
    MaxOps = 3
SYMMETRY Symmetry
INVARIANTS
    TypeOK
    CommittedIsWhole
    CcbLeavesNothing
    ImplementersMatch
PROPERTIES
    PreparedIsFinal
CHECK_DEADLOCK FALSE
