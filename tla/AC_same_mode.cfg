\* AMF may change the assignment before a quiescing is complete.
SPECIFICATION Spec
CONSTANTS
    MaxInv = 3
    QuiescingInterrupted = TRUE
    Lm = FALSE
PROPERTIES
    NeverSetsSameMode
CHECK_DEADLOCK FALSE
