\* AMF waits for the end of a quiescing before it changes the assignment.
SPECIFICATION Spec
CONSTANTS
    MaxInv = 3
    QuiescingInterrupted = FALSE
    Lm = FALSE
INVARIANTS
    TypeOK
    PipeMirrorsQueue
    NoInvocationLost
    ResponseRefusedOnlyAfterImmFailure
    HaStateAgrees
    CallbacksKept
PROPERTIES
    NeverSetsSameMode
CHECK_DEADLOCK FALSE
