\* The stop procedure while COM becomes active.
SPECIFICATION Spec
CONSTANTS
    MaxInv = 2
    QuiescingInterrupted = FALSE
    Lm = FALSE
INVARIANTS
    NtfThreadJoined
CHECK_DEADLOCK FALSE
