\* Under fairness, with an AMF that may interrupt a quiescing.
SPECIFICATION FairSpec
CONSTANTS
    MaxInv = 2
    QuiescingInterrupted = TRUE
    Lm = TRUE
PROPERTIES
    InvocationsAnswered
    StopReturns
CHECK_DEADLOCK FALSE
