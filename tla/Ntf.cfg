\* Two sessions; one call fails, or one alarm is discarded, or the
\* configuration changes once.
SPECIFICATION FairSpec
CONSTANTS
    MaxAlarms = 2
    MaxOpens = 2
    MaxFilters = 1
    MaxReaders = 1
    MaxCalls = 1
    MaxRetries = 1
    ReaderMaxRetries = 2
INVARIANTS
    TypeOK
    NoAlarmMissed
    NewestAlarmLast
PROPERTIES
    ReaderEnds
    CloseReturns
CHECK_DEADLOCK FALSE
