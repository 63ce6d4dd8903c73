\* One session in which no call fails.
SPECIFICATION Spec
CONSTANTS
    MaxAlarms = 2
    MaxOpens = 1
    MaxFilters = 1
    MaxReaders = 1
    MaxCalls = 0
    MaxRetries = 1
    ReaderMaxRetries = 2
INVARIANT
    QueueMissesNone
CHECK_DEADLOCK FALSE
