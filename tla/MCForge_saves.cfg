\* Any save of a record may fail; one record does not pass validate_meta.
SPECIFICATION Spec
CONSTANTS
    Jobs = {1, 2}
    Op <- CountCopy
    Fan <- OneOne
    Priority <- SecondFirst
    Deadline = {1}
    Cancels = {1}
    Malformed = {2}
    slots_max = 2
    kMaxSlots = 2
    Procs = {1, 2}
    Pids = {1, 2}
    ReusePids = FALSE
    FifoSize = 1
    MaxStarts = 2
    Scarcity = TRUE
    AllowShutdown = TRUE
INVARIANTS CompletedHasOutput
PROPERTIES SettledStays OutcomeWasAskedFor
CHECK_DEADLOCK FALSE
