\* One controller, until it is asked to shut down: two slots, a job with two workers, pids reused.
SPECIFICATION Spec
CONSTANTS
    Jobs = {1, 2}
    Op <- CountCopy
    Fan <- TwoOne
    Priority <- SecondFirst
    Deadline = {}
    Malformed = {}
    Cancels = {}
    slots_max = 2
    kMaxSlots = 2
    Procs = {1, 2, 3}
    Pids = {1, 2}
    ReusePids = TRUE
    FifoSize = 1
    MaxStarts = 1
    Scarcity = FALSE
    AllowShutdown = TRUE
INVARIANTS TypeOK SlotAccounting
CHECK_DEADLOCK FALSE
