\* The controller is killed at any point and started again; nobody shuts it down.
SPECIFICATION Spec
CONSTANTS
    Jobs = {1, 2}
    Op <- CountCopy
    Fan <- TwoOne
    Priority <- SecondFirst
    Deadline = {1}
    Cancels = {2}
    Malformed = {}
    slots_max = 1
    kMaxSlots = 2
    Procs = {1, 2, 3}
    Pids = {1, 2, 3}
    ReusePids = FALSE
    FifoSize = 1
    MaxStarts = 2
    Scarcity = FALSE
    AllowShutdown = FALSE
INVARIANTS RunsOnce CompletedByAllWorkers RecordMatchesMemory RecordedLeftoversKilled
PROPERTIES TerminalIsFinal KeepsPromise
CHECK_DEADLOCK FALSE
