\* Pids are reused, by forge and by strangers; one worker per job.
SPECIFICATION Spec
CONSTANTS
    Jobs = {1, 2}
    Op <- CountExec
    Fan <- OneOne
    Priority <- SecondFirst
    Deadline = {1}
    Cancels = {}
    Malformed = {}
    slots_max = 2
    kMaxSlots = 2
    Procs = {1, 2, 3}
    Pids = {1, 2}
    ReusePids = TRUE
    FifoSize = 1
    MaxStarts = 2
    Scarcity = FALSE
    AllowShutdown = FALSE
INVARIANTS ChildrenAccountedFor StrangersUnharmed
CHECK_DEADLOCK FALSE
