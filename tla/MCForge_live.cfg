\* Fair scheduling: jobs end, and so does a shutdown.
SPECIFICATION FairSpec
CONSTANTS
    Jobs = {1, 2}
    Op <- CountExec
    Fan <- OneOne
    Priority <- SecondFirst
    Deadline = {2}
    Cancels = {1}
    Malformed = {}
    slots_max = 1
    kMaxSlots = 2
    Procs = {1, 2}
    Pids = {1, 2}
    ReusePids = FALSE
    FifoSize = 1
    MaxStarts = 1
    Scarcity = FALSE
    AllowShutdown = TRUE
PROPERTIES StoppedJobsEnd ShutdownCompletes LiveJobsEnd
CHECK_DEADLOCK FALSE
