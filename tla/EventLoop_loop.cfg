\* Both pollers; two jobs, one or two slots. One job is submitted and cancelled by three lines in any
\* order; the other is what the last controller may have left. The pipe and fifo_buf hold two lines
\* each; a read of three pieces cuts one, and a third line that comes meanwhile overflows fifo_buf.
SPECIFICATION FairSpec
CONSTANTS
    Jobs = {1, 2}
    Submits = {2}
    Cancels = {2}
    Slots = {1, 2}
    MaxLines = 3
    PipeSize = 4
    ReadSize = 3
    MaxBuffer = 4
INVARIANTS QuietMeansDrained LinesInOrder SlotsAreFilled
PROPERTIES ShutdownStops
CHECK_DEADLOCK FALSE
