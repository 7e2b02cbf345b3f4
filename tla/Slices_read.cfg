\* Every size up to a few blocks, up to three workers, short reads, and a file that shrinks.
SPECIFICATION FairSpec
CONSTANTS
    Sizes = {0, 1, 2, 3, 4, 5, 6, 7, 8, 9}
    WorkerCounts = {1, 2, 3}
    kDirectAlign = 2
    BufSize = 4
    PageSize = 2
    MayShrink = TRUE
INVARIANTS SlicesCoverInput WorkIsEven SlicesAreReadable
PROPERTIES WorkersEnd
CHECK_DEADLOCK FALSE
