\* Linux: two workers that may be killed at any point, a spurious wake each, and a controller that may crash.
SPECIFICATION FairSpec
CONSTANTS
    nchunks = 2
    Stores = 2
    MaxSpurious = 1
    WakesAll = TRUE
INVARIANTS NoLostWake GateHoldsWork CountedSlotsAreVisible VerdictIsRight
PROPERTIES WorkersEnd JobIsDecided
CHECK_DEADLOCK FALSE
