\* macOS: futex_wake wakes one sleeper.
SPECIFICATION Spec
CONSTANTS
    nchunks = 2
    Stores = 1
    MaxSpurious = 0
    WakesAll = FALSE
INVARIANTS NoLostWake
CHECK_DEADLOCK FALSE
