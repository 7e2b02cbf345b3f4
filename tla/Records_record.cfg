\* Base 3; 32 values for uint64_t, 8 for int; every spelling of up to four characters.
SPECIFICATION Spec
CONSTANTS
    Base = 3
    U = 32
    I = 8
    kMaxWorkers = 2
    MaxNice = 2
    MaxLength = 4
    MaxSaves = 2
INVARIANTS NumbersAreThoseTyped SavedIsReadBack
CHECK_DEADLOCK FALSE
