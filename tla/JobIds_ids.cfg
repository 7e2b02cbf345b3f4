\* Three submits at once, any of which may be killed, but not in the middle of the update.
SPECIFICATION FairSpec
CONSTANTS
    Submitters = {s1, s2, s3}
    Torn = FALSE
INVARIANTS UniqueIds NoRecordLost
PROPERTIES IdsGrow EverySubmitEnds
CHECK_DEADLOCK FALSE
