\* Two pids, three writes in two parts each, kills and power losses at any point, and a reader.
SPECIFICATION Spec
CONSTANTS
    Writers = {w1, w2}
    MaxWrites = 3
    Parts = 2
INVARIANTS ReadsAreWhole AckedSurvives TempsAreLeftByTheDead
PROPERTIES IsDurable
CHECK_DEADLOCK FALSE
