CONSTANTS
    Shift = 2
    Mask = 6
    Width = 13
    MinRestart = 1
    MaxClock = 5
SPECIFICATION IndexSpec
CHECK_DEADLOCK FALSE
INVARIANTS
    EverIncreasing
