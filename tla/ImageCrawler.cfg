\* Deadlock is allowed: with all runs started and over there is nothing to do.
SPECIFICATION Spec
CONSTANTS
    Url = {a, b}
    Image = {i}
    MaxRun = 2
    MaxSeed = 3
    MaxAdjust = 1
SYMMETRY Pages
INVARIANTS
    TypeOK
    NothingForgotten
    TakenOnce
CHECK_DEADLOCK FALSE
