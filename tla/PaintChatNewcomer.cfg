SPECIFICATION FairSpec
CONSTANTS
    MaxConn = 4
    MaxStrokes = 0
    Slow = {1, 2, 3}
PROPERTY NewcomerMeetsThePresent
CHECK_DEADLOCK FALSE
