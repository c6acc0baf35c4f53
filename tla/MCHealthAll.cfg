CONSTANTS
    Pebs = {0, 1, 3}
    NumPebs = 4
    ReadCompletion = 8
    ScrubCompletion = 12
    ReadThreshold = 1
    MaxRc = 0
    MaxStarts = 2
    MaxFaults = 1
    HotPebs = {1}
    HotMaxRc = 2
SPECIFICATION AllSpec
INVARIANTS TurnsKept EvenTurns
PROPERTIES EveryPebServed HotPebRead
CHECK_DEADLOCK FALSE
