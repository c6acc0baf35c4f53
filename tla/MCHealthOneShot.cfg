CONSTANTS
    Pebs = {0, 1, 3}
    NumPebs = 3
    ReadCompletion = 2
    ScrubCompletion = 6
    ReadThreshold = 1
    MaxRc = 0
    MaxStarts = 1
    MaxFaults = 0
SPECIFICATION FairSpec
PROPERTIES EveryPebRead
CHECK_DEADLOCK FALSE
