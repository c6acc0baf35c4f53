CONSTANTS
    EbCnt = 3
    EcMax = 5
    ImageSizes = {2}
    ForcedEcs = {}
    Majority = 50
    Enough = 60
    MaxConsecutive = 2
    OldEcs = {1, 3}
    OldKinds = {"empty"}
    MaxFaults = 1
    MaxRuns = 1
SPECIFICATION Spec
INVARIANT PassedIsNotBad
