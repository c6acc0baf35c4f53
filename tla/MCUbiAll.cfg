CONSTANTS
    EbCnt = 3
    EcMax = 5
    ImageSizes = {2}
    ForcedEcs = {}
    Majority = 50
    Enough = 60
    MaxConsecutive = 2
    OldEcs = {1, 3}
    OldKinds = {"empty", "alien", "corrupted"}
    MaxFaults = 1
    MaxRuns = 2
    DyingEbCnt = 4
    DyingImageSizes = {2, 3}
    DyingForcedEcs = {0}
    DyingEcs = {1}
    DyingFaults = 3
SPECIFICATION AllSpec
INVARIANTS CountersExact Formatted DyingDevice
PROPERTIES BadUntouched
