SPECIFICATION McSafety
CONSTANTS
    Images = {imgA, imgB}
    WrongSize = {}
    NrBlocks = 2
    PktSize = 3
    WbufSize = 4
    Cells = 1
    DevBlocks = 3
    FileMode = FALSE
    MaxBad = 0
    MaxWriteFails = 1
    MaxDecodeFails = 1
    MaxIgnored = 0
    MaxWriteErrors = 0
    MaxRestarts = 1
INVARIANTS
    OneImage
    CycleOffersAll
CHECK_DEADLOCK FALSE
