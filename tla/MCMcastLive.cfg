SPECIFICATION McSpec
CONSTANTS
    Images = {imgA}
    WrongSize = {}
    NrBlocks = 2
    PktSize = 3
    WbufSize = 4
    Cells = 1
    DevBlocks = 3
    FileMode = FALSE
    MaxBad = 0
    MaxWriteFails = 1
    MaxDecodeFails = 0
    MaxIgnored = 0
    MaxWriteErrors = 1
    MaxRestarts = 0
PROPERTY
    ReceiverFinishes
CHECK_DEADLOCK FALSE
