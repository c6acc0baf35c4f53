SPECIFICATION Spec
CONSTANTS
    Images = {imgA}
    WrongSize = {}
    NrBlocks = 2
    PktSize = 3
    WbufSize = 4
    Cells = 2
    DevBlocks = 4
    FileMode = FALSE
    MaxBad = 0
    MaxWriteFails = 0
    MaxDecodeFails = 2
    MaxIgnored = 0
INVARIANT
    AllDelivered
