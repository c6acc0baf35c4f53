SPECIFICATION AllSpec
CONSTANTS
    Images = {imgA}
    WrongSize = {}
    FileImages = {imgA, imgB}
    FileWrongSize = {imgB}
    NrBlocks = 2
    PktSize = 3
    WbufSize = 4
    Cells = 2
    DevBlocks = 4
    FileMode = FALSE
    MaxBad = 1
    MaxWriteFails = 1
    MaxDecodeFails = 1
    MaxIgnored = 1
    FileMaxIgnored = 2
INVARIANTS
    IInv
    CompleteIsRecoverable
    HomesDisjoint
    TotalIsExact
    Delivered
    FileReceived
PROPERTY
    DeliverySpec
