SPECIFICATION Spec
INVARIANTS
    NandInverse
    FlashKept
    BoardUploaded
    FelSession
    SpiExact
    ScriptsHonest
    UbiAsNamed
    UbinizeExact
PROPERTIES
    BadNotWritten
