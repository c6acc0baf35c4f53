SPECIFICATION Spec
INVARIANTS
    Jffs2Holds
    Jffs2Reads
    Jffs2Converts
    Compressed
    TreesBuilt
    UbifsIndexed
    UbifsSpace
    TablesKept
