SPECIFICATION MagnetFairSpec
CONSTANTS
    Peers = {"h", "c", "b"}
    Kind <- MCKind
    Permits = 2
    ChunkSize = 2
    TrueSize = 3
    Sizes = {0, 2, 4, 9}
    MaxMetadata = 8
    MaxRepeats = 1
    MaxDup = 1
    MessageSizes <- MCMessageSizes
    BufCap = 4
CHECK_DEADLOCK FALSE
INVARIANTS  WireSound
PROPERTIES MetadataFound
