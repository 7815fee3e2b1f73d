SPECIFICATION FairSpec
CONSTANTS
    PieceLen = 2
    Streams = {s1, s2}
    Layouts <- MCLayouts
    Window = 2
    BufLen = 2
    MaxTrouble = 2
CHECK_DEADLOCK FALSE
INVARIANTS SentVerified WakeComes LayoutSound
PROPERTIES StreamEnds
