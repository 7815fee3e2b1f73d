SPECIFICATION FairSpec
CONSTANTS
    Peers = {"a", "b"}
    NoPeer = "-"
    Pieces = {1, 2}
    Files = {1, 2}
    FilePieces <- MCFilePieces
    Blocks <- MCBlocks
    Has <- MCHas
    MaxTrouble = 2
CHECK_DEADLOCK FALSE
INVARIANTS HnsInSync 
 
