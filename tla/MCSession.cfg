SPECIFICATION FairSpec
CONSTANTS
    Hashes = {"s", "t"}
    NoHash = "-"
    Pieces = {1, 2}
    Files = {1, 2}
    FilePieces <- MCFilePieces
    Callers = {c1, c2}
    MaxEvents = 3
CHECK_DEADLOCK FALSE
INVARIANTS JsonMatches 
PROPERTIES WantedRuns
