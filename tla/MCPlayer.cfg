SPECIFICATION FairSpec
CONSTANTS
    Tabs = {t1, t2}
    NoTab = NoTab
    Links = {"a", "ah", "b", "h", "w", "x"}
    LinkHas <- MCHas
    NoLink = NoLink
    TorrentOf <- MCTorrent
    FilesOf <- MCFiles
    MaxResolves = 3
    MaxPlays = 1
    MaxRestarts = 1
INVARIANTS ShownIsAsked RangeSound
PROPERTIES RequestsServed
CHECK_DEADLOCK FALSE
