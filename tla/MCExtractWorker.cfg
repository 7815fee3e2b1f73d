SPECIFICATION FairSpec
CONSTANTS
    Tasks = {1, 2}
    Workers = {w1}
    NoJob = NoJob
    StaleAfter = 1
    BusyMax = 1
    MaxTime = 2
    MaxGen <- MCMaxGen
    MaxStops = 2
INVARIANTS NothingDropped
PROPERTIES ZeroRetries ResultsAreCurrent  JobsAnswered
