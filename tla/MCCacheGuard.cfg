SPECIFICATION GuardFairSpec
CONSTANTS
    Dirs = {d1, d2, db}
    Protected = db
    MaxBytes = 3
    FloorBytes = 2
    MaxWrites = 5
    MaxAborts = 1
PROPERTIES StopsAtFloor LimitEnforced
