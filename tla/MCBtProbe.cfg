SPECIFICATION ProbeFairSpec
CONSTANTS
    p1 = p1  p2 = p2  p3 = p3  h1 = h1
    Probes = {p1, p2, p3}
    Hashes = {h1}
    NoHash = NoHash
    HashOf <- Duo
    Pool = 2
    MaxPolls = 2
    MaxProbeCrashes = 1
INVARIANTS ResidueAccounted SoundAlone
PROPERTIES ProbeAnswered
