CONSTANTS
    Lanes = 2
    MaxHits = 7
    CheckInterval = 3
    MaxMemory = 2
SPECIFICATION FairSpec
INVARIANTS
    FreedAfterThreads
PROPERTIES
    RunEnds
