CONSTANTS
    Width = 3
    TileSize = 1
    MaxDt = 2
    Lanes = 2
    SwitchLen = 6
    Epsilon = 2
    MaxTimespan = 1
    Toas = {2, 4, 5, 6, 7, 8}
    MaxHits = 5
    Times <- MCTimes
    Pixels <- MCPixels
SPECIFICATION Spec
INVARIANTS
    HitsConserved
    OutputSorted
    ChainReachesBorders
    MergesOnlyNeighbors
    ShortGroupsMerged
