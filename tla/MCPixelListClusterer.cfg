CONSTANTS
    Width = 6
    TileSize = 2
    MaxDt = 3
    ClosingDt = 4
    WriteInterval = 2
    MaxToa = 6
    MaxHits = 5
    HitPixels <- MCHitPixels
SPECIFICATION Spec
INVARIANTS
    MatrixMatchesClusters
    IteratorsMatchHits
    OldestLast
    OneMergeablePerTile
PROPERTIES
    ImplementsOnlineClustering
