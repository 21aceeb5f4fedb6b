CONSTANTS
    Width = 256
    TileSize = 1
    MaxDt = 3
    JoinTime = 2
    AreaLimit = 25
    MaxSamePixel = 2
    MaxToa = 4
    MaxHits = 4
    HitPixels <- MCHitPixels
SPECIFICATION Spec
INVARIANTS
    LastGroupWritten
