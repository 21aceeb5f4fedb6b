CONSTANTS
    Width = 3
    TileSize = 1
    MaxDt = 3
    Lanes = 2
    SwitchLen = 7
    Epsilon = 3
    MaxTimespan = 30
    Times <- MCTimes
    Pixels <- MCPixels
SPECIFICATION Spec
INVARIANT FarApartHaveNoLink
