CONSTANTS
    FlushInterval = 3
    MaxClusters = 4
    MaxHits = 2
    Ticks = {0, 1}
    ClockTick = 1562500
    LineBytes = {5, 6}
    Precision = 6
SPECIFICATION Spec
INVARIANTS
    IndexPointsAtPixels
    ReadsBack
\* The end of the second run.
CHECK_DEADLOCK FALSE
