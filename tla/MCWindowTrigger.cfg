CONSTANTS
    WindowTime = 3
    ClusteringDt = 1
    UntriggerTime = 4
    MaxToa = 12
    MaxHits = 6
SPECIFICATION Spec
INVARIANTS
    HitsInTheirWindow
    DividesByZeroOnlyAtStart
    HitsSettled
    OutputInOrder
    HistoryWritten
