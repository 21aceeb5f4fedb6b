\* Five hits, seven time stamps, a disorder of up to two: inspections after
\* every second hit, with equal and late time stamps on both sides of one.
CONSTANTS
    Toas = {0, 1, 2, 3, 4, 5, 6}
    DequeueTime = 2
    CheckInterval = 2
    MaxHits = 5
SPECIFICATION Spec
INVARIANTS
    HeapNotEmptyInDrain
    NothingLost
PROPERTIES
    ImplementsOrderedStream
