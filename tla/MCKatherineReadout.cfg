SPECIFICATION Spec
CONSTANTS
    MaxHits = 3
    AcqTime = 4
    OffsetUnit = 2
    TimeRange = 6
    DatagramFrames = 2
    SocketCapacity = 2
    MaxFaults = 1
INVARIANTS
    StartsConfigured
    TimesFollowOffsets
    RateIsTrue
PROPERTIES
    ReaderEnds
\* A reader whose last datagram or reply is lost waits for ever: it has no timeout.
CHECK_DEADLOCK FALSE
