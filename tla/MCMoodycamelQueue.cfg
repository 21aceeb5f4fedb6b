SPECIFICATION Spec
CONSTANTS
    Readers = {r1, r2}
    BLOCK_SIZE = 2
    PoolSize = 1
    IndexSize = 2
    HalfRange = 8
    MaxItems = 5
INVARIANTS
    SafeAccess
    BlocksAccounted
    NoReaderLags
    ClaimsBalanced
PROPERTIES
    ImplementsFifo
