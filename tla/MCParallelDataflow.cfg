\* Two lanes of one time unit each, streams of up to five items over two
\* rounds of the lanes, blocks of two items. A lane may stay without data, a
\* block may be filled by an item or by the end token, or hold the end token
\* alone.
CONSTANTS
    Lanes = 2
    SwitchLen = 1
    Capacity = 4
    ItemSize = 2
    EndSize = 2
    MaxTime = 3
    MaxItems = 5
SPECIFICATION Spec
INVARIANTS
    PeekDefined
    BytesCoverQueue
PROPERTIES
    CombinesInOrder
    Terminates
