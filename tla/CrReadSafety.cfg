SPECIFICATION Spec
CONSTANTS
    BLOCK_SIZE = 2
    Direct = 2
    Indirect = 2
    PerBlock = 2
    Requests = {0, 1, 2, 3, 4, 5, 7, 12}
INVARIANTS
    CursorAgrees
    BufferHoldsPrefix
PROPERTIES
    ReadAdvances
