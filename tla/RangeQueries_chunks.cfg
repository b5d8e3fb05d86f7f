SPECIFICATION Spec
CONSTANTS
    KeyLength = 3
    Value = {0, 1}
    ChunkSizes = {1, 3}
CHECK_DEADLOCK FALSE
INVARIANTS TypeOK CopiedInKeyOrder
PROPERTIES ChunkHasItsSize
