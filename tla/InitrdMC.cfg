CONSTANTS
    Block = 2
    Digits = 2
    Archives <- MCArchives
    Paths <- MCPaths
    Offsets <- MCOffsets
    SizeMod = 8
    Counts <- MCCounts
    HeapCells = 5
SPECIFICATION Spec
INVARIANTS
    HandlesUnique
    Aligned
    ListExact
    ReadBounded
PROPERTY
    HandlesKept
CHECK_DEADLOCK FALSE
