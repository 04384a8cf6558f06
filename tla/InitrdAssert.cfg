CONSTANTS
    Block = 2
    Digits = 2
    Archives <- MCArchives
    Paths <- MCPaths
    Offsets <- MCOffsets
    SizeMod = 8
    Counts <- MCCounts
    HeapCells = 4
SPECIFICATION Spec
INVARIANT
    IteratorFits
CHECK_DEADLOCK FALSE
