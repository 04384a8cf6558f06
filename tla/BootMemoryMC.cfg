CONSTANTS
    UINTPTR_MAX = 7
    MemoryMap <- MCMap
    Extent <- MCLoaded
SPECIFICATION Spec
INVARIANTS
    TypeOK
    HeapSparesLoaded
    HeapIsMemory
    HaltsIffLoadedAbove
CHECK_DEADLOCK FALSE
