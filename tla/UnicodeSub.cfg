CONSTANTS
    b1 = b1
    b2 = b2
    b3 = b3
    b4 = b4
    b5 = b5
    k1 = k1
    k2 = k2
    k3 = k3
    k4 = k4
    Blocks <- MCBlocks
    Keys <- MCKeys
    Names = {touch}
    Arguments <- MCArguments
    Stored <- MCStored
    Capacity = 2
    KeySignal = key
    NULL = NULL
    Terminator = "nul"
    Nul = "nul"
    NoNode = NoNode
    Parts <- MCParts
    Substrings <- MCSubstrings
    Passed <- MCPassed
    FixedStart = {"getPaletteColor"}
    Encoding <- MCEncoding
    Invalid = {"cut"}
    Continuation = "cont"
    Absent = absent
    Texts <- MCTexts
    Indices <- MCIndices
    SizeMod = 8
SPECIFICATION Spec
INVARIANT
    NegativesFromEnd
CHECK_DEADLOCK FALSE
