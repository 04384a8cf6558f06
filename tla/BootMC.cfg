CONSTANTS
    NoSignal = NoSignal
    Nothing = Nothing
    Line <- MCLine
    Key <- MCKey
    Set1 <- MCSet1
    Firmware <- MCFirmware
    MAX_SIGNALS = 4
    MaxTyped = 3
SPECIFICATION Spec
INVARIANTS
    ConfigKept
    OnePhantomKey
    StuckOnlyEarly
PROPERTIES
    LuaStarts
    DevicesServed
CHECK_DEADLOCK FALSE
