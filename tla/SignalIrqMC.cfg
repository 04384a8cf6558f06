CONSTANTS
    NoSignal = NoSignal
    Nothing = Nothing
    Main = Main
    ping = ping
    Line <- AllLines
    MAX_SIGNALS = 2
    LuaSignal <- MCLuaSignal
    Key <- ShiftsAndArrow
    Held <- RightShift
    MaxTyped = 2
SPECIFICATION Spec
INVARIANTS
    NotReentered
    InService
    InterruptsOn
    FlagsFollowKeys
PROPERTIES
    AtomicRing
    KeysInOrder
