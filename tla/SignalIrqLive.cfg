CONSTANTS
    NoSignal = NoSignal
    Nothing = Nothing
    Main = Main
    ping = ping
    Line <- AllLines
    MAX_SIGNALS = 2
    LuaSignal <- MCLuaSignal
    Key <- Letter
    Held <- NoKey
    MaxTyped = 2
SPECIFICATION Spec
PROPERTIES
    InterruptsServed
    CallsReturn
