CONSTANTS
    StatusB <- TwelveHourBinary
    FirstYear = 103
    LastYear = 104
SPECIFICATION DateSpec
INVARIANT
    LeapYearsExact
CHECK_DEADLOCK FALSE
