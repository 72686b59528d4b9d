SPECIFICATION Spec
CONSTANTS
    HalfCount = 5
    Starts <- CodeStarts
    Length <- CodeLength
    Vector = 2
    OwnHalves = {0, 10}
PROPERTIES
    BreakpointStops
CHECK_DEADLOCK FALSE
