SPECIFICATION Spec
CONSTANTS
    HalfCount = 5
    Starts <- CodeStarts
    Length <- CodeLength
    Vector = 2
    OwnHalves = {0, 10}
INVARIANTS
    CodeRecoverable
PROPERTIES
    StopIsBreakpoint
    LongBreakpointStops
CHECK_DEADLOCK FALSE
