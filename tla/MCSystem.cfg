SPECIFICATION Spec
CONSTANTS
    Regions <- MCRegions
    HostIo <- MCHostIo
    Accesses <- MCAccesses
    Limits <- MCLimits
    Skips <- MCSkips
    MaxExecuted = 5
    MaxChars = 2
INVARIANTS OutputInOrder TraceMatchesRun StraysAreMisaligned TimerKeepsTime
PROPERTIES RunEnds
CHECK_DEADLOCK FALSE
