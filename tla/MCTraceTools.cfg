SPECIFICATION Spec
CONSTANTS
    Configs <- MCConfigs
    Snapshots <- MCSnapshots
    EventLists <- MCEventLists
    MaxFileSize = 9
    BufferSize = 8
    MaxCycles = 3
    DumpOptions <- MCDumpOptions
    Filters <- MCFilters
    Expects <- MCExpects
    Threshold = 2
INVARIANTS CountsAddUp ReportsAreTrue DiffIsGreedy
PROPERTIES IsALog ToolsEnd
CHECK_DEADLOCK FALSE
