SPECIFICATION FSpec
CONSTANTS
    AddressSpace = 4
    InitialPc = 0
    JumpTargets = {}
    SoftwareCsrs <- TrapCsrs
    StatusValues <- TrapStatusValues
    MaskValues = {}
    DelegValues <- TrapDelegValues
    TvecValues <- TrapTvecValues
    EpcValues = {2}
INVARIANTS
    TypeOK
    DataLevelBounded
    FrameKept
PROPERTIES
    ReturnResumes
    PrivilegeRisesThroughVector
    MachineStateProtected
    MachineFieldsNeverSetBelow
CHECK_DEADLOCK FALSE
