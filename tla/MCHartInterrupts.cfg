SPECIFICATION Spec
CONSTANTS
    AddressSpace = 1
    InitialPc = 0
    JumpTargets = {0}
    SoftwareCsrs <- InterruptCsrs
    StatusValues <- InterruptStatusValues
    MaskValues <- InterruptMaskValues
    DelegValues <- InterruptDelegValues
    TvecValues = {}
    EpcValues = {}
INVARIANTS
    OneTimerPending
PROPERTIES
    HandlerStartsMasked
CHECK_DEADLOCK FALSE
