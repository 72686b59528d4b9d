SPECIFICATION Spec
CONSTANTS
    AddressSpace = 1
    InitialPc = 0
    JumpTargets = {}
    SoftwareCsrs <- InterruptCsrs
    StatusValues <- InterruptStatusValues
    MaskValues <- InterruptMaskValues
    DelegValues <- InterruptDelegValues
    TvecValues = {}
    EpcValues = {}
PROPERTIES
    ExternalNeverTaken
CHECK_DEADLOCK FALSE
