SPECIFICATION Spec
CONSTANTS
    WordBits = 4
    Halfwords <- MCHalfwords
    Wide <- MCWide
    Values <- MCValues
    Immediates <- MCImmediates
    Pcs <- MCPcs
INVARIANTS
    EveryOpIsHandled
    FormatsPartition
    AccessIsChecked
    MulDivLaw
    WordLaw
    CompressedAgrees
CHECK_DEADLOCK FALSE
