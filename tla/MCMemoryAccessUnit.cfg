SPECIFICATION Spec
CONSTANTS
    PartSize = 2
    VpnCount = 8
    Ram = {0, 1}
    Words <- MixedWords
    CsrStates <- MixedStates
    CrossPage = FALSE
INVARIANTS
    TypeOK
PROPERTIES
    AccessesMapped
    AddressSpaceStable
    UseIsMarked
    FaultIsPrecise
CHECK_DEADLOCK FALSE
