SPECIFICATION Spec
CONSTANTS
    PartSize = 2
    VpnCount = 16
    Ram = {0, 1}
    Words <- Sv48Words
    CsrStates <- Sv48States
    CrossPage = FALSE
PROPERTIES
    AccessesMapped
CHECK_DEADLOCK FALSE
