SPECIFICATION Spec
CONSTANTS
    Single <- MCSingle
    Double <- MCDouble
    Boxes <- MCBoxes
    Doubles <- MCDoubles
    RoundModes <- MCRoundModes
INVARIANTS
    TypeOK
    NothingLost
    MatchesReference
PROPERTIES
    FlagsHaveACause
CHECK_DEADLOCK FALSE
