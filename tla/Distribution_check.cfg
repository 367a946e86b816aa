CONSTANTS
    Parts <- MCParts
    Unsafe = {".."}
    Fold <- MCFold
    DistInfo = {"info"}
    MaxMembers = 4
    MaxMember = 5
    MaxTotal = 9
    MaxMetadata = 3
    MaxRatio = 2
    BlockSize = 2
    SdistRules <- MCSdistRules
    EndSize = 2
    Full = 99
    WheelRules <- MCWheelRules
    Bases = {"wheel", "sdist", "x", ""}
    Builds <- MCBuilds
SPECIFICATION Spec
INVARIANTS
    TypeOK
    VerifiedIsBuilt
    UploadsAreHarmless
    AcceptedIsPortable
    ExtentsDisjoint
    ReadersAgree
    SdistVerdictIsExact
PROPERTIES
    CommandsEnd
CHECK_DEADLOCK FALSE
