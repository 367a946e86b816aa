CONSTANTS
    Docs <- MCDocs
    Bad = Bad
    MaxNodes = 2
    MaxConnections = 2
    MaxContainers = 9
SPECIFICATION Spec
INVARIANTS
    VerdictIsExact
    WorkIsBounded
PROPERTIES
    WalkEnds
CHECK_DEADLOCK FALSE
