CONSTANTS
    Workers = {w1, w2}
    Target = target
    ExitCodes = {ok, failed}
    NoCode = NoCode
    ChunkSize = 1
    MaxCapture = 1
    MaxOutput = 1
    Faults = {}
SPECIFICATION Spec
INVARIANTS
    TypeOK
    GroupGone
    OnlyFailuresRaise
PROPERTIES
    KeepsContract
    Terminates
CHECK_DEADLOCK FALSE
