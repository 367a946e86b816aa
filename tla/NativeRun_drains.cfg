CONSTANTS
    Workers = {w1}
    Target = target
    ExitCodes = {ok, failed}
    NoCode = NoCode
    ChunkSize = 1
    MaxCapture = 1
    MaxOutput = 1
    Faults = {"escape"}
SPECIFICATION Spec
PROPERTY
    Terminates
CHECK_DEADLOCK FALSE
