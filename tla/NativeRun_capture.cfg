CONSTANTS
    Workers = {}
    Target = target
    ExitCodes = {ok, failed}
    NoCode = NoCode
    ChunkSize = 2
    MaxCapture = 3
    MaxOutput = 5
    Faults = {"escape", "supervisor_dies"}
SPECIFICATION Spec
INVARIANTS
    CaptureIsExact
    ResultIsTheExitCode
    StrangerNotSignalled
CHECK_DEADLOCK FALSE
