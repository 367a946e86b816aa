CONSTANTS
    Workers = {w1, w2}
    Target = target
    ExitCodes = {ok, failed}
    NoCode = NoCode
    Failing = {"CreateJobObject", "SetInformationJobObject", "Popen",
               "AssignProcessToJobObject", "ResumeThread", "TerminateJobObject"}
SPECIFICATION Spec
INVARIANTS
    NeverUnowned
PROPERTIES
    KeepsContract
    Terminates
CHECK_DEADLOCK FALSE
