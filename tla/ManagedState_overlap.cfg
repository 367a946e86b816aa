CONSTANTS
    r1 = r1  r2 = r2  r3 = r3  a = a  b = b
    Runs = {r1, r2}
    Fields <- MCFields
    Values = {a, b}
    Unset = Unset
    NoFile = NoFile
    Absent = Absent
    Requests <- MutatingRequests
    Roots <- ManagedRoot
    Overlap = TRUE
    Faults = {"stage", "move", "swap", "discard", "copy", "quarantine", "delete", "drop_copy", "restore", "crash"}
SPECIFICATION Spec
INVARIANTS
    NeverLosesState
    OkLeavesNothing
    
CHECK_DEADLOCK FALSE
