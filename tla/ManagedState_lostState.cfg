CONSTANTS
    r1 = r1  r2 = r2  r3 = r3  a = a  b = b
    Runs = {r1}
    Fields <- MCFields
    Values = {a, b}
    Unset = Unset
    NoFile = NoFile
    Absent = Absent
    Requests <- MutatingRequests
    Roots <- ManagedRoot
    Overlap = FALSE
    Faults = {"drop_backup"}
SPECIFICATION Spec
INVARIANT
    NeverLosesState
CHECK_DEADLOCK FALSE
