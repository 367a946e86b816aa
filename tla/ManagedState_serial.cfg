CONSTANTS
    r1 = r1  r2 = r2  r3 = r3  a = a  b = b
    Runs = {r1, r2, r3}
    Fields <- MCFields
    Values = {a, b}
    Unset = Unset
    NoFile = NoFile
    Absent = Absent
    Requests <- MCRequests
    Roots <- MCRoots
    Overlap = FALSE
    Faults = {"stage", "move", "swap", "discard", "copy", "quarantine", "delete"}
SPECIFICATION Spec
INVARIANTS
    TypeOK
    UninstallKeepsACopy
PROPERTIES
    RunsAreTransactions
CHECK_DEADLOCK FALSE
