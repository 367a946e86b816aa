CONSTANTS
    e1 = e1  e2 = e2  p1 = p1  d1 = d1
    Exports = {e1, e2}
    Probes = {p1}
    Paths = {d1}
    Outputs <- MCOutputs
    Runs <- MCRuns
    MaxFiles = 2
    MaxBytes = 3
    MaxCalls = 2
    MaxEdits = 1
    Faults = {"crash", "rmtree_fails"}
SPECIFICATION Spec
INVARIANTS
    TypeOK
    PublishedIsInventoried
    OneWinner
    NoResidue
PROPERTIES
    PublishesAtomically
CHECK_DEADLOCK FALSE
