SPECIFICATION Spec
CONSTANTS
    Declarations = {d}
    Members = {a, b, c}
    MaxVersions = 2
    MaxNumber = 4
SYMMETRY Symmetric
INVARIANTS TypeOK LedgerUnambiguous NumberNeverReused
PROPERTIES LiveNumbersStable RemovedStaysRemoved
CHECK_DEADLOCK FALSE
