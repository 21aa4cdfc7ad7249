SPECIFICATION Spec
CONSTANTS
    MaxVersion <- UpToFour
    None = None
INVARIANTS LockAgrees
PROPERTIES MovesForwardSafely
CHECK_DEADLOCK FALSE
