SPECIFICATION Spec
CONSTANTS
    Tabs = {t, u}
    Missing = Missing
    Invalid = Invalid
    Unset = Unset
    Failed = Failed
    MaxEdits = 2
    MaxRevision = 1
    MaxCalls = 2
SYMMETRY Symmetric
INVARIANTS TypeOK SavedIsClean UnsavedIsPending SavedIsStoredUnlessLost
CHECK_DEADLOCK FALSE
