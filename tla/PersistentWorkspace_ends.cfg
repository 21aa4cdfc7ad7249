SPECIFICATION FairSpec
CONSTANTS
    Tabs = {t, u}
    Missing = Missing
    Invalid = Invalid
    Unset = Unset
    Failed = Failed
    MaxEdits = 1
    MaxRevision = 1
    MaxCalls = 2
PROPERTIES WaitingEnds
CHECK_DEADLOCK FALSE
