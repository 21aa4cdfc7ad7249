SPECIFICATION Spec
CONSTANTS
    None = None
    v1 = v1
    v2 = v2
    A = A
    B = B
    p1 = p1
    p2 = p2
    Procs = {p1}
    Texts <- AllTexts
    Docs <- SomeDocs
    MaxRuns = 3
    MaxEdits = 2
    MaxKills = 1
INVARIANTS TypeOK LockBackedUnlessKilled
PROPERTIES ResolveRestores FailureLeavesNoTrace IdentityKept LifecycleForward
CHECK_DEADLOCK FALSE
