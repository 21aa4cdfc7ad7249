SPECIFICATION ExclusiveSpec
CONSTANTS
    p1 = p1
    p2 = p2
    p3 = p3
    f1 = f1
    f2 = f2
    Procs = {p1, p2, p3}
    Files = {f1, f2}
    Writes <- TwoAndRecovery
    Base = Base
    Absent = Absent
    Torn = Torn
    None = None
SYMMETRY Symmetric
INVARIANTS
    TypeOK
    JournalReplayable
    CleanEnd
    OneHolder
PROPERTIES
    Implements
CHECK_DEADLOCK FALSE
