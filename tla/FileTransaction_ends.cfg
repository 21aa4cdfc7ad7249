SPECIFICATION FairSpec
CONSTANTS
    p1 = p1
    p2 = p2
    p3 = p3
    f1 = f1
    f2 = f2
    Procs = {p1, p2}
    Files = {f1}
    Writes <- OneFileEach
    Base = Base
    Absent = Absent
    Torn = Torn
    None = None
PROPERTIES
    EveryTransactionEnds
CHECK_DEADLOCK FALSE
