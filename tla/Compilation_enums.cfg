SPECIFICATION Spec
CONSTANTS
    d1 = d1
    c1 = c1
    None = None
    Procs = {d1, c1}
    Conversations = {c1}
    Sources <- GrowingEnum
    Earlier <- Once
    Additions <- Nothing
    MaxEdits = 1
    MaxDeaths = 0
CHECK_DEADLOCK FALSE
PROPERTY EnumNumbersKept
