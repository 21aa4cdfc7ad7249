SPECIFICATION Spec
CONSTANTS
    d1 = d1
    c1 = c1
    None = None
    Procs = {d1, c1}
    Conversations = {c1}
    Sources <- AllTexts
    Earlier <- Once
    Additions <- NamesInNewFile
    MaxEdits = 2
    MaxDeaths = 1
INVARIANTS TypeOK OutputMatchesLedgers AppliedOverShown NoLockCycle
PROPERTIES ChangesAreReported IdsKept
CHECK_DEADLOCK FALSE
