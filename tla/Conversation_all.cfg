SPECIFICATION Spec
CONSTANTS
    chat = chat
    lsp = lsp
    both = both
    None = None
    Author = Author
    Sessions = {chat, lsp}
    Served = {lsp}
    Files = {1, 2}
    Plans = {both}
    Touches <- Reach
    MaxPreviews = 2
    MaxMishaps = 2
INVARIANTS TypeOK StagingTracked AppliedIsWanted ChangesAreWhole
PROPERTIES EditsKept
CHECK_DEADLOCK FALSE
