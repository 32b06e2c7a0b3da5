SPECIFICATION Spec
CONSTANTS
    Handlers = {h1, h2}
    Requests = {r1}
    Incoming <- CleanIncoming
    InitialFiles <- MCInitialFiles
    WriteMayFail = TRUE
    RenameMayFail = TRUE
    MaxSaves = 2
    MaxCrashes = 1
    Free = Free
    None = None
INVARIANTS TypeOK SavesExclude  OnlyAcceptedServes 
PROPERTIES SaveAnswered 
CHECK_DEADLOCK FALSE
