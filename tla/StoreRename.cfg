SPECIFICATION Spec
CONSTANTS
    Handlers = {h1}
    Requests = {}
    Incoming <- CleanIncoming
    InitialFiles <- MCInitialFiles
    WriteMayFail = FALSE
    RenameMayFail = TRUE
    MaxSaves = 1
    MaxCrashes = 1
    Free = Free
    None = None
PROPERTIES ConfigSurvives
CHECK_DEADLOCK FALSE
