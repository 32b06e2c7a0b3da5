SPECIFICATION Spec
CONSTANTS
    Handlers = {h1}
    Requests = {r1}
    Incoming <- CleanIncoming
    InitialFiles <- MCInitialFiles
    WriteMayFail = TRUE
    RenameMayFail = FALSE
    MaxSaves = 3
    MaxCrashes = 1
    Free = Free
    None = None
INVARIANTS RelayFollowsStore
PROPERTIES BlankKeepsKey
CHECK_DEADLOCK FALSE
