SPECIFICATION Spec
CONSTANTS
    Handlers = {h1, h2}
    Requests = {}
    Incoming <- CleanIncoming
    InitialFiles <- MCInitialFiles
    WriteMayFail = FALSE
    RenameMayFail = FALSE
    MaxSaves = 2
    MaxCrashes = 0
    Free = Free
    None = None
INVARIANTS RelayFollowsStore
CHECK_DEADLOCK FALSE
