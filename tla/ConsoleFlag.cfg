SPECIFICATION Spec
CONSTANTS
    Pages = {p1}
    Names <- MCNames
    Keys <- MCKeys
    Creds <- NoCreds
    Addresses <- NoAddress
    Flags <- PortFlag
    Ids = {1, 2, 3}
    WithUndo = FALSE
    MaxSaves = 1
    MaxStarts = 1
    None = None
INVARIANTS FileKeepsAddress
CHECK_DEADLOCK FALSE
