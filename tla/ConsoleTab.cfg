SPECIFICATION Spec
CONSTANTS
    Pages = {p1}
    Names <- MCNames
    Keys <- MCKeys
    Creds <- OneCred
    Addresses <- TypedAddresses
    Flags <- NoFlag
    Ids = {1, 2, 3}
    WithUndo = TRUE
    MaxSaves = 4
    MaxStarts = 1
    None = None
INVARIANTS   FileKeepsAddress 
CHECK_DEADLOCK FALSE
