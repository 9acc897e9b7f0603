SPECIFICATION FairSpec
CONSTANTS
    DEPTH = 4
    DWS = {0}
    BYTES = 1
    Values = {0}
    Settings <- LiveSettings
PROPERTIES
    EntriesComplete
    FreezeEnds
