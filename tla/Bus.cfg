SPECIFICATION Spec
CONSTANTS
    DEPTH = 4
    DWS = {0, 1}
    BYTES = 2
    Values = {0, 1}
    Settings <- SafetySettings
INVARIANTS
    BusInv
    CommandsConserved
    LoadsSeeProgramOrder
    OneLoadReturns
    FreezeEndsWithItsLoad
    SideEffectsOrdered
    EmptyMeansQuiet
