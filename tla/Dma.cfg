SPECIFICATION Spec
CONSTANTS
    DEPTH = 2
    QOS = 1
    Commands <- AxiCommands
    DbgCommands <- DebugCommands
    FENCES = FALSE
INVARIANTS
    FifoSound
    DebugIsAlone
    WritesArePaired
PROPERTY ServedInOrder
