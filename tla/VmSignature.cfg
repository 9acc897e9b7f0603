SPECIFICATION Spec
CONSTANTS
    Settings <- SmallAndReal
    VERSIONS = 1
INVARIANT SignatureIsCaptured
CHECK_DEADLOCK FALSE
