SPECIFICATION FairSpec
CHECK_DEADLOCK FALSE
CONSTANTS
    Harts <- TwoHarts
    Kernels <- Sound
INVARIANTS
    ProductExact
    RaceFree
    SharesAreDisciplined
PROPERTIES
    HartsMeet
    AllExit
