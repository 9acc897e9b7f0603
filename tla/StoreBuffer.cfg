CONSTANTS
    DEPTH = 3
    Ops <- AllOps
SPECIFICATION FairSpec
INVARIANTS
    BufferInv
    DmaFollowsNoCoreOp
    FreezeHasOwner
PROPERTIES
    StalledStoreGetsRoom
