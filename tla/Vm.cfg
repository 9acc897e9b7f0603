SPECIFICATION FairSpec
CONSTANTS
    Settings <- SmallAndReal
    VERSIONS = 1
INVARIANTS
    TestSeesItsPages
    FramesAreOwnedOnce
    AssertionsHold
PROPERTY InstructionsEnd
CHECK_DEADLOCK FALSE
