SPECIFICATION Spec
CONSTANTS
    Start = 8
    Frame = 152
    Word = 512
    Sizes <- SmallSizes
    Aligns <- SmallAligns
    PAGE = 32
    Chunks = 4
INVARIANTS
    HeapInv
    NullMeansFull
    MallinfoCounts
PROPERTIES
    HeapServed
