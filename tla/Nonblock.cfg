SPECIFICATION Spec
CONSTANTS
    NBLOAD_SIZE = 3
    Tag = {t1, t2, t3}
    NoTag = NoTag
    Regs = {1, 2}
    Instrs <- AllInstrs
    External = {TRUE}
    Flushes = {"none", "i1_e3", "i0_e3", "lower", "kill_i1", "kill_i0"}
SYMMETRY TagSymmetry
INVARIANTS
    ReturnsAreExact
    TagsAndCam
    OneWriterPerRegister
    NoReaderOfPendingLoad
