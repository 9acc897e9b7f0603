CONSTANTS
    DEPTH = 4
    WORDS = 2
    BANKS = 2
    BYTES = 2
    Values = {0, 1, 2}
    Flippable = {0, 1}
    Ops <- AllOps
SPECIFICATION ScenarioSpec
INVARIANT DataInv
PROPERTY Coherent
