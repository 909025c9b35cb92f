SPECIFICATION Spec
CONSTANTS
    FrameCount = 3
    P2 = 4
    IntMod = 32
    Asks = {3}
    Sizes = {0, 2, 9}
    Minimum = 1
    Prompt = TRUE
    MaxMarks = 1
INVARIANTS
    RegionsDisjoint
