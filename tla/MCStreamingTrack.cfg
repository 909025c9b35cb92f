SPECIFICATION Spec
CONSTANTS
    FrameCount = 2
    P2 = 2
    IntMod = 16
    Asks = {2}
    Sizes = {2}
    Minimum = 1
    Prompt = TRUE
    MaxMarks = 3
INVARIANTS
    PipeNotOverfull
    StopHonoured
    FlushExact
PROPERTY
    ImplementsFifo
