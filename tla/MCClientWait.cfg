SPECIFICATION FairSpec
CONSTANTS
    FrameCount = 4
    BufferSize = 3
    Minimum = 0
    Requests = {"INFINITE", "ZERO"}
    Ops = {"obtain"}
    Signals = {}
    Refuse = TRUE
    Waits = 1
INVARIANTS
    NoLostWake
PROPERTIES
    WriterServed
    InterruptEnds
