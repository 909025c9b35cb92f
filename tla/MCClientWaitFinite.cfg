SPECIFICATION FairSpec
CONSTANTS
    FrameCount = 1
    BufferSize = 1
    Minimum = 0
    Requests = {"FINITE"}
    Ops = {"obtain", "end"}
    Signals = {"INVALID", "DISABLED"}
    Refuse = FALSE
    Waits = 1
PROPERTIES
    FiniteReturns
    
