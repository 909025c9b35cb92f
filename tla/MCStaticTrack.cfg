SPECIFICATION Spec
CONSTANTS
    FrameCount = 3
    MinLoop = 2
    SeqMod = 6
    Loops <- MCLoops
    Positions = {0, 3}
    Asks = {2}
    MaxRequests = 6
INVARIANTS
    NeverRejected
    ReadyIsRemaining
    LastRequestWins
    NoStalePosition
    IInv
