SPECIFICATION Spec
CONSTANTS
    Chunk = 2
    HalSize = 3
    RingSize = 1
    StopRetries = 2
    Hasty = FALSE
    StopsPaused = FALSE
    LateCallbacks = FALSE

    
    
PROPERTIES
    PlayedToTheEnd
    NoEarlyWrite
    StopCompletes
