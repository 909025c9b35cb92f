SPECIFICATION Spec
CONSTANTS
    Params = {p, q}
    MaxQueue = 1
    MaxInFlight = 2
    MaxPending = 3
    Careless = FALSE
    SlowTracker = FALSE

    
    
PROPERTIES
    
    CallsReturn
    RequestsTaken
CHECK_DEADLOCK FALSE
