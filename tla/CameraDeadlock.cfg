SPECIFICATION Spec
CONSTANTS
    Params = {p, q}
    MaxQueue = 1
    MaxInFlight = 1
    MaxPending = 3
    Careless = TRUE
    SlowTracker = FALSE
PROPERTIES
    CallsReturn
CHECK_DEADLOCK FALSE
