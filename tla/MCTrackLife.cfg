SPECIFICATION Spec
CONSTANTS
    Tracks = {a}
    Full = 2
    Latency = 2
    MaxRetries = 2
    MaxStarts = 3
INVARIANTS
    PolicyBalanced
    NoUnexpectedState
PROPERTIES
    StopNotUndone
    StopCompletes
    DestroyedReleased
