SPECIFICATION Spec
CONSTANTS
    kN = 4
    NoState = NoState
    Tracks = {t1, t2}
    FastSlots = {1}
    NoTrack = NoTrack
    MaxGen = 4
    MaxIdle = 3
    Prompt = TRUE
INVARIANTS
    StatesStable
    NoDanglingTrack
    MixesWhatIsAsked
    OutputExclusive
PROPERTIES
    PushReturns
