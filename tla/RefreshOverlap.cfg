\* Two refreshes in flight: the timer ticks before the first has ended.
SPECIFICATION FairSpec
CONSTANTS
    Requests = {r1, r2}
    Types = {UBike_TY}
    Stations = {s1, s2}
    Bodies <- FullBodies
    Areas <- NoAreas
    MaxVer = 2
    Overlap = TRUE
    None = None
INVARIANTS
    NoRowLost
PROPERTIES
    EveryRequestEnds
    HandlerAdvances
