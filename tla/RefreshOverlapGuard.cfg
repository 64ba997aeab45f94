\* Two refreshes in flight: does isUpdating cover the rows still to be written?
SPECIFICATION Spec
CONSTANTS
    Requests = {r1, r2}
    Types = {UBike_TY}
    Stations = {s1, s2}
    Bodies <- FullBodies
    Areas <- Everywhere
    MaxVer = 1
    Overlap = TRUE
    None = None
INVARIANT GuardCoversPendingRows
