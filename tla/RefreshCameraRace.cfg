\* One refresh at a time: may a fetch that was let through read in the middle?
SPECIFICATION Spec
CONSTANTS
    Requests = {r1}
    Types = {UBike_TY}
    Stations = {s1, s2}
    Bodies <- FullBodies
    Areas <- Everywhere
    MaxVer = 1
    Overlap = FALSE
    None = None
PROPERTY CameraReadsQuietData
