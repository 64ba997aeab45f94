\* One refresh at a time, while the camera moves.
SPECIFICATION Spec
CONSTANTS
    Requests = {r1, r2}
    Types = {UBike_TY}
    Stations = {s1, s2}
    Bodies <- AllBodies
    Areas <- Everywhere
    MaxVer = 2
    Overlap = FALSE
    None = None
SYMMETRY Symmetry
INVARIANTS
    TypeOK
    ShownIsStored
PROPERTY CompletionShowsReply
