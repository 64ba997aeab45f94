\* One refresh at a time: each ends before the timer ticks again.  The contract,
\* the invariants behind it, and progress.
SPECIFICATION FairSpec
CONSTANTS
    Requests = {r1, r2}
    Types = {UBike_TY, UBike_NTP}
    Stations = {s1, s2}
    Bodies <- AllBodies
    Areas <- NoAreas
    MaxVer = 2
    Overlap = FALSE
    None = None
INVARIANTS
    SerialInv
    GuardCoversPendingRows
    ReleasedMeansStored
    StuckExactlyOnDeafTail
    UnreadableNeverEnds
PROPERTIES
    StoredOnlyGrows
    KeepsContract
    FeedsMap
    KeepsContractFairly
    GoodReplyReleasesGuard
    UnreadableReplyEndsProcess
