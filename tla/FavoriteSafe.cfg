\* Two stations, two taps: nothing tapped is stored, and old counts do not stay.
SPECIFICATION FairSpec
CONSTANTS
    Stations = {s1, s2}
    MaxVer = 2
    MaxTaps = 2
    None = None
INVARIANTS
    TypeOK
    TapNeverStored
    ImageSettles
PROPERTY
    RowsRecover
