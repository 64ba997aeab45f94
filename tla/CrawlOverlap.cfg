SPECIFICATION Spec
CONSTANTS
    r1 = r1
    r2 = r2
    s1 = s1
    s2 = s2
    twoPages = twoPages
    byTable = byTable
    None = None
    Runs = {r1, r2}
    Stations = {s1, s2}
    Feeds = {twoPages, byTable}
    Bilingual = {twoPages}
    Group <- WebOnly
    LastGroup = 1
    Listed <- OneKnown
    Pages <- SomePages
    MaxVer = 2
    Overlap = TRUE
SYMMETRY RunSymmetry
CHECK_DEADLOCK FALSE
INVARIANTS
    TypeOK
    UpdateHitsRow
    DoneMeansStored
    DoneMeansTranslated
    UntypedIsEnglishOnly
PROPERTIES
    TypeNeverLost
