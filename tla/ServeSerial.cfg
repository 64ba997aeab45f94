\* Two crawlers one after the other, and the app asking all the while.
SPECIFICATION ServiceSpec
CONSTANTS
    r1 = r1
    r2 = r2
    q1 = q1
    q2 = q2
    s1 = s1
    plain = plain
    twoPages = twoPages
    taipei = taipei
    None = None
    Runs = {r1, r2}
    Scripts = {q1, q2}
    Stations = {s1}
    Feeds = {plain, twoPages}
    Bilingual = {twoPages}
    Group <- PlainThenWeb
    LastGroup = 2
    Listed <- AllKnown
    Pages <- SomePages
    MaxVer = 2
    Overlap = FALSE
    Types = {plain, twoPages, taipei}
    Asked <- Selections
SYMMETRY Symmetry
INVARIANTS
    ServerTypeOK
    ServedMeansCrawled
    UntypedToldIsEnglishOnly
    RepliesArePast
PROPERTIES
    RepliesOnlyGrow
    VersionsOnlyGrow
