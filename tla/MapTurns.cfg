\* Camera and updates that take turns at fetching.
SPECIFICATION FairSpec
CONSTANTS
    a = a
    b = b
    c = c
    U = U
    I = I
    None = None
    Stations <- MCStations
    Types = {U, I}
    TypeOf <- MCTypeOf
    PlaceOf <- MCPlaceOf
    Places <- MCPlaces
    Delta = 1
    MaxMoves = 3
    MaxItems = 2
    Overlap = FALSE
INVARIANTS
    QuietMeansDrawn
PROPERTIES
    EveryRowAppears
    KeepsMapContract
