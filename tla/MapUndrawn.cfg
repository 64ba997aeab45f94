SPECIFICATION Spec
CONSTANTS
    a = a
    b = b
    c = c
    U = U
    I = I
    None = None
    Stations <- TwoStations
    Types = {U, I}
    TypeOf <- TwoTypeOf
    PlaceOf <- TwoPlaceOf
    Places <- MCPlaces
    Delta = 1
    MaxMoves = 2
    MaxItems = 2
    Overlap = TRUE
INVARIANT
    QuietMeansDrawn
