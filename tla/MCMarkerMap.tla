----------------------------- MODULE MCMarkerMap -----------------------------
(* Two stations near each other, of two types, and one far off of the first   *)
(* type.  The camera starts off the coast, where it has nothing near.         *)
EXTENDS MarkerMapContract, TLC

CONSTANTS a, b, c, U, I

MCTypeOf  == a :> U @@ b :> I @@ c :> U
MCPlaceOf == a :> 2 @@ b :> 3 @@ c :> 5
MCPlaces  == {0, 2, 3, 5}
MCStations == {a, b, c}

TwoTypeOf   == a :> U @@ b :> I
TwoPlaceOf  == a :> 2 @@ b :> 5
TwoStations == {a, b}
=============================================================================
