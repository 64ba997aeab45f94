--------------------------- MODULE MCBikeRefresh ---------------------------
(* Small instances of BikeRefresh for TLC.                                 *)
EXTENDS BikeRefreshInv, TLC

Everywhere == {Types \X Stations}
NoAreas == {}

\* What a server whose feeds all succeeded answers: no table is empty and every
\* row has its type.
Full  == [t \in Types |-> [s \in Stations |-> "typed"]]
FullBodies == {Full}

\* One whose feeds failed: a table is empty, or a row came from an English page
\* alone and has no type.
Holed == [t \in Types |-> [s \in Stations |->
             IF t = CHOOSE x \in Types : TRUE THEN "absent" ELSE "typed"]]
Mixed == [t \in Types |-> [s \in Stations |->
             IF s = CHOOSE x \in Stations : TRUE THEN "typed" ELSE "untyped"]]
\* And a server one of whose dates the app cannot read.
Undated == [t \in Types |-> [s \in Stations |->
             IF s = CHOOSE x \in Stations : TRUE THEN "typed" ELSE "undated"]]
AllBodies == {Full, Holed, Mixed, Undated}

Symmetry == Permutations(Requests)
=============================================================================
