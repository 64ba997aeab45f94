----------------------------- MODULE MapContract -----------------------------
(***************************************************************************)
(* What the map promises about the stations whose rows are stored, as long *)
(* as its two threads take turns: each is marked once and stays marked,    *)
(* what is drawn is what is marked, and whenever nothing is under way      *)
(* every station with a row is marked and drawn.                           *)
(*                                                                         *)
(* Nothing is said of fetches, models, types, cameras or notifications:    *)
(* MarkerMapContract shows that those of MarkerMap keep the promise.       *)
(***************************************************************************)
CONSTANT Stations

VARIABLES
    rows,     \* stations with a row
    marked,   \* stations with a marker
    onMap,    \* stations whose marker is in the clusters last drawn
    settled   \* no update and no fetch is under way

contractVars == <<rows, marked, onMap, settled>>

UpToDate == rows \subseteq marked /\ onMap = marked

Init == rows = {} /\ marked = {} /\ onMap = {} /\ settled = TRUE

\* An update or a fetch begins.
Stir == settled' = FALSE /\ UNCHANGED <<rows, marked, onMap>>

\* A station that had no row gets one, in an update.
Store ==
    /\ ~settled
    /\ \E s \in Stations \ rows : rows' = rows \cup {s}
    /\ UNCHANGED <<marked, onMap, settled>>

\* Some stations that have rows and no markers get markers.
Mark ==
    /\ ~settled
    /\ \E new \in SUBSET (rows \ marked) : new # {} /\ marked' = marked \cup new
    /\ UNCHANGED <<rows, onMap, settled>>

\* Some of what is marked is drawn, because the zoom changed or as the last thing
\* to do.
Draw ==
    /\ \E more \in SUBSET marked : onMap' = onMap \cup more
    /\ \/ settled' = settled
       \/ settled' = TRUE /\ rows \subseteq marked /\ onMap' = marked
    /\ UNCHANGED <<rows, marked>>

\* It turns out that nothing is left to do.
Settle ==
    /\ UpToDate
    /\ settled' = TRUE
    /\ UNCHANGED <<rows, marked, onMap>>

Next == Stir \/ Store \/ Mark \/ Draw \/ Settle

Spec == Init /\ [][Next]_contractVars

-----------------------------------------------------------------------------
(* What follows from the promise.                                          *)

\* Drawn stations are marked and marked ones have a row; when all is settled the
\* three are one.
MapIsTrue ==
    /\ onMap \subseteq marked /\ marked \subseteq rows
    /\ settled => onMap = rows

\* No marker is taken away, and only what is marked changes what is drawn.
MarkersStay ==
    [][marked \subseteq marked' /\ onMap \subseteq onMap']_contractVars
=============================================================================
