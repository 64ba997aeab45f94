------------------------------- MODULE RowFeed -------------------------------
(***************************************************************************)
(* A refresh as the map sees it: stations get rows while an update is at   *)
(* work; the update ends by lowering isUpdating, whereupon the map fetches *)
(* everything, or, when its last row had no type, without a word.          *)
(*                                                                         *)
(* MarkerMap has these steps for its environment, and BikeRefreshContract  *)
(* shows that the handlers of BikeRefresh take no others.                  *)
(***************************************************************************)
CONSTANT Keys  \* what identifies a station

VARIABLES
    rows,    \* stations with a row
    busy,    \* isUpdating
    writing  \* an update is at work that may still store rows

feedVars == <<rows, busy, writing>>

Init == rows = {} /\ busy = FALSE /\ writing = FALSE

\* A reply is taken up.
Begin ==
    /\ ~writing
    /\ busy' = TRUE
    /\ writing' = TRUE
    /\ rows' = rows

\* The first row of a station.
Write(k) ==
    /\ writing
    /\ k \notin rows
    /\ rows' = rows \cup {k}
    /\ busy' = busy /\ writing' = writing

\* The end that is announced.
End ==
    /\ writing
    /\ busy' = FALSE
    /\ writing' = FALSE
    /\ rows' = rows

\* The end that is not.
EndDeaf ==
    /\ writing
    /\ writing' = FALSE
    /\ rows' = rows /\ busy' = busy

\* A launch starts from nothing.
Launch == rows' = {} /\ busy' = FALSE /\ writing' = FALSE

Next == Begin \/ (\E k \in Keys : Write(k)) \/ End \/ EndDeaf \/ Launch

Spec == Init /\ [][Next]_feedVars
=============================================================================
