-------------------------- MODULE MarkerMapContract --------------------------
(***************************************************************************)
(* MarkerMap implements MapContract when its threads take turns.  A        *)
(* station is marked when a cluster manager has an item of it, and on the  *)
(* map when the clusters last drawn have.                                  *)
(***************************************************************************)
EXTENDS MarkerMap

Contract == INSTANCE MapContract WITH
    rows <- stored,
    marked <- {s \in Stations : items[s] > 0},
    onMap <- {s \in Stations : drawn[s] > 0},
    settled <- Quiet /\ ~isUpdating

\* Fetches, models and notifications keep the promise of MapContract: no marker
\* without a row, none taken away, and whenever all is quiet every row has been
\* marked and drawn, though updates store rows in between, camera fetches see
\* only some of them or are turned away, and each thread announces what the other
\* has not (BikeModelManager.m:159, MapVC.m:554).
KeepsMapContract == Contract!Spec
=============================================================================
