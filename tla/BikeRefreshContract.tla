------------------------ MODULE BikeRefreshContract ------------------------
(***************************************************************************)
(* BikeRefresh implements RefreshContract when refreshes do not overlap.   *)
(* The store of the contract is what a reader inside the write transaction *)
(* would see: a row counts as written when its transaction has it.         *)
(***************************************************************************)
EXTENDS BikeRefreshInv

PendingRows ==
    [t \in Types |-> [s \in Stations |->
        IF updater # None /\ <<t, s>> \in Pending(updater) THEN reply[updater].ver
                                                            ELSE 0]]

Contract == INSTANCE RefreshContract WITH
    busy <- isUpdating, pending <- PendingRows, data <- Visible

StoredKeys == {k \in Types \X Stations : Visible[k[1]][k[2]] # 0}
MayWrite   == isUpdating /\ updater # None /\ pc[updater] \in Applying

Feed == INSTANCE RowFeed WITH
    Keys <- Types \X Stations, rows <- StoredKeys, busy <- isUpdating, writing <- MayWrite

\* One refresh after another is to the map what RowFeed says (and MarkerMap relies
\* on): a station gets its first row only between the moment isUpdating goes up and
\* the moment it goes down or the handler ends, and none after the fetch that
\* lowering it starts (BikeModelManager.m:84, RealmUtil.m:451).
FeedsMap == Feed!Spec

\* One refresh after another keeps the promise of RefreshContract: rows are
\* written only while isUpdating is up, all of them before it goes down, and no
\* stored row goes back to an older version (RealmUtil.m:450 writes without
\* comparing; it is the order of the requests that keeps it safe).
KeepsContract == Contract!Spec

\* And rows taken up get written, if the threads are run.
KeepsContractFairly == Contract!FairSpec

\* Stored rows never go back, nor away, while the process lives.
StoredOnlyGrows == Contract!RowsOnlyGrow

\* The strengthening that the third part of the promise needs: everything stored
\* is as old as the reply in hand, or older.
FreshInv ==
    /\ \A t \in Types, s \in Stations : Visible[t][s] <= serverVer
    /\ \A r \in Requests :
          /\ reply[r].ver <= serverVer
          /\ reply[r].kind # "rows" => reply[r].ver = 0
          /\ pc[r] \in {"idle", "sent"} => reply[r] = NoReply
          /\ Active(r) /\ reply[r].kind = "rows" =>
                 \A t \in Types, s \in Stations : Visible[t][s] <= reply[r].ver
=============================================================================
