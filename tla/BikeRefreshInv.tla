--------------------------- MODULE BikeRefreshInv ---------------------------
(***************************************************************************)
(* The inductive invariant of BikeRefresh when refreshes do not overlap.   *)
(* It says, for every place the handler of a reply can be at, what the     *)
(* shared counters stand for: how many tables and rows of THIS reply have  *)
(* been visited.  That is what makes "last row of the last table" mean     *)
(* "everything is stored".                                                 *)
(***************************************************************************)
EXTENDS BikeRefresh

AtRow   == {"loadRow", "storeRow", "write"} \cup InTransaction
AtTable == {"storeKey", "zeroQuery", "nextRow"} \cup AtRow

\* Tables and rows the loops of r have taken up so far.
Visited(r) == Cardinality(Types) - Cardinality(keysLeft[r])
Seen(r)    == Cardinality(RowsOf(r, type[r])) - Cardinality(rowsLeft[r])

OneActive == \A a, b \in Requests : Active(a) /\ Active(b) => a = b

LockInv == \A r \in Requests : pc[r] \in InTransaction <=> lock = r

UpdaterInv ==
    /\ \A r \in Requests : pc[r] \in Applying => updater = r
    /\ updater # None => pc[updater] \in Applying \cup {"ended"}
    /\ updater # None /\ pc[updater] \in {"nextKey", "ended"} => rowsLeft[updater] = {}
    /\ updater # None /\ pc[updater] = "ended" => keysLeft[updater] = {}

LoopInv ==
    \A r \in Requests :
        /\ reply[r].kind = "rows" => reply[r].ver # 0
        /\ pc[r] \in Applying \ {"setTotal"} => reply[r].kind = "rows"
        /\ pc[r] \in {"idle", "sent", "answered", "setTotal", "zeroData"} => rowsLeft[r] = {}
        /\ pc[r] \in {"setTotal", "zeroData"} => keysLeft[r] = Types
        /\ pc[r] \in AtTable => /\ type[r] \in Types \ keysLeft[r]
                                /\ rowsLeft[r] \subseteq RowsOf(r, type[r])
        /\ pc[r] \in AtRow => row[r] \in RowsOf(r, type[r]) \ rowsLeft[r]
        /\ pc[r] \in {"write"} \cup InTransaction => Typed(r, type[r], row[r])

CountInv ==
    \A r \in Requests :
        /\ pc[r] \in Applying \ {"setTotal"} => totalDownloadData = Cardinality(Types)
        /\ pc[r] \in {"nextKey"} \cup (AtTable \ {"storeKey"}) =>
               downloadDataCounter = Visited(r)
        /\ pc[r] = "storeKey" => reg[r] + 1 = Visited(r)
        /\ pc[r] = "nextRow" => downloadQueryCounter = Seen(r)
        /\ pc[r] = "zeroQuery" => rowsLeft[r] = RowsOf(r, type[r])
        /\ pc[r] = "storeKey" => rowsLeft[r] = RowsOf(r, type[r])
        /\ pc[r] = "loadRow" => downloadQueryCounter + 1 = Seen(r)
        /\ pc[r] = "storeRow" => reg[r] + 1 = Seen(r)
        /\ pc[r] \in {"write"} \cup InTransaction => downloadQueryCounter = Seen(r)
        /\ pc[r] \in AtRow =>
               totalDownloadQuery = Cardinality(RowsOf(r, type[r]))
        /\ pc[r] = "argPercent" /\ isLastOne[r] => rowsLeft[r] = {}

StoredInv ==
    updater # None =>
        \A t \in Types, s \in Stations : Typed(updater, t, s) =>
            <<t, s>> \in Pending(updater) \/ Visible[t][s] = reply[updater].ver

QuietInv ==
    /\ ~isUpdating /\ updater # None =>
           /\ keysLeft[updater] = {} /\ rowsLeft[updater] = {}
           /\ pc[updater] \notin {"loadRow", "storeRow", "write"}
    /\ \A r \in Requests : pc[r] = "fetch" => ~isUpdating

SerialInv ==
    /\ TypeOK /\ OneActive /\ LockInv /\ UpdaterInv /\ LoopInv /\ CountInv
    /\ StoredInv /\ QuietInv
=============================================================================
