------------------------ MODULE BikeRefresh_proofs ------------------------
(* What holds of BikeRefresh however its handlers overlap: the types, and  *)
(* that no row of a reply gets lost.                                       *)
EXTENDS BikeRefreshInv, FiniteSetTheorems, TLAPS

USE DEF serverVars, loopVars, counterVars, guardVars, storeVars, cameraVars

\* The empty store is a table of versions.
LEMMA EmptyIsTable == Empty \in Table
  BY BoundsAssumption DEF Empty, Table, Version

\* Merging two tables of versions gives a table of versions.
LEMMA MergeType ==
  ASSUME NEW a \in Table, NEW b \in Table, NEW where
  PROVE  Merge(a, b, where) \in Table
  BY DEF Merge, Table

\* No table has more rows than there are stations.
LEMMA RowCount ==
  ASSUME NEW r, NEW t
  PROVE  /\ IsFiniteSet(RowsOf(r, t))
         /\ Cardinality(RowsOf(r, t)) \in 0 .. Cardinality(Stations)
  <1>1. RowsOf(r, t) \subseteq Stations
    BY DEF RowsOf
  <1>2. QED
    BY <1>1, StationsAssumption, FS_Subset, FS_CardinalityType

\* The rows seen inside a transaction form a table of versions.
LEMMA InTxnType ==
  ASSUME TypeOK, NEW r \in Requests
  PROVE  InTxn(r) \in Table
  BY DEF TypeOK, InTxn, Table, Reply

\* The reply of a request not yet answered is a reply.
LEMMA NoReplyType == NoReply \in Reply
  BY BoundsAssumption DEF NoReply, Reply, NoTables, RowKinds, Version

\* Whatever the server answers is a reply.
LEMMA AnswersType == TypeOK => Answers \subseteq Reply
  BY BodiesAssumption, BoundsAssumption
     DEF TypeOK, Answers, Reply, NoTables, RowKinds, Version

\* The initial state is well typed.
LEMMA InitTypeOK == Init => TypeOK
  <1>1. Cardinality(Types) \in Nat /\ Cardinality(Stations) \in Nat
    BY TypesAssumption, StationsAssumption, FS_CardinalityType
  <1> SUFFICES ASSUME Init PROVE TypeOK
    OBVIOUS
  <1>2. /\ alive \in BOOLEAN
        /\ serverVer \in 1 .. MaxVer
        /\ pc \in [Requests -> Labels]
    BY BoundsAssumption DEF Init, Labels
  <1>3. reply \in [Requests -> Reply]
    BY NoReplyType DEF Init
  <1>4. /\ keysLeft \in [Requests -> SUBSET Types]
        /\ rowsLeft \in [Requests -> SUBSET Stations]
        /\ type \in [Requests -> Types \cup {None}]
        /\ row \in [Requests -> Stations \cup {None}]
        /\ reg \in [Requests -> Nat]
        /\ isLastOne \in [Requests -> BOOLEAN]
    BY DEF Init
  <1>5. stored \in Table /\ shown \in Table /\ snap \in Table
    BY EmptyIsTable DEF Init
  <1>6. area \in SUBSET (Types \X Stations)
    BY Zenon DEF Init
  <1>7. /\ totalDownloadData \in 0 .. Cardinality(Types)
        /\ totalDownloadQuery \in 0 .. Cardinality(Stations)
        /\ downloadDataCounter \in Nat /\ downloadQueryCounter \in Nat
    BY <1>1 DEF Init
  <1>8. /\ isUpdating \in BOOLEAN /\ camera \in {"idle", "checked", "read"}
        /\ updater \in Requests \cup {None} /\ lock \in Requests \cup {None}
    BY DEF Init
  <1>9. QED
    BY <1>2, <1>3, <1>4, <1>5, <1>6, <1>7, <1>8, Zenon DEF TypeOK

\* Every step keeps the types.
LEMMA NextTypeOK == TypeOK /\ [Next]_vars => TypeOK'
  <1> SUFFICES ASSUME TypeOK, [Next]_vars PROVE TypeOK'
    OBVIOUS
  <1> USE DEF TypeOK, Step, Labels
  <1>a. Cardinality(Types) \in Nat /\ Cardinality(Stations) \in Nat
    BY TypesAssumption, StationsAssumption, FS_CardinalityType
  <1>1. CASE ServerAdvance
    BY <1>1, BoundsAssumption DEF ServerAdvance
  <1>2. ASSUME NEW r \in Requests, Tick(r) PROVE TypeOK'
    BY <1>2, <1>a DEF Tick
  <1>3. ASSUME NEW r \in Requests, Answer(r) PROVE TypeOK'
    <2>1. reply' \in [Requests -> Reply]
      BY <1>3, AnswersType DEF Answer
    <2>2. QED
      BY <1>3, <2>1 DEF Answer
  <1>4. ASSUME NEW r \in Requests, DropReply(r) PROVE TypeOK'
    BY <1>4, <1>a DEF DropReply
  <1>5. ASSUME NEW r \in Requests, AcceptReply(r) PROVE TypeOK'
    BY <1>5, <1>a DEF AcceptReply
  <1>6. ASSUME NEW r \in Requests, CrashOnFailure(r) \/ CrashOnRow(r) PROVE TypeOK'
    BY <1>6, <1>a DEF CrashOnFailure, CrashOnRow
  <1>7. ASSUME NEW r \in Requests, SetTotal(r) PROVE TypeOK'
    BY <1>7, <1>a DEF SetTotal
  <1>8. ASSUME NEW r \in Requests, ZeroData(r) PROVE TypeOK'
    BY <1>8, <1>a DEF ZeroData
  <1>9. ASSUME NEW r \in Requests, NextKey(r) PROVE TypeOK'
    <2>1. rowsLeft' \in [Requests -> SUBSET Stations]
      BY <1>9 DEF NextKey, RowsOf
    <2>2. QED
      BY <1>9, <2>1 DEF NextKey
  <1>10. ASSUME NEW r \in Requests, NoKeyLeft(r) PROVE TypeOK'
    BY <1>10, <1>a DEF NoKeyLeft
  <1>11. ASSUME NEW r \in Requests, StoreKey(r) PROVE TypeOK'
    BY <1>11, <1>a DEF StoreKey
  <1>12. ASSUME NEW r \in Requests, ZeroQuery(r) PROVE TypeOK'
    BY <1>12, <1>a DEF ZeroQuery
  <1>13. ASSUME NEW r \in Requests, NextRow(r) PROVE TypeOK'
    BY <1>13, <1>a, RowCount DEF NextRow
  <1>14. ASSUME NEW r \in Requests, NoRowLeft(r) PROVE TypeOK'
    BY <1>14, <1>a DEF NoRowLeft
  <1>15. ASSUME NEW r \in Requests, LoadRow(r) PROVE TypeOK'
    BY <1>15, <1>a DEF LoadRow
  <1>16. ASSUME NEW r \in Requests, StoreRow(r) PROVE TypeOK'
    BY <1>16, <1>a DEF StoreRow
  <1>17. ASSUME NEW r \in Requests, BeginWrite(r) PROVE TypeOK'
    BY <1>17, <1>a DEF BeginWrite
  <1>18. ASSUME NEW r \in Requests, ReadIsLastOne(r) PROVE TypeOK'
    BY <1>18, <1>a DEF ReadIsLastOne
  <1>19. ASSUME NEW r \in Requests, Progress(r) PROVE TypeOK'
    BY <1>19, <1>a DEF Progress
  <1>20. ASSUME NEW r \in Requests, NoProgress(r) PROVE TypeOK'
    BY <1>20, <1>a DEF NoProgress
  <1>21. ASSUME NEW r \in Requests, FetchAll(r) PROVE TypeOK'
    BY <1>21, <1>a, InTxnType, MergeType DEF FetchAll, Renewed
  <1>22. ASSUME NEW r \in Requests, Commit(r) PROVE TypeOK'
    BY <1>22, <1>a, InTxnType DEF Commit
  <1>23. CASE CameraMove
    BY <1>23, AreasAssumption DEF CameraMove, MainStep
  <1>24. CASE CameraRead
    BY <1>24, EmptyIsTable, MergeType DEF CameraRead, MainStep
  <1>25. CASE CameraShow
    BY <1>25, EmptyIsTable, MergeType DEF CameraShow, MainStep, Renewed
  <1>26. CASE Die
    BY <1>26 DEF Die
  <1>27. CASE Launch
    <2>1. pc' \in [Requests -> Labels]
      BY <1>27 DEF Launch
    <2>2. reply' \in [Requests -> Reply]
      BY <1>27, NoReplyType DEF Launch
    <2>3. /\ keysLeft' \in [Requests -> SUBSET Types]
          /\ rowsLeft' \in [Requests -> SUBSET Stations]
          /\ type' \in [Requests -> Types \cup {None}]
          /\ row' \in [Requests -> Stations \cup {None}]
          /\ reg' \in [Requests -> Nat]
          /\ isLastOne' \in [Requests -> BOOLEAN]
      BY <1>27 DEF Launch
    <2>4. stored' \in Table /\ shown' \in Table /\ snap' \in Table
      BY <1>27, EmptyIsTable DEF Launch
    <2>5. area' \in SUBSET (Types \X Stations)
      BY <1>27, Zenon DEF Launch
    <2>6. /\ totalDownloadData' \in 0 .. Cardinality(Types)
          /\ totalDownloadQuery' \in 0 .. Cardinality(Stations)
          /\ downloadDataCounter' \in Nat /\ downloadQueryCounter' \in Nat
      BY <1>27, <1>a DEF Launch
    <2>7. /\ isUpdating' \in BOOLEAN /\ camera' \in {"idle", "checked", "read"}
          /\ updater' \in Requests \cup {None} /\ lock' \in Requests \cup {None}
      BY <1>27 DEF Launch
    <2>8. alive' \in BOOLEAN /\ serverVer' \in 1 .. MaxVer
      BY <1>27 DEF Launch
    <2>9. QED
      BY <2>1, <2>2, <2>3, <2>4, <2>5, <2>6, <2>7, <2>8, Zenon DEF TypeOK
  <1>28. CASE UNCHANGED vars
    BY <1>28 DEF vars
  <1>29. QED
    BY <1>1, <1>2, <1>3, <1>4, <1>5, <1>6, <1>7, <1>8, <1>9, <1>10, <1>11, <1>12, <1>13, <1>14, <1>15, <1>16, <1>17, <1>18, <1>19, <1>20, <1>21, <1>22, <1>23, <1>24, <1>25, <1>26, <1>27, <1>28 DEF Next, Handler, Loop, Transaction, Main

\* The state keeps its types whatever the replies and however handlers overlap.
THEOREM TypeCorrect == Spec => []TypeOK
  <1>1. QED
    BY InitTypeOK, NextTypeOK, PTL DEF Spec


-----------------------------------------------------------------------------
(* No row gets lost, also when handlers overlap.                           *)

\* A request that waits has no reply, and a loop that is through has nothing left.
RestInv ==
  \A r \in Requests :
      /\ pc[r] \in {"idle", "sent"} => reply[r] = NoReply
      /\ pc[r] = "nextKey" => rowsLeft[r] = {}
      /\ pc[r] = "ended" /\ reply[r].kind = "rows" => keysLeft[r] = {} /\ rowsLeft[r] = {}

\* The row is there, in the version of a reply that has it.
Kept(t, s) == \E q \in Requests : Typed(q, t, s) /\ Visible[t][s] = reply[q].ver

\* NoRowLost, on the way: a typed row of a reply is pending or kept.
KeptInv ==
  \A r \in Requests : pc[r] \in Applying \cup {"ended"} /\ reply[r].kind = "rows" =>
      \A t \in Types, s \in Stations :
          Typed(r, t, s) => <<t, s>> \in Pending(r) \/ Kept(t, s)

OverlapInv == TypeOK /\ LockInv /\ LoopInv /\ RestInv /\ KeptInv

\* The steps of a request before its reply is applied.
LEMMA OverlapRequest ==
  ASSUME OverlapInv, NEW r \in Requests,
         Tick(r) \/ Answer(r) \/ DropReply(r) \/ AcceptReply(r)
  PROVE  LockInv' /\ LoopInv' /\ RestInv' /\ KeptInv'
  <1> USE NoneAssumption DEF Step, Applying, Labels, InTransaction, AtRow, AtTable, ErrorKinds
  <1>0. TypeOK /\ LockInv /\ LoopInv /\ RestInv /\ KeptInv
    BY DEF OverlapInv
  <1>1. LockInv'
    BY <1>0 DEF TypeOK, Tick, Answer, DropReply, AcceptReply, LockInv
  <1>2. LoopInv' /\ RestInv'
    <2>1. CASE Tick(r)
      BY <1>0, <2>1 DEF TypeOK, Tick, LoopInv, RestInv, RowsOf, Typed
    <2>2. CASE Answer(r)
      <3>1. \A a \in Answers : a.kind = "rows" => a.ver # 0
        BY <1>0 DEF TypeOK, Answers
      <3>2. reply'[r].kind = "rows" => reply'[r].ver # 0
        BY <1>0, <2>2, <3>1 DEF TypeOK, Answer
      <3>3. QED
        BY <1>0, <2>2, <3>2 DEF TypeOK, Answer, LoopInv, RestInv, RowsOf, Typed
    <2>3. CASE DropReply(r)
      BY <1>0, <2>3 DEF TypeOK, DropReply, LoopInv, RestInv, RowsOf, Typed
    <2>4. CASE AcceptReply(r)
      BY <1>0, <2>4 DEF TypeOK, AcceptReply, LoopInv, RestInv, RowsOf, Typed
    <2>5. QED
      BY <2>1, <2>2, <2>3, <2>4
  <1>3. \A q \in Requests, t \in Types, s \in Stations :
            Typed(q, t, s) => Typed(q, t, s)' /\ reply'[q] = reply[q]
    BY <1>0 DEF TypeOK, RestInv, Tick, Answer, DropReply, AcceptReply, Typed, NoReply, NoTables
  <1>4. Visible' = Visible
    <2>1. lock # None => lock \in Requests /\ pc[lock] \in InTransaction
      BY <1>0 DEF TypeOK, LockInv
    <2>2. lock # None => reply'[lock] = reply[lock]
      BY <1>0, <2>1 DEF TypeOK, Tick, Answer, DropReply, AcceptReply
    <2>3. UNCHANGED <<lock, stored, type, row>>
      BY DEF Tick, Answer, DropReply, AcceptReply
    <2>4. QED
      BY <2>2, <2>3 DEF Visible, InTxn
  <1>5. \A t \in Types, s \in Stations : Kept(t, s) => Kept(t, s)'
    BY <1>3, <1>4 DEF Kept
  <1>6. ASSUME NEW q \in Requests, pc'[q] \in Applying \cup {"ended"},
               reply'[q].kind = "rows", NEW t \in Types, NEW s \in Stations,
               Typed(q, t, s)'
        PROVE  (<<t, s>> \in Pending(q))' \/ Kept(t, s)'
    <2>1. CASE q = r
      <3>1. AcceptReply(r)
        BY <1>0, <1>6, <2>1 DEF TypeOK, Tick, Answer, DropReply
      <3>2. QED
        BY <1>0, <1>6, <2>1, <3>1 DEF AcceptReply, Pending, TypeOK
    <2>2. CASE q # r
      <3>1. /\ pc'[q] = pc[q] /\ reply'[q] = reply[q] /\ keysLeft'[q] = keysLeft[q]
            /\ rowsLeft' = rowsLeft /\ type' = type /\ row' = row
        BY <1>0, <2>2 DEF TypeOK, Tick, Answer, DropReply, AcceptReply
      <3>2. <<t, s>> \in Pending(q) \/ Kept(t, s)
        BY <1>0, <1>6, <3>1 DEF KeptInv, Typed
      <3>3. Pending(q)' = Pending(q)
        BY <3>1 DEF Pending, Typed
      <3>4. QED
        BY <1>5, <3>2, <3>3
    <2>3. QED
      BY <2>1, <2>2
  <1>7. QED
    BY <1>1, <1>2, <1>6 DEF KeptInv

\* The steps of the loops change what is pending, but not what is kept.
LEMMA OverlapLoop ==
  ASSUME OverlapInv, NEW r \in Requests, Loop(r)
  PROVE  LockInv' /\ LoopInv' /\ RestInv' /\ KeptInv'
  <1> USE NoneAssumption DEF Step, Applying, Labels, InTransaction, AtRow, AtTable
  <1>0. TypeOK /\ LockInv /\ LoopInv /\ RestInv /\ KeptInv
    BY DEF OverlapInv
  <1>1. /\ UNCHANGED <<reply, lock, stored>>
        /\ \A q \in Requests \ {r} :
              /\ pc'[q] = pc[q] /\ keysLeft'[q] = keysLeft[q] /\ rowsLeft'[q] = rowsLeft[q]
              /\ type'[q] = type[q] /\ row'[q] = row[q]
        /\ pc[r] \in Applying \ InTransaction
        /\ pc'[r] \in (Applying \cup {"ended"}) \ InTransaction
    BY <1>0 DEF TypeOK, Loop, SetTotal, ZeroData, NextKey, NoKeyLeft, StoreKey,
           ZeroQuery, NextRow, NoRowLeft, LoadRow, StoreRow
  <1>2. LockInv'
    BY <1>0, <1>1 DEF LockInv, TypeOK
  <1>3. LoopInv' /\ RestInv'
    <2>1. CASE SetTotal(r)
      BY <1>0, <1>1, <2>1 DEF TypeOK, SetTotal, LoopInv, RestInv, RowsOf, Typed
    <2>2. CASE ZeroData(r)
      BY <1>0, <1>1, <2>2 DEF TypeOK, ZeroData, LoopInv, RestInv, RowsOf, Typed
    <2>3. CASE NextKey(r)
      BY <1>0, <1>1, <2>3 DEF TypeOK, NextKey, LoopInv, RestInv, RowsOf, Typed
    <2>4. CASE NoKeyLeft(r)
      BY <1>0, <1>1, <2>4 DEF TypeOK, NoKeyLeft, LoopInv, RestInv, RowsOf, Typed
    <2>5. CASE StoreKey(r)
      BY <1>0, <1>1, <2>5 DEF TypeOK, StoreKey, LoopInv, RestInv, RowsOf, Typed
    <2>6. CASE ZeroQuery(r)
      BY <1>0, <1>1, <2>6 DEF TypeOK, ZeroQuery, LoopInv, RestInv, RowsOf, Typed
    <2>7. CASE NextRow(r)
      BY <1>0, <1>1, <2>7 DEF TypeOK, NextRow, LoopInv, RestInv, RowsOf, Typed
    <2>8. CASE NoRowLeft(r)
      BY <1>0, <1>1, <2>8 DEF TypeOK, NoRowLeft, LoopInv, RestInv, RowsOf, Typed
    <2>9. CASE LoadRow(r)
      BY <1>0, <1>1, <2>9 DEF TypeOK, LoadRow, LoopInv, RestInv, RowsOf, Typed
    <2>10. CASE StoreRow(r)
      BY <1>0, <1>1, <2>10 DEF TypeOK, StoreRow, LoopInv, RestInv, RowsOf, Typed
    <2>11. QED
      BY <2>1, <2>2, <2>3, <2>4, <2>5, <2>6, <2>7, <2>8, <2>9, <2>10 DEF Loop
  <1>4. Pending(r) \subseteq Pending(r)'
    <2>1. CASE SetTotal(r) \/ ZeroData(r) \/ NoKeyLeft(r) \/ StoreKey(r)
               \/ ZeroQuery(r) \/ NoRowLeft(r) \/ LoadRow(r)
      BY <1>0, <2>1 DEF TypeOK, SetTotal, ZeroData, NoKeyLeft, StoreKey, ZeroQuery, NoRowLeft, LoadRow,
         Pending, Typed
    <2>2. CASE NextKey(r)
      BY <1>0, <2>2 DEF TypeOK, NextKey, RestInv, Pending, Typed, RowsOf
    <2>3. CASE NextRow(r)
      BY <1>0, <2>3 DEF TypeOK, NextRow, Pending, Typed
    <2>4. CASE StoreRow(r)
      BY <1>0, <2>4 DEF TypeOK, StoreRow, Pending, Typed
    <2>5. QED
      BY <2>1, <2>2, <2>3, <2>4 DEF Loop
  <1>5. Visible' = Visible
    <2>1. lock # None => lock \in Requests \ {r}
      BY <1>0, <1>1 DEF TypeOK, LockInv
    <2>2. QED
      BY <1>1, <2>1 DEF Visible, InTxn
  <1>6. \A t \in Types, s \in Stations : Kept(t, s) => Kept(t, s)'
    BY <1>1, <1>5 DEF Kept, Typed
  <1>7. \A q \in Requests : Pending(q) \subseteq Pending(q)'
    BY <1>1, <1>4 DEF Pending, Typed
  <1>8. KeptInv'
    BY <1>0, <1>1, <1>6, <1>7 DEF KeptInv, Typed
  <1>9. QED
    BY <1>2, <1>3, <1>8

\* A row leaves the pending ones when it becomes visible in its transaction.
LEMMA OverlapTransaction ==
  ASSUME OverlapInv, NEW r \in Requests, Transaction(r)
  PROVE  LockInv' /\ LoopInv' /\ RestInv' /\ KeptInv'
  <1> USE NoneAssumption DEF Step, Applying, Labels, InTransaction, AtRow, AtTable
  <1>0. TypeOK /\ LockInv /\ LoopInv /\ RestInv /\ KeptInv
    BY DEF OverlapInv
  <1>1. /\ UNCHANGED <<reply, keysLeft, rowsLeft, type, row>>
        /\ \A q \in Requests \ {r} : pc'[q] = pc[q]
        /\ pc[r] \in {"write"} \cup InTransaction
        /\ pc'[r] \in InTransaction \cup {"nextRow"}
    BY <1>0 DEF TypeOK, Transaction, BeginWrite, ReadIsLastOne, Progress, NoProgress, FetchAll, Commit
  <1>2. LockInv'
    <2>1. CASE BeginWrite(r)
      BY <1>0, <1>1, <2>1 DEF TypeOK, BeginWrite, LockInv
    <2>2. CASE ReadIsLastOne(r)
      BY <1>0, <1>1, <2>2 DEF TypeOK, ReadIsLastOne, LockInv
    <2>3. CASE Progress(r)
      BY <1>0, <1>1, <2>3 DEF TypeOK, Progress, LockInv
    <2>4. CASE NoProgress(r)
      BY <1>0, <1>1, <2>4 DEF TypeOK, NoProgress, LockInv
    <2>5. CASE FetchAll(r)
      BY <1>0, <1>1, <2>5 DEF TypeOK, FetchAll, LockInv
    <2>6. CASE Commit(r)
      BY <1>0, <1>1, <2>6 DEF TypeOK, Commit, LockInv
    <2>7. QED
      BY <2>1, <2>2, <2>3, <2>4, <2>5, <2>6 DEF Transaction
  <1>3. LoopInv' /\ RestInv'
    BY <1>0, <1>1 DEF LoopInv, RestInv, RowsOf, Typed
  <1>4. /\ type[r] \in Types /\ row[r] \in Stations /\ Typed(r, type[r], row[r])
    BY <1>0, <1>1 DEF LoopInv, RowsOf
  <1>5. CASE BeginWrite(r)
    <2>1. Visible = stored /\ Visible' = InTxn(r)
      BY <1>1, <1>5 DEF BeginWrite, Visible, InTxn
    <2>2. \A t \in Types, s \in Stations :
              InTxn(r)[t][s] = IF t = type[r] /\ s = row[r] THEN reply[r].ver ELSE stored[t][s]
      BY <1>0, <1>4 DEF TypeOK, InTxn, Table
    <2>3. Kept(type[r], row[r])'
      BY <1>1, <1>4, <2>1, <2>2 DEF Kept, Typed
    <2>4. ASSUME NEW t \in Types, NEW s \in Stations, Kept(t, s)
          PROVE  Kept(t, s)'
      <3>1. CASE t = type[r] /\ s = row[r]
        BY <1>1, <2>3, <3>1 DEF Kept, Typed
      <3>2. CASE ~(t = type[r] /\ s = row[r])
        BY <1>1, <2>1, <2>2, <2>4, <3>2 DEF Kept, Typed
      <3>3. QED
        BY <3>1, <3>2
    <2>5. \A q \in Requests, p \in Types \X Stations :
              p \in Pending(q) => p \in Pending(q)' \/ p = <<type[r], row[r]>>
      BY <1>1 DEF Pending, Typed
    <2>6. ASSUME NEW q \in Requests, pc'[q] \in Applying \cup {"ended"},
                 reply'[q].kind = "rows", NEW t \in Types, NEW s \in Stations,
                 Typed(q, t, s)'
          PROVE  (<<t, s>> \in Pending(q))' \/ Kept(t, s)'
      <3>1. <<t, s>> \in Pending(q) \/ Kept(t, s)
        BY <1>0, <1>1, <2>6 DEF KeptInv, Typed
      <3>2. CASE Kept(t, s)
        BY <2>4, <3>2
      <3>3. CASE <<t, s>> \in Pending(q)
        <4>1. <<t, s>> \in Pending(q)' \/ (t = type[r] /\ s = row[r])
          BY <2>5, <3>3
        <4>2. CASE t = type[r] /\ s = row[r]
          BY <1>1, <2>3, <4>2 DEF Kept, Typed
        <4>3. QED
          BY <4>1, <4>2
      <3>4. QED
        BY <3>1, <3>2, <3>3
    <2>7. QED
      BY <1>2, <1>3, <2>6 DEF KeptInv
  <1>6. CASE ~BeginWrite(r)
    <2>1. pc[r] \in InTransaction /\ lock = r
      BY <1>0, <1>6 DEF Transaction, ReadIsLastOne, Progress, NoProgress, FetchAll, Commit,
                        LockInv
    <2>2. Visible' = Visible
      BY <1>1, <1>6, <2>1
         DEF Transaction, ReadIsLastOne, Progress, NoProgress, FetchAll, Commit, Visible, InTxn
    <2>3. \A t \in Types, s \in Stations : Kept(t, s) => Kept(t, s)'
      BY <1>1, <2>2 DEF Kept, Typed
    <2>4. \A q \in Requests : Pending(q) \subseteq Pending(q)'
      BY <1>1, <2>1 DEF Pending, Typed
    <2>5. KeptInv'
      BY <1>0, <1>1, <2>1, <2>3, <2>4 DEF KeptInv, Typed
    <2>6. QED
      BY <1>2, <1>3, <2>5
  <1>7. QED
    BY <1>5, <1>6

\* Every step keeps rows pending or kept.
LEMMA OverlapStep == OverlapInv /\ [Next]_vars => OverlapInv'
  <1> SUFFICES ASSUME OverlapInv, [Next]_vars PROVE OverlapInv'
    OBVIOUS
  <1>1. TypeOK'
    BY NextTypeOK DEF OverlapInv
  <1>2. ASSUME UNCHANGED <<pc, reply, loopVars, storeVars>> PROVE OverlapInv'
    <2>1. LockInv' /\ LoopInv' /\ RestInv'
      BY <1>2 DEF OverlapInv, LockInv, LoopInv, RestInv, RowsOf, Typed
    <2>2. KeptInv'
      BY <1>2 DEF OverlapInv, KeptInv, Kept, Pending, Visible, InTxn, Typed
    <2>3. QED
      BY <1>1, <2>1, <2>2 DEF OverlapInv
  <1>3. ASSUME NEW r \in Requests, Tick(r) \/ Answer(r) \/ Handler(r) PROVE OverlapInv'
    BY <1>1, <1>2, <1>3, OverlapRequest, OverlapLoop, OverlapTransaction
       DEF Handler, CrashOnFailure, CrashOnRow, OverlapInv
  <1>4. CASE ServerAdvance \/ Main \/ Die \/ UNCHANGED vars
    BY <1>2, <1>4
       DEF ServerAdvance, Main, CameraMove, CameraRead, CameraShow, MainStep, Die, vars
  <1>5. CASE Launch
    <2>1. \A r \in Requests : pc'[r] \in {"idle", "ended"} /\ reply'[r] = NoReply
                              /\ rowsLeft'[r] = {}
      BY <1>5 DEF Launch
    <2>2. lock' = None
      BY <1>5 DEF Launch
    <2>3. LockInv' /\ LoopInv' /\ RestInv' /\ KeptInv'
      BY <2>1, <2>2, NoneAssumption
         DEF LockInv, LoopInv, RestInv, KeptInv, NoReply, Applying, Labels, InTransaction,
             AtRow, AtTable
    <2>4. QED
      BY <1>1, <2>3 DEF OverlapInv
  <1>6. QED
    BY <1>3, <1>4, <1>5 DEF Next

LEMMA OverlapInit == Init => OverlapInv
  <1> SUFFICES ASSUME Init PROVE OverlapInv
    OBVIOUS
  <1>1. TypeOK
    BY InitTypeOK
  <1>2. LockInv /\ LoopInv /\ RestInv /\ KeptInv
    BY NoneAssumption
       DEF Init, LockInv, LoopInv, RestInv, KeptInv, NoReply, Applying, Labels,
           InTransaction, AtRow, AtTable
  <1>3. QED
    BY <1>1, <1>2 DEF OverlapInv

\* What holds of handlers that overlap.
LEMMA OverlapInvariant == Spec => []OverlapInv
  <1>1. QED
    BY OverlapInit, OverlapStep, PTL DEF Spec

\* Of every reply whose handler has ended no typed row is missing, however many
\* handlers were writing at once.
THEOREM RowsKept == Spec => []NoRowLost
  <1>1. OverlapInv => NoRowLost
    BY DEF OverlapInv, RestInv, KeptInv, Kept, Pending, NoRowLost
  <1>2. QED
    BY <1>1, OverlapInvariant, PTL

-----------------------------------------------------------------------------
(* A reply that cannot be read is not got over.                            *)

\* The row is still ahead of the handler of r.
Ahead(r, t, s) ==
  \/ t \in keysLeft[r]
  \/ t = type[r] /\ s \in rowsLeft[r]
  \/ t = type[r] /\ s = row[r] /\ pc[r] \in {"loadRow", "storeRow"}

Undated(r, t, s) == reply[r].tables[t][s] = "undated"

\* A reply without rows has no tables; one that is being applied has its undated
\* rows ahead, and one whose handler has ended had none.
UnreadInv ==
  \A r \in Requests :
      /\ reply[r].kind # "rows" => reply[r].tables = NoTables
      /\ pc[r] = "ended" => reply[r].kind # "failure"
      /\ pc[r] \in Applying \cup {"ended"} =>
            \A t \in Types, s \in Stations : Undated(r, t, s) => Ahead(r, t, s)

\* What the handler of r does to its reply, its loops and its place is seen by no
\* other handler.
LEMMA OwnLoop ==
  ASSUME TypeOK, NEW r \in Requests, Handler(r)
  PROVE  /\ reply' = reply
         /\ \A q \in Requests \ {r} :
               /\ pc'[q] = pc[q] /\ keysLeft'[q] = keysLeft[q]
               /\ rowsLeft'[q] = rowsLeft[q] /\ type'[q] = type[q] /\ row'[q] = row[q]
  <1> USE DEF TypeOK, Step
  <1>1. CASE DropReply(r) \/ AcceptReply(r) \/ CrashOnFailure(r) \/ CrashOnRow(r)
    BY <1>1 DEF DropReply, AcceptReply, CrashOnFailure, CrashOnRow
  <1>2. CASE Loop(r)
    BY <1>2 DEF Loop, SetTotal, ZeroData, NextKey, NoKeyLeft, StoreKey, ZeroQuery,
                NextRow, NoRowLeft, LoadRow, StoreRow
  <1>3. CASE Transaction(r)
    BY <1>3 DEF Transaction, BeginWrite, ReadIsLastOne, Progress, NoProgress, FetchAll, Commit
  <1>4. QED
    BY <1>1, <1>2, <1>3 DEF Handler

\* The handler in hand leaves no undated row behind.
LEMMA UnreadHandler ==
  ASSUME OverlapInv, UnreadInv, NEW r \in Requests, Handler(r)
  PROVE  UnreadInv'
  <1> USE DEF Step, Applying, Labels, InTransaction, AtRow, AtTable
  <1>0. TypeOK /\ LoopInv /\ RestInv
    BY DEF OverlapInv
  <1>1. /\ reply' = reply
        /\ \A q \in Requests \ {r} :
              /\ pc'[q] = pc[q] /\ keysLeft'[q] = keysLeft[q]
              /\ rowsLeft'[q] = rowsLeft[q] /\ type'[q] = type[q] /\ row'[q] = row[q]
    BY <1>0, OwnLoop
  <1> DEFINE Clean(q) ==
        /\ pc'[q] = "ended" => reply[q].kind # "failure"
        /\ pc'[q] \in Applying \cup {"ended"} =>
              \A t \in Types, s \in Stations : Undated(q, t, s) => Ahead(q, t, s)'
  <1>2. \A q \in Requests \ {r} : Clean(q)
    BY <1>1 DEF UnreadInv, Ahead
  <1>3. Clean(r)
    <2> USE <1>0, <1>1 DEF TypeOK, UnreadInv
    <2>1. CASE DropReply(r)
      BY <2>1 DEF DropReply, ErrorKinds, Undated, NoTables
    <2>2. CASE AcceptReply(r)
      BY <2>2 DEF AcceptReply, Ahead
    <2>3. CASE CrashOnFailure(r) \/ CrashOnRow(r)
      BY <2>3 DEF CrashOnFailure, CrashOnRow, Ahead
    <2>4. CASE SetTotal(r) \/ ZeroData(r) \/ StoreKey(r) \/ ZeroQuery(r) \/ LoadRow(r)
      BY <2>4 DEF SetTotal, ZeroData, StoreKey, ZeroQuery, LoadRow, Ahead
    <2>5. CASE NextKey(r)
      BY <2>5 DEF NextKey, RestInv, RowsOf, Ahead, Undated
    <2>6. CASE NoKeyLeft(r) \/ NoRowLeft(r)
      BY <2>6 DEF NoKeyLeft, NoRowLeft, LoopInv, Ahead
    <2>7. CASE NextRow(r)
      BY <2>7 DEF NextRow, Ahead
    <2>8. CASE StoreRow(r)
      BY <2>8 DEF StoreRow, Typed, Ahead, Undated
    <2>9. CASE Transaction(r)
      BY <2>9 DEF Transaction, BeginWrite, ReadIsLastOne, Progress, NoProgress, FetchAll,
                  Commit, Ahead
    <2>10. QED
      BY <2>1, <2>2, <2>3, <2>4, <2>5, <2>6, <2>7, <2>8, <2>9 DEF Handler, Loop
  <1>4. QED
    BY <1>1, <1>2, <1>3 DEF UnreadInv, Undated

\* No step leaves an undated row behind.
LEMMA UnreadStep == OverlapInv /\ UnreadInv /\ [Next]_vars => UnreadInv'
  <1> SUFFICES ASSUME OverlapInv, UnreadInv, [Next]_vars PROVE UnreadInv'
    OBVIOUS
  <1>0. TypeOK
    BY DEF OverlapInv
  <1>1. ASSUME NEW r \in Requests, Tick(r) PROVE UnreadInv'
    BY <1>0, <1>1 DEF Tick, Step, TypeOK, UnreadInv, Ahead, Undated, Applying, Labels
  <1>2. ASSUME NEW r \in Requests, Answer(r) PROVE UnreadInv'
    <2>1. \A a \in Answers : a.kind # "rows" => a.tables = NoTables
      BY DEF Answers, ErrorKinds
    <2>2. reply'[r].kind # "rows" => reply'[r].tables = NoTables
      BY <1>0, <1>2, <2>1 DEF Answer, TypeOK
    <2>3. QED
      BY <1>0, <1>2, <2>2
         DEF Answer, Step, TypeOK, UnreadInv, Ahead, Undated, Applying, Labels
  <1>3. ASSUME NEW r \in Requests, Handler(r) PROVE UnreadInv'
    BY <1>3, UnreadHandler
  <1>4. CASE ServerAdvance \/ Main \/ Die \/ UNCHANGED vars
    BY <1>4 DEF ServerAdvance, Main, CameraMove, CameraRead, CameraShow, MainStep, Die,
                vars, UnreadInv, Ahead, Undated
  <1>5. CASE Launch
    <2>1. \A r \in Requests : reply'[r] = NoReply
      BY <1>5 DEF Launch
    <2>2. QED
      BY <2>1 DEF UnreadInv, Undated, NoReply, NoTables
  <1>6. QED
    BY <1>1, <1>2, <1>3, <1>4, <1>5 DEF Next

\* However handlers overlap, none ends over a failure reply or an undated row.
THEOREM UnreadableStops == Spec => []UnreadableNeverEnds
  <1>1. Init => UnreadInv
    BY DEF Init, UnreadInv, Undated, NoReply, NoTables, Applying, Labels
  <1>2. OverlapInv /\ UnreadInv => UnreadableNeverEnds
    <2> SUFFICES ASSUME OverlapInv, UnreadInv, NEW r \in Requests, pc[r] = "ended"
                 PROVE  /\ reply[r].kind # "failure"
                        /\ \A t \in Types, s \in Stations :
                              reply[r].tables[t][s] # "undated"
      BY DEF UnreadableNeverEnds
    <2>1. reply[r].kind = "rows" => \A t \in Types, s \in Stations : ~Ahead(r, t, s)
      BY DEF OverlapInv, RestInv, Ahead
    <2>2. QED
      BY <2>1 DEF UnreadInv, Undated, NoTables
  <1>3. QED
    BY <1>1, <1>2, OverlapInvariant, UnreadStep, PTL DEF Spec

-----------------------------------------------------------------------------
(* A handler goes on to its end.                                           *)

\* The measure is a number, and positive on the way.
LEMMA WorkIsNumber ==
  ASSUME TypeOK, NEW r \in Requests
  PROVE  /\ IsFiniteSet(keysLeft[r]) /\ IsFiniteSet(rowsLeft[r])
         /\ Cardinality(keysLeft[r]) \in Nat /\ Cardinality(rowsLeft[r]) \in Nat
         /\ Cardinality(Stations) \in Nat
         /\ pc[r] \in Applying => Rank[pc[r]] \in 1 .. 9 /\ Work(r) \in Nat \ {0}
  <1>1. IsFiniteSet(keysLeft[r]) /\ IsFiniteSet(rowsLeft[r])
    BY TypesAssumption, StationsAssumption, FS_Subset DEF TypeOK
  <1>2. Cardinality(keysLeft[r]) \in Nat /\ Cardinality(rowsLeft[r]) \in Nat
        /\ Cardinality(Stations) \in Nat
    BY <1>1, StationsAssumption, FS_CardinalityType
  <1>3. pc[r] \in Applying => Rank[pc[r]] \in 1 .. 9
    BY DEF TypeOK, Applying, Labels, Rank
  <1> DEFINE A == (10 * Cardinality(Stations) + 10) * Cardinality(keysLeft[r])
  <1>4. A \in Nat
    BY <1>2
  <1>5. Work(r) = A + 10 * Cardinality(rowsLeft[r]) + Rank[pc[r]]
    BY DEF Work
  <1> HIDE DEF A
  <1>6. QED
    BY <1>1, <1>2, <1>3, <1>4, <1>5

\* A list without one of its elements is shorter by one.
LEMMA OneLess ==
  ASSUME NEW S, IsFiniteSet(S), NEW x \in S
  PROVE  Cardinality(S \ {x}) \in Nat /\ Cardinality(S) = Cardinality(S \ {x}) + 1
  <1>1. IsFiniteSet(S \ {x}) /\ Cardinality(S \ {x}) = Cardinality(S) - 1
    BY FS_RemoveElement
  <1>2. Cardinality(S) \in Nat /\ Cardinality(S \ {x}) \in Nat
    BY <1>1, FS_CardinalityType
  <1>3. QED
    BY <1>1, <1>2

\* Taking a table off the list pays for all the rows it may have.
LEMMA TablePaysForRows ==
  ASSUME NEW n \in Nat, NEW k \in Nat, NEW m \in 0 .. n
  PROVE  (10 * n + 10) * k + 10 * m + 4 < (10 * n + 10) * (k + 1) + 1
  <1>1. (10 * n + 10) * (k + 1) = (10 * n + 10) * k + (10 * n + 10)
    OBVIOUS
  <1> DEFINE A == (10 * n + 10) * k
  <1>2. A \in Nat
    OBVIOUS
  <1> HIDE DEF A
  <1>3. A + 10 * m + 4 < A + (10 * n + 10) + 1
    BY <1>2
  <1>4. QED
    BY <1>1, <1>3 DEF A

\* Each step of the handler of r brings r nearer to its end.
LEMMA OwnWork ==
  ASSUME TypeOK, TypeOK', NEW r \in Requests, Handler(r),
         pc[r] \in Applying, pc'[r] # pc[r]
  PROVE  Work(r)' < Work(r)
  <1> USE DEF TypeOK, Step
  <1>1. CASE NextKey(r)
    <2>1. PICK t \in keysLeft[r] :
             keysLeft'[r] = keysLeft[r] \ {t} /\ rowsLeft'[r] = RowsOf(r, t)
      BY <1>1 DEF NextKey
    <2> DEFINE k == Cardinality(keysLeft'[r])
    <2>2. k \in Nat /\ Cardinality(keysLeft[r]) = k + 1
      BY <2>1, WorkIsNumber, OneLess
    <2>3. Cardinality(rowsLeft'[r]) \in 0 .. Cardinality(Stations)
      BY <2>1, RowCount
    <2>4. pc[r] = "nextKey" /\ pc'[r] = "storeKey"
      BY <1>1 DEF NextKey
    <2>5. Rank[pc[r]] = 1 /\ Rank[pc'[r]] = 4
      BY <2>4 DEF Rank
    <2> DEFINE n == Cardinality(Stations)
    <2>6. n \in Nat /\ Cardinality(rowsLeft[r]) \in Nat
      BY WorkIsNumber
    <2>7. Work(r)' = (10 * n + 10) * k + 10 * Cardinality(rowsLeft'[r]) + 4
      BY <2>5 DEF Work
    <2>8. Work(r) = (10 * n + 10) * (k + 1) + 10 * Cardinality(rowsLeft[r]) + 1
      BY <2>2, <2>5 DEF Work
    <2> DEFINE B == (10 * n + 10) * (k + 1)
               C == (10 * n + 10) * k
    <2>9. C + 10 * Cardinality(rowsLeft'[r]) + 4 < B + 1
      BY <2>2, <2>3, <2>6, TablePaysForRows
    <2>10. B \in Nat /\ C \in Nat
      BY <2>2, <2>6
    <2> HIDE DEF B, C
    <2>11. B + 1 <= B + 10 * Cardinality(rowsLeft[r]) + 1
      BY <2>6, <2>10
    <2>12. QED
      BY <2>3, <2>6, <2>7, <2>8, <2>9, <2>10, <2>11 DEF B, C
  <1>2. CASE NextRow(r)
    <2>1. PICK s \in rowsLeft[r] : rowsLeft'[r] = rowsLeft[r] \ {s}
      BY <1>2 DEF NextRow
    <2>2. /\ Cardinality(rowsLeft'[r]) \in Nat
          /\ Cardinality(rowsLeft[r]) = Cardinality(rowsLeft'[r]) + 1
      BY <2>1, WorkIsNumber, OneLess
    <2>3. pc[r] = "nextRow" /\ pc'[r] = "loadRow" /\ keysLeft' = keysLeft
      BY <1>2 DEF NextRow
    <2>4. Rank[pc[r]] = 2 /\ Rank[pc'[r]] = 9
      BY <2>3 DEF Rank
    <2> DEFINE A == (10 * Cardinality(Stations) + 10) * Cardinality(keysLeft[r])
    <2>5. A \in Nat
      BY WorkIsNumber
    <2>6. /\ Work(r) = A + 10 * Cardinality(rowsLeft[r]) + 2
          /\ Work(r)' = A + 10 * Cardinality(rowsLeft'[r]) + 9
      BY <2>3, <2>4 DEF Work
    <2> HIDE DEF A
    <2>7. QED
      BY <2>2, <2>5, <2>6
  <1>3. CASE ~NextKey(r) /\ ~NextRow(r)
    <2>1. keysLeft' = keysLeft /\ rowsLeft' = rowsLeft /\ Rank[pc'[r]] < Rank[pc[r]]
          /\ Rank[pc'[r]] \in Nat /\ Rank[pc[r]] \in Nat
      <3> USE DEF Applying, Labels
      <3>1. CASE Loop(r)
        BY <1>3, <3>1 DEF Loop, SetTotal, ZeroData, NoKeyLeft, StoreKey, ZeroQuery,
                          NoRowLeft, LoadRow, StoreRow, Rank
      <3>2. CASE Transaction(r)
        BY <3>2 DEF Transaction, BeginWrite, ReadIsLastOne, Progress, NoProgress,
                    FetchAll, Commit, Rank
      <3>3. CASE DropReply(r) \/ AcceptReply(r) \/ CrashOnFailure(r) \/ CrashOnRow(r)
        BY <3>3 DEF DropReply, AcceptReply, CrashOnFailure, CrashOnRow
      <3>4. QED
        BY <3>1, <3>2, <3>3 DEF Handler
    <2> DEFINE A == (10 * Cardinality(Stations) + 10) * Cardinality(keysLeft[r])
    <2>2. A \in Nat /\ Cardinality(rowsLeft[r]) \in Nat
      BY WorkIsNumber
    <2>3. /\ Work(r) = A + 10 * Cardinality(rowsLeft[r]) + Rank[pc[r]]
          /\ Work(r)' = A + 10 * Cardinality(rowsLeft[r]) + Rank[pc'[r]]
      BY <2>1 DEF Work
    <2> HIDE DEF A
    <2>4. QED
      BY <2>1, <2>2, <2>3
  <1>4. QED
    BY <1>1, <1>2, <1>3

\* No table and no row is visited twice: a handler that has accepted its reply has
\* at most Work(r) steps left, however many others are at work.
THEOREM HandlersAdvance == Spec => HandlerAdvances
  <1>1. ASSUME TypeOK, TypeOK', [Next]_vars, NEW r \in Requests,
               pc[r] \in Applying, pc'[r] # pc[r]
        PROVE  Work(r)' < Work(r)
    <2>1. CASE Handler(r)
      BY <1>1, <2>1, OwnWork
    <2>2. CASE Launch
      <3>1. pc'[r] = "ended" /\ keysLeft'[r] = {} /\ rowsLeft'[r] = {}
        BY <1>1, <2>2 DEF Launch, Applying
      <3>2. Cardinality(keysLeft'[r]) = 0 /\ Cardinality(rowsLeft'[r]) = 0
        BY <3>1, FS_EmptySet
      <3>3. Rank[pc'[r]] = 0
        BY <3>1 DEF Rank
      <3>4. Work(r)' = 0
        <4>1. \A n \in Nat : (10 * n + 10) * 0 + 10 * 0 + 0 = 0
          OBVIOUS
        <4>2. Work(r)' = (10 * Cardinality(Stations) + 10) * 0 + 10 * 0 + 0
          BY <3>2, <3>3, Zenon DEF Work
        <4>3. QED
          BY <1>1, <4>1, <4>2, WorkIsNumber
      <3>5. QED
        BY <1>1, <3>4, WorkIsNumber
    <2>3. ASSUME NEW q \in Requests, Tick(q) \/ Answer(q) \/ Handler(q), q # r
          PROVE  pc'[r] = pc[r]
      BY <1>1, <2>3, OwnLoop DEF Tick, Answer, Step, TypeOK
    <2>4. CASE Tick(r) \/ Answer(r)
      BY <1>1, <2>4 DEF Tick, Answer, Step, Applying
    <2>5. CASE ServerAdvance \/ Main \/ Die \/ UNCHANGED vars
      BY <1>1, <2>5
         DEF ServerAdvance, Main, CameraMove, CameraRead, CameraShow, MainStep, Die, vars
    <2>6. QED
      BY <1>1, <2>1, <2>2, <2>3, <2>4, <2>5 DEF Next
  <1>2. TypeOK /\ TypeOK' /\ [Next]_vars =>
          \A r \in Requests : pc[r] \in Applying /\ pc'[r] # pc[r] => Work(r)' < Work(r)
    BY <1>1
  <1>3. QED
    BY <1>2, TypeCorrect, PTL DEF Spec, HandlerAdvances
=============================================================================
