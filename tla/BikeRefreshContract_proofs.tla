--------------------- MODULE BikeRefreshContract_proofs ---------------------
(***************************************************************************)
(* BikeRefresh without overlap implements RefreshContract: accepting a     *)
(* reply is Begin, opening the transaction of a row is Write, the progress *)
(* block is Release, and every other step of a handler is none of the      *)
(* contract's business.                                                    *)
(***************************************************************************)
EXTENDS BikeRefreshContract, BikeRefreshSerial_proofs

USE DEF serverVars, loopVars, counterVars, guardVars, storeVars, cameraVars

\* A step that is none of the contract's business.
Unseen ==
    /\ alive' = alive /\ isUpdating' = isUpdating
    /\ PendingRows' = PendingRows /\ Visible' = Visible

\* The contract sees the pending rows of the last reply accepted, and no other.
LEMMA SamePending ==
  ASSUME updater' = updater,
         updater # None => /\ reply'[updater] = reply[updater]
                           /\ Pending(updater)' = Pending(updater)
  PROVE  PendingRows' = PendingRows
  BY DEF PendingRows

\* No transaction is open while the handler at work is outside of one.
LEMMA OutsideTransaction ==
  ASSUME SerialInv, NEW r \in Requests,
         pc[r] \in Applying \ InTransaction \/ \A q \in Requests : pc[q] \notin InTransaction
  PROVE  lock = None
  <1>1. TypeOK /\ OneActive /\ LockInv
    BY DEF SerialInv
  <1>2. \A q \in Requests : pc[q] \notin InTransaction
    BY <1>1 DEF OneActive, Active, Applying, InTransaction, Labels
  <1>3. QED
    BY <1>1, <1>2 DEF TypeOK, LockInv

\* A request that has no reply accepted yet moves no row.
LEMMA UnseenBefore ==
  ASSUME ~Overlap, SerialInv, NEW r \in Requests, Tick(r) \/ Answer(r) \/ DropReply(r)
  PROVE  Unseen
  <1> USE NoneAssumption DEF Tick, Answer, DropReply, Step
  <1>1. TypeOK /\ LockInv /\ UpdaterInv /\ OneActive
    BY DEF SerialInv
  <1>2. pc[r] \in {"idle", "sent", "answered"}
    OBVIOUS
  <1>3. updater # r
    BY <1>1, <1>2 DEF UpdaterInv, Applying, Labels
  <1>4. lock # r
    BY <1>1, <1>2 DEF LockInv, InTransaction
  <1>5. Visible' = Visible
    BY <1>1, <1>4 DEF TypeOK, Visible, InTxn
  <1>6. updater # None => /\ reply'[updater] = reply[updater]
                          /\ Pending(updater)' = Pending(updater)
    BY <1>1, <1>3 DEF TypeOK, Pending, Typed
  <1>7. PendingRows' = PendingRows
    BY <1>6, SamePending
  <1>8. QED
    BY <1>5, <1>7 DEF Unseen

\* Walking over tables and rows moves no row either.
LEMMA UnseenLoop ==
  ASSUME ~Overlap, SerialInv, NEW r \in Requests, Loop(r)
  PROVE  Unseen
  <1> USE NoneAssumption DEF Step
  <1>1. TypeOK /\ LockInv /\ UpdaterInv /\ LoopInv
    BY DEF SerialInv
  <1>2. pc[r] \in Applying \ InTransaction
    BY DEF Loop, SetTotal, ZeroData, NextKey, NoKeyLeft, StoreKey, ZeroQuery, NextRow,
           NoRowLeft, LoadRow, StoreRow, Applying, InTransaction, Labels
  <1>3. updater = r /\ lock = None
    BY <1>1, <1>2, OutsideTransaction DEF UpdaterInv
  <1>4. UNCHANGED <<alive, isUpdating, updater, lock, stored, reply>>
    BY DEF Loop, SetTotal, ZeroData, NextKey, NoKeyLeft, StoreKey, ZeroQuery, NextRow,
           NoRowLeft, LoadRow, StoreRow
  <1>5. Visible' = Visible
    BY <1>3, <1>4 DEF Visible
  <1>6. CASE SetTotal(r) \/ ZeroData(r) \/ StoreKey(r) \/ ZeroQuery(r) \/ LoadRow(r)
    <2>1. Pending(r)' = Pending(r)
      BY <1>1, <1>6 DEF SetTotal, ZeroData, StoreKey, ZeroQuery, LoadRow, TypeOK,
                        Pending, Typed
    <2>2. QED
      BY <2>1, <1>3, <1>4, <1>5, SamePending DEF Unseen
  <1>7. CASE NextKey(r)
    <2>1. PICK t \in keysLeft[r] : /\ keysLeft'[r] = keysLeft[r] \ {t}
                                   /\ rowsLeft'[r] = RowsOf(r, t)
                                   /\ type'[r] = t
      BY <1>1, <1>7 DEF NextKey, TypeOK
    <2>2. rowsLeft[r] = {} /\ pc[r] = "nextKey" /\ pc'[r] = "storeKey"
      BY <1>1, <1>3, <1>7 DEF NextKey, UpdaterInv, TypeOK
    <2>3. Pending(r)' = Pending(r)
      BY <2>1, <2>2, <1>4 DEF Pending, Typed, RowsOf
    <2>4. QED
      BY <2>3, <1>3, <1>4, <1>5, SamePending DEF Unseen
  <1>8. CASE NextRow(r)
    <2>1. PICK s \in rowsLeft[r] : /\ rowsLeft'[r] = rowsLeft[r] \ {s}
                                   /\ row'[r] = s
      BY <1>1, <1>8 DEF NextRow, TypeOK
    <2>2. UNCHANGED <<keysLeft, type>> /\ pc[r] = "nextRow" /\ pc'[r] = "loadRow"
      BY <1>1, <1>8 DEF NextRow, TypeOK
    <2>3. type[r] \in Types /\ rowsLeft[r] \subseteq Stations
      BY <1>1, <2>2 DEF LoopInv, TypeOK, AtTable
    <2>4. Pending(r)' = Pending(r)
      BY <2>1, <2>2, <2>3, <1>4 DEF Pending, Typed
    <2>5. QED
      BY <2>4, <1>3, <1>4, <1>5, SamePending DEF Unseen
  <1>9. CASE StoreRow(r)
    <2>1. UNCHANGED <<keysLeft, rowsLeft, type, row>> /\ pc[r] = "storeRow"
      BY <1>9 DEF StoreRow
    <2>2. pc'[r] = "write" \/ ~Typed(r, type[r], row[r])
      BY <1>1, <1>9 DEF StoreRow, TypeOK, Typed
    <2>3. pc'[r] \in {"write", "nextRow"}
      BY <1>1, <1>9 DEF StoreRow, TypeOK
    <2>4. Pending(r)' = Pending(r)
      BY <2>1, <2>2, <2>3, <1>4 DEF Pending, Typed
    <2>5. QED
      BY <2>4, <1>3, <1>4, <1>5, SamePending DEF Unseen
  <1>10. CASE NoKeyLeft(r) \/ NoRowLeft(r)
    <2>1. Pending(r)' = Pending(r)
      BY <1>1, <1>10 DEF NoKeyLeft, NoRowLeft, TypeOK, Pending, Typed
    <2>2. QED
      BY <2>1, <1>3, <1>4, <1>5, SamePending DEF Unseen
  <1>11. QED
    BY <1>6, <1>7, <1>8, <1>9, <1>10 DEF Loop

\* Nor do the steps in a transaction after its first: the row is visible.
LEMMA UnseenTransaction ==
  ASSUME ~Overlap, SerialInv, NEW r \in Requests,
         ReadIsLastOne(r) \/ NoProgress(r) \/ FetchAll(r) \/ Commit(r)
  PROVE  Unseen
  <1> USE NoneAssumption DEF Step
  <1>1. TypeOK /\ LockInv /\ UpdaterInv
    BY DEF SerialInv
  <1>2. pc[r] \in InTransaction /\ pc[r] \in Applying
    BY DEF ReadIsLastOne, NoProgress, FetchAll, Commit, InTransaction, Applying, Labels
  <1>3. updater = r /\ lock = r
    BY <1>1, <1>2 DEF UpdaterInv, LockInv
  <1>4. /\ UNCHANGED <<alive, isUpdating, updater, reply, keysLeft, rowsLeft, type, row>>
        /\ pc'[r] \in InTransaction \cup {"nextRow"}
    BY <1>1 DEF ReadIsLastOne, NoProgress, FetchAll, Commit, TypeOK, InTransaction
  <1>5. Pending(r)' = Pending(r)
    BY <1>2, <1>4 DEF Pending, Typed, InTransaction
  <1>6. Visible' = Visible
    <2>1. CASE Commit(r)
      BY <2>1, <1>3 DEF Commit, Visible
    <2>2. CASE ~Commit(r)
      BY <2>2, <1>3, <1>4 DEF ReadIsLastOne, NoProgress, FetchAll, Visible, InTxn
    <2>3. QED
      BY <2>1, <2>2
  <1>7. QED
    BY <1>3, <1>4, <1>5, <1>6, SamePending DEF Unseen

\* What is visible is a table.
LEMMA VisibleType == TypeOK => Visible \in Table
  BY InTxnType DEF TypeOK, Visible

LEMMA VersionsAreNumbers ==
  ASSUME TypeOK
  PROVE  /\ serverVer \in Nat
         /\ \A r \in Requests : reply[r].ver \in Nat
         /\ \A t \in Types, s \in Stations : Visible[t][s] \in Nat
  BY VisibleType, BoundsAssumption DEF TypeOK, Reply, Version, Table

\* Nothing that is stored or in hand gets newer, and no request gets active with
\* a reply in hand.
LEMMA FreshFrame ==
  ASSUME TypeOK, FreshInv, Visible' = Visible, reply' = reply,
         serverVer' \in {serverVer, serverVer + 1},
         \A q \in Requests : /\ Active(q)' => Active(q) \/ pc[q] = "idle"
                             /\ pc'[q] \in {"idle", "sent"} => pc[q] \in {"idle", "sent"}
  PROVE  FreshInv'
  <1>1. \A t \in Types, s \in Stations : Visible'[t][s] <= serverVer'
    BY VersionsAreNumbers DEF FreshInv
  <1>2. ASSUME NEW r \in Requests
        PROVE  /\ reply'[r].ver <= serverVer'
               /\ reply'[r].kind # "rows" => reply'[r].ver = 0
               /\ pc'[r] \in {"idle", "sent"} => reply'[r] = NoReply
               /\ Active(r)' /\ reply'[r].kind = "rows" =>
                      \A t \in Types, s \in Stations : Visible'[t][s] <= reply'[r].ver
    <2>1. reply'[r].ver <= serverVer'
      BY <1>2, VersionsAreNumbers DEF FreshInv
    <2>2. pc[r] = "idle" => reply[r].kind # "rows"
      BY <1>2 DEF FreshInv, NoReply
    <2>3. QED
      BY <1>2, <2>1, <2>2 DEF FreshInv
  <1>3. QED
    BY <1>1, <1>2 DEF FreshInv

\* The server answers with its newest rows.
LEMMA FreshAnswer ==
  ASSUME SerialInv, FreshInv, NEW r \in Requests, Answer(r), Visible' = Visible
  PROVE  FreshInv'
  <1>1. TypeOK
    BY DEF SerialInv
  <1>2. PICK a \in Answers : reply' = [reply EXCEPT ![r] = a]
    BY DEF Answer
  <1>3. /\ a.ver \in {0, serverVer}
        /\ a.kind = "rows" => a.ver = serverVer
        /\ a.kind # "rows" => a.ver = 0
    BY DEF Answers, ErrorKinds
  <1>4. /\ reply'[r] = a /\ pc'[r] = "answered" /\ serverVer' = serverVer
        /\ \A q \in Requests : q # r => reply'[q] = reply[q] /\ pc'[q] = pc[q]
    BY <1>1, <1>2 DEF TypeOK, Answer, Step
  <1>5. reply'[r].ver <= serverVer
    BY <1>1, <1>3, <1>4, VersionsAreNumbers
  <1>6. QED
    BY <1>3, <1>4, <1>5 DEF FreshInv, Active

\* A row written has the version of the reply in hand.
LEMMA FreshWrite ==
  ASSUME SerialInv, FreshInv, NEW r \in Requests, BeginWrite(r)
  PROVE  /\ FreshInv'
         /\ \A t \in Types, s \in Stations :
               Visible'[t][s] = IF t = type[r] /\ s = row[r] THEN reply[r].ver
                                                             ELSE Visible[t][s]
         /\ type[r] \in Types /\ row[r] \in Stations
  <1> USE NoneAssumption DEF Step
  <1>1. TypeOK /\ OneActive /\ LoopInv /\ LockInv
    BY DEF SerialInv
  <1>2. pc[r] = "write" /\ pc' = [pc EXCEPT ![r] = "argLast"] /\ lock = None /\ lock' = r
    BY DEF BeginWrite
  <1>3. type[r] \in Types /\ row[r] \in Stations /\ reply[r].kind = "rows"
    BY <1>1, <1>2 DEF LoopInv, TypeOK, AtTable, AtRow, Applying, Labels, RowsOf
  <1>4. Visible = stored /\ Visible' = InTxn(r)
    BY <1>2 DEF BeginWrite, Visible, InTxn
  <1>5. \A t \in Types, s \in Stations :
           Visible'[t][s] = IF t = type[r] /\ s = row[r] THEN reply[r].ver
                                                         ELSE Visible[t][s]
    BY <1>1, <1>3, <1>4 DEF InTxn, TypeOK, Table
  <1>6. reply' = reply /\ serverVer' = serverVer
    BY DEF BeginWrite
  <1>7. \A t \in Types, s \in Stations :
           Visible'[t][s] <= serverVer /\ Visible'[t][s] <= reply[r].ver
    <2>1. Active(r)
      BY <1>2 DEF Active
    <2>2. /\ \A t \in Types, s \in Stations : Visible[t][s] <= serverVer
          /\ \A t \in Types, s \in Stations : Visible[t][s] <= reply[r].ver
          /\ reply[r].ver <= serverVer
      BY <1>3, <2>1 DEF FreshInv
    <2>3. QED
      BY <1>1, <1>5, <2>2, VersionsAreNumbers
  <1>8. \A q \in Requests : Active(q)' => q = r
    BY <1>1, <1>2 DEF OneActive, Active, TypeOK
  <1>9. \A q \in Requests : pc'[q] \in {"idle", "sent"} => pc[q] \in {"idle", "sent"}
    BY <1>1, <1>2 DEF TypeOK
  <1>10. FreshInv'
    BY <1>6, <1>7, <1>8, <1>9 DEF FreshInv
  <1>11. QED
    BY <1>3, <1>5, <1>10

LEMMA FreshInit == Init => FreshInv
  <1> SUFFICES ASSUME Init PROVE FreshInv
    OBVIOUS
  <1>1. Visible = Empty
    BY DEF Init, Visible
  <1>2. \A r \in Requests : reply[r] = NoReply /\ pc[r] = "idle"
    BY DEF Init
  <1>3. QED
    BY <1>1, <1>2 DEF Init, FreshInv, Empty, NoReply

LEMMA FreshLaunch == ASSUME TypeOK, Launch PROVE FreshInv'
  <1>1. Visible' = Empty
    BY DEF Launch, Visible
  <1>2. \A r \in Requests : reply'[r] = NoReply
    BY DEF Launch
  <1>3. QED
    BY <1>1, <1>2, VersionsAreNumbers DEF Launch, FreshInv, Empty, NoReply

\* What is stored is never newer than the reply in hand, nor that newer than
\* what the server has.
LEMMA FreshStep ==
  ASSUME ~Overlap, SerialInv, FreshInv, [Next]_vars
  PROVE  FreshInv'
  <1> USE DEF Step
  <1>1. TypeOK
    BY DEF SerialInv
  <1>2. ASSUME NEW r \in Requests, Tick(r) \/ Answer(r) \/ Handler(r) PROVE FreshInv'
    <2>1. CASE Answer(r)
      BY <1>2, <2>1, FreshAnswer, UnseenBefore DEF Unseen
    <2>2. CASE BeginWrite(r)
      BY <1>2, <2>2, FreshWrite
    <2>3. CASE ~Answer(r) /\ ~BeginWrite(r)
      <3>1. Visible' = Visible
        <4>1. CASE Tick(r) \/ DropReply(r)
          BY <1>2, <4>1, UnseenBefore DEF Unseen
        <4>2. CASE Loop(r)
          BY <1>2, <4>2, UnseenLoop DEF Unseen
        <4>3. CASE ReadIsLastOne(r) \/ NoProgress(r) \/ FetchAll(r) \/ Commit(r)
          BY <1>2, <4>3, UnseenTransaction DEF Unseen
        <4>4. CASE AcceptReply(r) \/ CrashOnFailure(r) \/ CrashOnRow(r) \/ Progress(r)
          BY <4>4 DEF AcceptReply, CrashOnFailure, CrashOnRow, Progress, Visible, InTxn
        <4>5. QED
          BY <1>2, <2>3, <4>1, <4>2, <4>3, <4>4 DEF Handler, Transaction
      <3>2. /\ reply' = reply /\ serverVer' = serverVer
            /\ \A q \in Requests : q # r => pc'[q] = pc[q]
            /\ pc'[r] = pc[r] \/ pc[r] = "idle" \/ (Active(r) /\ pc'[r] \notin {"idle", "sent"})
        <4> USE <1>1 DEF Active, TypeOK
        <4>1. CASE Tick(r) \/ DropReply(r) \/ AcceptReply(r) \/ CrashOnFailure(r) \/ CrashOnRow(r)
          BY <4>1 DEF Tick, DropReply, AcceptReply, CrashOnFailure, CrashOnRow
        <4>2. CASE Loop(r)
          BY <4>2 DEF Loop, SetTotal, ZeroData, NextKey, NoKeyLeft, StoreKey,
                      ZeroQuery, NextRow, NoRowLeft, LoadRow, StoreRow
        <4>3. CASE ReadIsLastOne(r) \/ Progress(r) \/ NoProgress(r) \/ FetchAll(r) \/ Commit(r)
          BY <4>3 DEF ReadIsLastOne, Progress, NoProgress, FetchAll, Commit
        <4>4. QED
          BY <1>2, <2>3, <4>1, <4>2, <4>3 DEF Handler, Transaction
      <3>3. \A q \in Requests : /\ Active(q)' => Active(q) \/ pc[q] = "idle"
                                /\ pc'[q] \in {"idle", "sent"} => pc[q] \in {"idle", "sent"}
        BY <3>2 DEF Active
      <3>4. QED
        BY <1>1, <3>1, <3>2, <3>3, FreshFrame
    <2>4. QED
      BY <2>1, <2>2, <2>3
  <1>3. CASE ServerAdvance \/ Main \/ Die \/ UNCHANGED vars
    <2>1. UNCHANGED <<pc, reply, lock, stored, type, row>>
      BY <1>3 DEF ServerAdvance, Main, CameraMove, CameraRead, CameraShow, MainStep,
                  Die, vars
    <2>2. serverVer' \in {serverVer, serverVer + 1}
      BY <1>3 DEF ServerAdvance, Main, CameraMove, CameraRead, CameraShow, MainStep,
                  Die, vars
    <2>3. QED
      BY <1>1, <2>1, <2>2, FreshFrame DEF Visible, InTxn, Active
  <1>4. CASE Launch
    BY <1>1, <1>4, FreshLaunch
  <1>5. QED
    BY <1>2, <1>3, <1>4 DEF Next

\* When requests do not overlap, a reply in hand is at least as new as anything
\* stored.
THEOREM SerialFresh ==
  ASSUME ~Overlap
  PROVE  Spec => []FreshInv
  <1>1. SerialInv /\ FreshInv /\ [Next]_vars => FreshInv'
    BY FreshStep
  <1>2. QED
    BY <1>1, FreshInit, SerialInvariant, PTL DEF Spec

\* Accepting a reply: the one before it is written, and its rows are news.
LEMMA AcceptIsBegin ==
  ASSUME ~Overlap, SerialInv, FreshInv, NEW r \in Requests, AcceptReply(r)
  PROVE  Contract!Begin
  <1> USE NoneAssumption DEF Step
  <1>1. TypeOK /\ OneActive /\ UpdaterInv
    BY DEF SerialInv
  <1>2. alive /\ isUpdating' = TRUE /\ alive' = alive /\ pc[r] = "answered"
    BY DEF AcceptReply
  <1>3. updater # None => pc[updater] = "ended"
    BY <1>1, <1>2 DEF TypeOK, OneActive, Active, UpdaterInv, Applying, Labels
  <1>4. updater # None => Pending(updater) = {}
    BY <1>1, <1>3 DEF UpdaterInv, Pending
  <1>5. PendingRows = Contract!NoRows
    BY <1>4 DEF PendingRows, Contract!NoRows
  <1>6. Visible' = Visible /\ reply' = reply /\ updater' = r /\ updater' # None
    BY DEF AcceptReply, Visible, InTxn
  <1>7. \A t \in Types, s \in Stations :
           PendingRows'[t][s] = IF <<t, s>> \in Pending(r)' THEN reply[r].ver ELSE 0
    BY <1>6 DEF PendingRows
  <1>8. reply[r].ver \in 0 .. MaxVer
    BY <1>1 DEF TypeOK, Reply, Version
  <1>9. PendingRows' \in Contract!Table
    BY <1>6, <1>8, BoundsAssumption DEF PendingRows, Contract!Table
  <1>10. reply[r].ver # 0 => \A t \in Types, s \in Stations : Visible[t][s] <= reply[r].ver
    BY <1>2 DEF FreshInv, Active
  <1>11. Contract!IsNews(PendingRows')
    BY <1>7, <1>10 DEF Contract!IsNews
  <1>12. QED
    BY <1>2, <1>5, <1>6, <1>9, <1>11 DEF Contract!Begin

\* Opening the transaction of a row: it is pending no longer, and visible.
LEMMA BeginWriteIsWrite ==
  ASSUME ~Overlap, SerialInv, FreshInv, NEW r \in Requests, BeginWrite(r)
  PROVE  Contract!Write
  <1> USE NoneAssumption DEF Step
  <1>1. TypeOK /\ LoopInv /\ UpdaterInv /\ QuietInv
    BY DEF SerialInv
  <1>2. /\ alive /\ alive' = alive /\ isUpdating' = isUpdating
        /\ pc[r] = "write" /\ pc' = [pc EXCEPT ![r] = "argLast"]
        /\ UNCHANGED <<reply, updater, keysLeft, rowsLeft, type, row>>
    BY DEF BeginWrite
  <1>3. updater = r /\ isUpdating
    BY <1>1, <1>2 DEF TypeOK, UpdaterInv, QuietInv, Applying, Labels
  <1>4. /\ type[r] \in Types \ keysLeft[r]
        /\ row[r] \in Stations \ rowsLeft[r]
        /\ Typed(r, type[r], row[r])
        /\ reply[r].ver # 0
    BY <1>1, <1>2 DEF TypeOK, LoopInv, AtTable, AtRow, RowsOf, Applying, Labels, InTransaction
  <1>5. <<type[r], row[r]>> \in Pending(r)
    BY <1>2, <1>4 DEF Pending
  <1>6. Pending(r)' = Pending(r) \ {<<type[r], row[r]>>}
    BY <1>1, <1>2, <1>4 DEF TypeOK, Pending, Typed
  <1>7. PendingRows[type[r]][row[r]] = reply[r].ver
    BY <1>3, <1>4, <1>5 DEF PendingRows
  <1>8. PendingRows' = [PendingRows EXCEPT ![type[r]][row[r]] = 0]
    BY <1>2, <1>3, <1>4, <1>6 DEF PendingRows
  <1>9. Visible' = [Visible EXCEPT ![type[r]][row[r]] = PendingRows[type[r]][row[r]]]
    BY <1>2, <1>7 DEF BeginWrite, Visible, InTxn
  <1>10. QED
    BY <1>2, <1>3, <1>4, <1>7, <1>8, <1>9 DEF Contract!Write

\* The progress block lowers isUpdating when nothing is pending.
LEMMA ProgressIsRelease ==
  ASSUME ~Overlap, SerialInv, NEW r \in Requests, Progress(r)
  PROVE  Contract!Release
  <1> USE NoneAssumption DEF Step
  <1>1. TypeOK /\ UpdaterInv
    BY DEF SerialInv
  <1>2. SerialInv'
    BY SerialProgress, NextTypeOK DEF SerialInv, Next, Handler, Transaction
  <1>3. /\ alive /\ alive' = alive /\ isUpdating' = FALSE
        /\ pc[r] = "argPercent" /\ pc' = [pc EXCEPT ![r] = "fetch"]
        /\ UNCHANGED <<reply, updater, keysLeft, rowsLeft, type, row, lock, stored>>
    BY DEF Progress
  <1>4. updater = r
    BY <1>1, <1>3 DEF UpdaterInv, Applying, Labels
  <1>5. keysLeft[r] = {} /\ rowsLeft[r] = {}
    BY <1>2, <1>3, <1>4 DEF SerialInv, QuietInv
  <1>6. Pending(r) = {} /\ Pending(r)' = {}
    BY <1>1, <1>3, <1>5 DEF TypeOK, Pending
  <1>7. PendingRows = Contract!NoRows /\ PendingRows' = PendingRows
    BY <1>3, <1>4, <1>6 DEF PendingRows, Contract!NoRows
  <1>8. Visible' = Visible
    BY <1>3 DEF Visible, InTxn
  <1>9. QED
    BY <1>3, <1>7, <1>8 DEF Contract!Release

LEMMA ContractAtInit == Init => Contract!Init
  BY DEF Init, Contract!Init, PendingRows, Visible, Empty, Contract!NoRows

\* Every step is a step of the contract, or none of its business.
LEMMA ContractStep ==
  ASSUME ~Overlap, SerialInv, FreshInv, [Next]_vars
  PROVE  [Contract!Next]_(Contract!contractVars)
  <1>1. Unseen => UNCHANGED Contract!contractVars
    BY DEF Unseen, Contract!contractVars
  <1>2. ASSUME NEW r \in Requests, Tick(r) \/ Answer(r) \/ Handler(r)
        PROVE  [Contract!Next]_(Contract!contractVars)
    <2>1. CASE Tick(r) \/ Answer(r) \/ DropReply(r)
      BY <1>1, <2>1, UnseenBefore
    <2>2. CASE Loop(r)
      BY <1>1, <2>2, UnseenLoop
    <2>3. CASE ReadIsLastOne(r) \/ NoProgress(r) \/ FetchAll(r) \/ Commit(r)
      BY <1>1, <2>3, UnseenTransaction
    <2>4. CASE AcceptReply(r)
      BY <2>4, AcceptIsBegin DEF Contract!Next
    <2>5. CASE BeginWrite(r)
      BY <2>5, BeginWriteIsWrite DEF Contract!Next
    <2>6. CASE Progress(r)
      BY <2>6, ProgressIsRelease DEF Contract!Next
    <2>7. CASE CrashOnFailure(r) \/ CrashOnRow(r)
      BY <2>7 DEF CrashOnFailure, CrashOnRow, Contract!Next, Contract!Crash,
                  PendingRows, Pending, Typed, Visible, InTxn
    <2>8. QED
      BY <1>2, <2>1, <2>2, <2>3, <2>4, <2>5, <2>6, <2>7 DEF Handler, Transaction
  <1>3. CASE ServerAdvance \/ Main \/ UNCHANGED vars
    <2>1. UNCHANGED <<alive, isUpdating, updater, reply, keysLeft, rowsLeft, type, row,
                      pc, lock, stored>>
      BY <1>3 DEF ServerAdvance, Main, CameraMove, CameraRead, CameraShow, MainStep, vars
    <2>2. Unseen
      BY <2>1 DEF Unseen, PendingRows, Pending, Typed, Visible, InTxn
    <2>3. QED
      BY <1>1, <2>2
  <1>4. CASE Die
    BY <1>4 DEF Die, Contract!Next, Contract!Crash, PendingRows, Pending, Typed,
                Visible, InTxn
  <1>5. CASE Launch
    BY <1>5 DEF Launch, Contract!Next, Contract!Launch, Contract!NoRows, PendingRows,
                Visible, Empty
  <1>6. QED
    BY <1>2, <1>3, <1>4, <1>5 DEF Next

\* BikeRefresh implements RefreshContract when its requests do not overlap.
THEOREM SerialKeepsContract ==
  ASSUME ~Overlap
  PROVE  Spec => KeepsContract
  <1>1. SerialInv /\ FreshInv /\ [Next]_vars => [Contract!Next]_(Contract!contractVars)
    BY ContractStep
  <1>2. QED
    BY <1>1, ContractAtInit, SerialInvariant, SerialFresh, PTL
       DEF Spec, KeepsContract, Contract!Spec

\* No stored row goes back or away while the process lives.
THEOREM SerialStoredOnlyGrows ==
  ASSUME ~Overlap
  PROVE  Spec => StoredOnlyGrows
  <1>1. ASSUME SerialInv, FreshInv, [Next]_vars, alive
        PROVE  \A t \in Types, s \in Stations : Visible[t][s] <= Visible'[t][s]
    <2> USE DEF SerialInv
    <2>1. \A t \in Types, s \in Stations : Visible[t][s] \in Nat
      BY <1>1, VersionsAreNumbers
    <2>2. CASE Contract!Write
      <3>1. PICK t \in Types, s \in Stations :
               /\ PendingRows[t][s] # 0
               /\ Visible' = [Visible EXCEPT ![t][s] = PendingRows[t][s]]
        BY <2>2 DEF Contract!Write
      <3>2. /\ updater # None /\ <<t, s>> \in Pending(updater)
            /\ PendingRows[t][s] = reply[updater].ver
        BY <3>1 DEF PendingRows
      <3>3. updater \in Requests /\ pc[updater] # "ended"
        BY <1>1, <3>2 DEF UpdaterInv, Pending, TypeOK
      <3>4. Active(updater)
        BY <1>1, <3>2, <3>3 DEF UpdaterInv, Applying, Labels, Active
      <3>5. Visible[t][s] <= reply[updater].ver
        BY <1>1, <3>1, <3>2, <3>3, <3>4 DEF FreshInv
      <3>6. Visible \in Table
        BY <1>1, VisibleType
      <3>7. QED
        BY <2>1, <3>1, <3>2, <3>5, <3>6 DEF Table
    <2>3. CASE ~Contract!Write
      <3>1. Visible' = Visible
        BY <1>1, <2>3, ContractStep DEF Contract!Next, Contract!Begin, Contract!Release,
           Contract!Crash, Contract!Launch, Contract!contractVars
      <3>2. QED
        BY <2>1, <3>1
    <2>4. QED
      BY <2>2, <2>3
  <1>2. SerialInv /\ FreshInv /\ [Next]_vars =>
          (alive => \A t \in Types, s \in Stations : Visible[t][s] <= Visible'[t][s])
    BY <1>1
  <1>3. QED
    BY <1>2, SerialInvariant, SerialFresh, PTL
       DEF Spec, StoredOnlyGrows, Contract!RowsOnlyGrow
-----------------------------------------------------------------------------
(* What the map shows is stored.                                           *)

\* What a reader in the transaction sees changes when a transaction is opened, and
\* at a launch; not when it is committed, nor by another handler.
LEMMA VisibleSteps ==
  ASSUME OverlapInv, [Next]_vars, ~Launch
  PROVE  \/ Visible' = Visible
         \/ \E r \in Requests : /\ pc[r] = "write" /\ BeginWrite(r)
                               /\ Visible = stored /\ Visible' = InTxn(r)
  <1> USE NoneAssumption DEF Step
  <1>0. TypeOK /\ LockInv /\ RestInv
    BY DEF OverlapInv
  <1>1. lock # None => lock \in Requests /\ pc[lock] \in InTransaction
    BY <1>0 DEF TypeOK, LockInv
  <1>2. ASSUME NEW r \in Requests, Tick(r) \/ Answer(r) PROVE Visible' = Visible
    <2>1. pc[r] \notin InTransaction
      BY <1>2 DEF Tick, Answer, InTransaction
    <2>2. lock # None => reply'[lock] = reply[lock]
      BY <1>0, <1>1, <1>2, <2>1 DEF Tick, Answer, TypeOK
    <2>3. QED
      BY <1>2, <2>2 DEF Tick, Answer, Visible, InTxn
  <1>3. ASSUME NEW r \in Requests, Handler(r), ~BeginWrite(r) PROVE Visible' = Visible
    <2>1. CASE lock = r
      <3>1. pc[r] \in InTransaction
        BY <1>1, <2>1
      <3>2. ReadIsLastOne(r) \/ Progress(r) \/ NoProgress(r) \/ FetchAll(r) \/ Commit(r)
        BY <1>3, <3>1
           DEF Handler, DropReply, AcceptReply, CrashOnFailure, CrashOnRow, Loop, SetTotal,
               ZeroData, NextKey, NoKeyLeft, StoreKey, ZeroQuery, NextRow, NoRowLeft,
               LoadRow, StoreRow, Transaction, InTransaction
      <3>3. QED
        BY <2>1, <3>2 DEF ReadIsLastOne, Progress, NoProgress, FetchAll, Commit, Visible, InTxn
    <2>2. CASE lock # r
      <3>1. pc[r] \notin InTransaction
        BY <1>0, <2>2 DEF LockInv
      <3>2. UNCHANGED <<lock, stored>>
        BY <1>3, <3>1
           DEF Handler, DropReply, AcceptReply, CrashOnFailure, CrashOnRow, Loop, SetTotal,
               ZeroData, NextKey, NoKeyLeft, StoreKey, ZeroQuery, NextRow, NoRowLeft,
               LoadRow, StoreRow, Transaction, ReadIsLastOne, Progress, NoProgress,
               FetchAll, Commit, InTransaction
      <3>3. lock # None => /\ reply'[lock] = reply[lock]
                           /\ type'[lock] = type[lock] /\ row'[lock] = row[lock]
        BY <1>0, <1>1, <1>3, <2>2, OwnLoop
      <3>4. QED
        BY <3>2, <3>3 DEF Visible, InTxn
    <2>3. QED
      BY <2>1, <2>2
  <1>4. ASSUME NEW r \in Requests, BeginWrite(r)
        PROVE  pc[r] = "write" /\ Visible = stored /\ Visible' = InTxn(r)
    BY <1>4 DEF BeginWrite, Visible, InTxn
  <1>5. CASE ServerAdvance \/ Main \/ Die \/ UNCHANGED vars
    BY <1>5 DEF ServerAdvance, Main, CameraMove, CameraRead, CameraShow, MainStep, Die,
                vars, Visible, InTxn
  <1>6. QED
    BY <1>2, <1>3, <1>4, <1>5 DEF Next

\* Where a row of the store, of a camera fetch or of the map comes from.
LEMMA RowSources ==
  ASSUME OverlapInv, [Next]_vars, ~Launch, NEW t \in Types, NEW s \in Stations
  PROVE  /\ stored'[t][s] \in {stored[t][s], Visible[t][s]}
         /\ snap'[t][s] \in {snap[t][s], stored[t][s], 0}
         /\ shown'[t][s] \in {shown[t][s], Visible[t][s], snap[t][s]}
  <1> USE NoneAssumption DEF Step, MainStep
  <1>0. TypeOK /\ LockInv
    BY DEF OverlapInv
  <1>1. \A r \in Requests : pc[r] \in InTransaction => InTxn(r) = Visible
    BY <1>0 DEF LockInv, Visible
  <1>2. \A old, read, where :
           Merge(old, read, where)[t][s] \in {old[t][s], read[t][s]}
    BY DEF Merge
  <1>3. \A new : \A m \in Renewed(new) : m[t][s] \in {shown[t][s], new[t][s]}
    BY DEF Renewed
  <1>4. ASSUME NEW r \in Requests, FetchAll(r)
        PROVE  UNCHANGED <<stored, snap>> /\ shown'[t][s] \in {shown[t][s], Visible[t][s]}
    <2>1. UNCHANGED <<stored, snap>> /\ pc[r] \in InTransaction
      BY <1>4 DEF FetchAll, InTransaction
    <2>2. \/ shown' = shown
          \/ shown' \in Renewed(Merge(shown, InTxn(r), Types \X Stations))
      BY <1>4 DEF FetchAll
    <2>3. QED
      BY <1>1, <1>2, <1>3, <2>1, <2>2
  <1>5. ASSUME NEW r \in Requests, Commit(r)
        PROVE  UNCHANGED <<shown, snap>> /\ stored'[t][s] = Visible[t][s]
    BY <1>1, <1>5 DEF Commit, InTransaction
  <1>6. CASE CameraRead
    BY <1>2, <1>6 DEF CameraRead, Empty
  <1>7. CASE CameraShow
    <2>1. shown' \in Renewed(Merge(shown, snap, area)) /\ snap' = Empty /\ stored' = stored
      BY <1>7 DEF CameraShow
    <2>2. QED
      BY <1>2, <1>3, <2>1 DEF Empty
  <1>8. ASSUME NEW r \in Requests,
               Tick(r) \/ Answer(r) \/ (Handler(r) /\ ~FetchAll(r) /\ ~Commit(r))
        PROVE  UNCHANGED <<stored, snap, shown>>
    BY <1>8
       DEF Tick, Answer, Handler, DropReply, AcceptReply, CrashOnFailure, CrashOnRow, Loop,
           SetTotal, ZeroData, NextKey, NoKeyLeft, StoreKey, ZeroQuery, NextRow, NoRowLeft,
           LoadRow, StoreRow, Transaction, BeginWrite, ReadIsLastOne, Progress, NoProgress
  <1>9. CASE ServerAdvance \/ CameraMove \/ Die \/ UNCHANGED vars
    BY <1>9 DEF ServerAdvance, CameraMove, Die, vars
  <1>10. QED
    BY <1>4, <1>5, <1>6, <1>7, <1>8, <1>9 DEF Next, Main

\* The rows of one table are in the other, and not newer while requests take turns.
NotMore(a, b) ==
  \A t \in Types, s \in Stations :
      /\ a[t][s] # 0 => b[t][s] # 0
      /\ ~Overlap => a[t][s] <= b[t][s]

\* ShownIsStored on the way: the same of what is committed and of what the main
\* thread has read.
ShownInv == NotMore(stored, Visible) /\ NotMore(snap, Visible) /\ NotMore(shown, Visible)

\* What the other invariants say, with and without overlap.
RefreshInv == OverlapInv /\ (~Overlap => SerialInv /\ FreshInv)

LEMMA RefreshInvariant == Spec => []RefreshInv
  <1>1. CASE Overlap
    <2>1. OverlapInv => RefreshInv
      BY <1>1 DEF RefreshInv
    <2>2. QED
      BY <2>1, OverlapInvariant, PTL
  <1>2. CASE ~Overlap
    <2>1. OverlapInv /\ SerialInv /\ FreshInv => RefreshInv
      BY DEF RefreshInv
    <2>2. QED
      BY <1>2, <2>1, OverlapInvariant, SerialInvariant, SerialFresh, PTL
  <1>3. QED
    BY <1>1, <1>2

\* A row that can be seen stays.
LEMMA VisibleGrows ==
  ASSUME RefreshInv, [Next]_vars, ~Launch
  PROVE  NotMore(Visible, Visible')
  <1>1. TypeOK /\ LoopInv
    BY DEF RefreshInv, OverlapInv
  <1>2. CASE Visible' = Visible
    BY <1>1, <1>2, VersionsAreNumbers DEF NotMore
  <1>3. ASSUME NEW r \in Requests, pc[r] = "write", BeginWrite(r),
               Visible = stored, Visible' = InTxn(r)
        PROVE  NotMore(Visible, Visible')
    <2>1. /\ type[r] \in Types /\ row[r] \in Stations
          /\ reply[r].kind = "rows" /\ reply[r].ver # 0
      BY <1>1, <1>3 DEF LoopInv, TypeOK, AtTable, AtRow, Applying, Labels, RowsOf
    <2>2. \A t \in Types, s \in Stations :
             Visible'[t][s] = IF t = type[r] /\ s = row[r] THEN reply[r].ver ELSE Visible[t][s]
      BY <1>1, <1>3, <2>1 DEF InTxn, TypeOK, Table
    <2>3. ~Overlap => \A t \in Types, s \in Stations : Visible[t][s] <= reply[r].ver
      BY <1>3, <2>1 DEF RefreshInv, FreshInv, Active
    <2>4. QED
      BY <1>1, <2>1, <2>2, <2>3, VersionsAreNumbers DEF NotMore
  <1>4. QED
    BY <1>2, <1>3, VisibleSteps DEF RefreshInv

\* No step shows, reads or commits a row that is not there.
LEMMA ShownStep == RefreshInv /\ RefreshInv' /\ ShownInv /\ [Next]_vars => ShownInv'
  <1> SUFFICES ASSUME RefreshInv, RefreshInv', ShownInv, [Next]_vars PROVE ShownInv'
    OBVIOUS
  <1>1. TypeOK /\ TypeOK'
    BY DEF RefreshInv, OverlapInv
  <1>2. CASE Launch
    <2>1. stored' = Empty /\ snap' = Empty /\ shown' = Empty /\ Visible' = Empty
      BY <1>2 DEF Launch, Visible
    <2>2. QED
      BY <2>1 DEF ShownInv, NotMore, Empty
  <1>3. CASE ~Launch
    <2> SUFFICES ASSUME NEW t \in Types, NEW s \in Stations
                 PROVE  \A n \in {stored'[t][s], snap'[t][s], shown'[t][s]} :
                           /\ n # 0 => Visible'[t][s] # 0
                           /\ ~Overlap => n <= Visible'[t][s]
      BY DEF ShownInv, NotMore
    <2>1. \A n \in {stored'[t][s], snap'[t][s], shown'[t][s]} :
             n \in {stored[t][s], Visible[t][s], snap[t][s], shown[t][s], 0}
      BY <1>3, RowSources DEF RefreshInv
    <2>2. \A n \in {stored[t][s], Visible[t][s], snap[t][s], shown[t][s], 0} :
             /\ n \in Nat
             /\ n # 0 => Visible[t][s] # 0
             /\ ~Overlap => n <= Visible[t][s]
      <3>1. /\ stored[t][s] \in Nat /\ snap[t][s] \in Nat /\ shown[t][s] \in Nat
            /\ Visible[t][s] \in Nat
        BY <1>1, VersionsAreNumbers, BoundsAssumption DEF TypeOK, Table, Version
      <3>2. QED
        BY <3>1 DEF ShownInv, NotMore
    <2>3. /\ Visible[t][s] # 0 => Visible'[t][s] # 0
          /\ ~Overlap => Visible[t][s] <= Visible'[t][s]
      BY <1>3, VisibleGrows DEF NotMore
    <2>4. Visible[t][s] \in Nat
      BY <1>1, VersionsAreNumbers
    <2>5. Visible'[t][s] \in Nat
      <3>1. Visible' \in Table
        <4>1. /\ stored' \in Table /\ lock' \in Requests \cup {None}
              /\ reply' \in [Requests -> Reply]
          BY <1>1 DEF TypeOK
        <4>2. QED
          BY <4>1 DEF Visible, InTxn, Table, Reply
      <3>2. QED
        BY <3>1, BoundsAssumption DEF Table, Version
    <2>6. QED
      BY <2>1, <2>2, <2>3, <2>4, <2>5
  <1>4. QED
    BY <1>2, <1>3

\* What the map has been given is stored, however handlers and camera interleave,
\* and no newer than what is stored when requests do not overlap.
THEOREM ShownStored == Spec => []ShownIsStored
  <1>1. Init => ShownInv
    <2> SUFFICES ASSUME Init PROVE ShownInv
      OBVIOUS
    <2>1. stored = Empty /\ snap = Empty /\ shown = Empty /\ Visible = Empty
      BY DEF Init, Visible
    <2>2. QED
      BY <2>1 DEF ShownInv, NotMore, Empty
  <1>2. ShownInv => ShownIsStored
    BY DEF ShownInv, NotMore, ShownIsStored
  <1>3. QED
    BY <1>1, <1>2, RefreshInvariant, ShownStep, PTL DEF Spec
-----------------------------------------------------------------------------
(* The handlers, as the map sees them, take the steps of RowFeed.          *)

\* What the feed shows of a step that stores no first row, leaves isUpdating and
\* does not move the request at work out of its handler: nothing.
LEMMA FeedRests ==
  ASSUME Visible' = Visible, isUpdating' = isUpdating, updater' = updater,
         updater # None => (pc'[updater] \in Applying <=> pc[updater] \in Applying)
  PROVE  UNCHANGED Feed!feedVars
  BY DEF Feed!feedVars, StoredKeys, MayWrite

\* Accepting a reply begins: the handler before has ended.
LEMMA AcceptFeeds ==
  ASSUME ~Overlap, SerialInv, NEW r \in Requests, AcceptReply(r)
  PROVE  Feed!Begin
  <1> USE NoneAssumption DEF Step
  <1>1. TypeOK /\ OneActive /\ UpdaterInv
    BY DEF SerialInv
  <1>2. /\ pc[r] = "answered" /\ pc'[r] = "setTotal"
        /\ isUpdating' = TRUE /\ updater' = r /\ Visible' = Visible
    BY <1>1 DEF AcceptReply, TypeOK, Visible, InTxn
  <1>3. updater # None => pc[updater] = "ended"
    BY <1>1, <1>2 DEF TypeOK, OneActive, Active, UpdaterInv, Applying, Labels
  <1>4. ~MayWrite /\ MayWrite'
    BY <1>2, <1>3 DEF MayWrite, Applying, Labels
  <1>5. QED
    BY <1>2, <1>4 DEF Feed!Begin, StoredKeys

\* The walk over tables and rows ends without a word when isUpdating is still up.
LEMMA LoopFeeds ==
  ASSUME ~Overlap, SerialInv, NEW r \in Requests, Loop(r)
  PROVE  [Feed!Next]_(Feed!feedVars)
  <1> USE NoneAssumption DEF Step
  <1>1. TypeOK /\ UpdaterInv
    BY DEF SerialInv
  <1>2. /\ pc[r] \in Applying /\ UNCHANGED <<isUpdating, updater>>
        /\ NoKeyLeft(r) \/ pc'[r] \in Applying
    BY <1>1 DEF TypeOK, Loop, SetTotal, ZeroData, NextKey, NoKeyLeft, StoreKey, ZeroQuery,
                NextRow, NoRowLeft, LoadRow, StoreRow, Applying, Labels
  <1>3. updater = r /\ Visible' = Visible
    BY <1>1, <1>2, UnseenLoop DEF UpdaterInv, Unseen
  <1>4. CASE NoKeyLeft(r)
    <2>1. pc'[r] = "ended" /\ ~MayWrite'
      BY <1>1, <1>2, <1>3, <1>4 DEF NoKeyLeft, TypeOK, MayWrite, Applying
    <2>2. MayWrite <=> isUpdating
      BY <1>2, <1>3 DEF MayWrite
    <2>3. QED
      BY <1>2, <1>3, <2>1, <2>2
         DEF Feed!Next, Feed!EndDeaf, Feed!feedVars, StoredKeys, MayWrite
  <1>5. CASE pc'[r] \in Applying
    BY <1>2, <1>3, <1>5, FeedRests
  <1>6. QED
    BY <1>2, <1>4, <1>5

\* Opening the transaction of a row is the station's first row, or a newer one.
LEMMA BeginWriteFeeds ==
  ASSUME ~Overlap, SerialInv, FreshInv, NEW r \in Requests, BeginWrite(r)
  PROVE  [Feed!Next]_(Feed!feedVars)
  <1> USE NoneAssumption DEF Step
  <1>1. TypeOK /\ UpdaterInv /\ QuietInv /\ LoopInv
    BY DEF SerialInv
  <1>2. /\ pc[r] = "write" /\ pc'[r] = "argLast"
        /\ UNCHANGED <<isUpdating, updater>>
    BY <1>1 DEF BeginWrite, TypeOK
  <1>3. pc[r] \in Applying /\ pc'[r] \in Applying
    BY <1>2 DEF Applying, Labels
  <1>4. updater = r /\ isUpdating
    BY <1>1, <1>2, <1>3 DEF UpdaterInv, QuietInv
  <1>5. MayWrite /\ MayWrite'
    BY <1>2, <1>3, <1>4 DEF MayWrite
  <1> DEFINE k == <<type[r], row[r]>>
  <1>6. /\ k \in Types \X Stations
        /\ \A t \in Types, s \in Stations :
              Visible'[t][s] = IF t = type[r] /\ s = row[r] THEN reply[r].ver
                                                            ELSE Visible[t][s]
    BY FreshWrite
  <1>7. reply[r].ver # 0
    BY <1>1, <1>2 DEF LoopInv, Applying, Labels
  <1>8. StoredKeys' = StoredKeys \cup {k}
    BY <1>6, <1>7 DEF StoredKeys
  <1> HIDE DEF k
  <1>9. CASE k \in StoredKeys
    BY <1>2, <1>5, <1>8, <1>9 DEF Feed!feedVars
  <1>10. CASE k \notin StoredKeys
    BY <1>2, <1>5, <1>6, <1>8, <1>10 DEF Feed!Next, Feed!Write
  <1>11. QED
    BY <1>9, <1>10

\* The progress block announces the end.
LEMMA ProgressFeeds ==
  ASSUME ~Overlap, SerialInv, NEW r \in Requests, Progress(r)
  PROVE  [Feed!Next]_(Feed!feedVars)
  <1> USE NoneAssumption DEF Step
  <1>1. UpdaterInv /\ pc[r] = "argPercent"
    BY DEF SerialInv, Progress
  <1>2. updater = r /\ pc[r] \in Applying
    BY <1>1 DEF UpdaterInv, Applying, Labels
  <1>3. isUpdating' = FALSE /\ ~MayWrite' /\ Visible' = Visible
    BY DEF Progress, MayWrite, Visible, InTxn
  <1>4. MayWrite <=> isUpdating
    BY <1>2 DEF MayWrite
  <1>5. MayWrite \in BOOLEAN /\ isUpdating \in BOOLEAN
    BY DEF SerialInv, TypeOK, MayWrite
  <1>6. QED
    BY <1>3, <1>4, <1>5 DEF Feed!Next, Feed!End, Feed!feedVars, StoredKeys, MayWrite

LEMMA FeedStep ==
  ASSUME ~Overlap, SerialInv, FreshInv, [Next]_vars
  PROVE  [Feed!Next]_(Feed!feedVars)
  <1> USE NoneAssumption DEF Step
  <1>1. TypeOK /\ UpdaterInv
    BY DEF SerialInv
  <1>2. ASSUME NEW r \in Requests, Tick(r) \/ Answer(r) \/ Handler(r)
        PROVE  [Feed!Next]_(Feed!feedVars)
    <2>1. CASE Tick(r) \/ Answer(r) \/ DropReply(r)
      <3>1. UNCHANGED <<Visible, isUpdating, updater>>
        BY <2>1, UnseenBefore DEF Unseen, Tick, Answer, DropReply
      <3>2. pc[r] \notin Applying /\ \A q \in Requests : q # r => pc'[q] = pc[q]
        BY <1>1, <2>1 DEF Tick, Answer, DropReply, Applying, TypeOK
      <3>3. updater # r
        <4>1. pc[r] # "ended"
          BY <2>1 DEF Tick, Answer, DropReply
        <4>2. QED
          BY <1>1, <3>2, <4>1 DEF UpdaterInv
      <3>4. QED
        BY <1>1, <3>1, <3>2, <3>3, FeedRests DEF TypeOK
    <2>2. CASE ReadIsLastOne(r) \/ NoProgress(r) \/ FetchAll(r) \/ Commit(r)
      <3>1. UNCHANGED <<Visible, isUpdating, updater>>
        BY <2>2, UnseenTransaction DEF Unseen, ReadIsLastOne, NoProgress, FetchAll, Commit
      <3>2. pc[r] \in Applying /\ pc'[r] \in Applying
        BY <1>1, <2>2 DEF ReadIsLastOne, NoProgress, FetchAll, Commit, TypeOK, Applying, Labels
      <3>3. QED
        BY <1>1, <3>1, <3>2, FeedRests DEF UpdaterInv
    <2>3. CASE CrashOnFailure(r) \/ CrashOnRow(r)
      BY <2>3, FeedRests DEF CrashOnFailure, CrashOnRow, Visible, InTxn
    <2>4. QED
      BY <1>2, <2>1, <2>2, <2>3, AcceptFeeds, LoopFeeds, BeginWriteFeeds, ProgressFeeds
         DEF Handler, Transaction, Feed!Next
  <1>3. CASE ServerAdvance \/ Main \/ Die \/ UNCHANGED vars
    <2>1. UNCHANGED <<isUpdating, updater, pc, lock, stored, reply, type, row>>
      BY <1>3 DEF ServerAdvance, Main, CameraMove, CameraRead, CameraShow, MainStep, Die, vars
    <2>2. QED
      BY <2>1, FeedRests DEF Visible, InTxn
  <1>4. CASE Launch
    BY <1>4 DEF Launch, Feed!Next, Feed!Launch, StoredKeys, MayWrite, Visible, Empty
  <1>5. QED
    BY <1>2, <1>3, <1>4 DEF Next

\* What MarkerMap takes its environment to do is what the handlers do, when one
\* refresh follows another: first rows come only while an update is at work and
\* isUpdating is up, and the end that is announced comes after the last of them.
THEOREM SerialFeedsMap ==
  ASSUME ~Overlap
  PROVE  Spec => FeedsMap
  <1>1. Init => Feed!Init
    BY DEF Init, Feed!Init, StoredKeys, MayWrite, Visible, Empty
  <1>2. SerialInv /\ FreshInv /\ [Next]_vars => [Feed!Next]_(Feed!feedVars)
    BY FeedStep
  <1>3. QED
    BY <1>1, <1>2, SerialInvariant, SerialFresh, PTL DEF Spec, FeedsMap, Feed!Spec
=============================================================================
