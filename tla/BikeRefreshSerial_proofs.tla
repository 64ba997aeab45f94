--------------------- MODULE BikeRefreshSerial_proofs ---------------------
(* What isUpdating guarantees when refreshes do not overlap.               *)
EXTENDS BikeRefreshInv, BikeRefresh_proofs

USE DEF serverVars, loopVars, counterVars, guardVars, storeVars, cameraVars

\* The sets the loops count are finite, and taking a member out takes one off.
LEMMA Countable ==
  ASSUME TypeOK, NEW r \in Requests, NEW t
  PROVE  /\ IsFiniteSet(Types) /\ Cardinality(Types) \in Nat
         /\ IsFiniteSet(keysLeft[r]) /\ Cardinality(keysLeft[r]) \in Nat
         /\ Cardinality(keysLeft[r]) <= Cardinality(Types)
         /\ Cardinality(keysLeft[r]) = 0 <=> keysLeft[r] = {}
         /\ IsFiniteSet(rowsLeft[r]) /\ Cardinality(rowsLeft[r]) \in Nat
         /\ Cardinality(rowsLeft[r]) = 0 <=> rowsLeft[r] = {}
         /\ IsFiniteSet(RowsOf(r, t)) /\ Cardinality(RowsOf(r, t)) \in Nat
         /\ \A k \in keysLeft[r] :
                Cardinality(keysLeft[r] \ {k}) = Cardinality(keysLeft[r]) - 1
         /\ \A s \in rowsLeft[r] :
                Cardinality(rowsLeft[r] \ {s}) = Cardinality(rowsLeft[r]) - 1
  <1>1. keysLeft[r] \subseteq Types /\ rowsLeft[r] \subseteq Stations
    BY DEF TypeOK
  <1>2. IsFiniteSet(keysLeft[r]) /\ IsFiniteSet(rowsLeft[r])
    BY <1>1, TypesAssumption, StationsAssumption, FS_Subset
  <1>3. Cardinality(keysLeft[r]) <= Cardinality(Types)
    BY <1>1, TypesAssumption, FS_Subset
  <1>4. /\ Cardinality(keysLeft[r]) = 0 <=> keysLeft[r] = {}
        /\ Cardinality(rowsLeft[r]) = 0 <=> rowsLeft[r] = {}
    BY <1>2, FS_EmptySet
  <1>5. /\ \A k \in keysLeft[r] :
               Cardinality(keysLeft[r] \ {k}) = Cardinality(keysLeft[r]) - 1
        /\ \A s \in rowsLeft[r] :
               Cardinality(rowsLeft[r] \ {s}) = Cardinality(rowsLeft[r]) - 1
    BY <1>2, FS_RemoveElement
  <1>6. QED
    BY <1>2, <1>3, <1>4, <1>5, RowCount, TypesAssumption, FS_CardinalityType

\* While the handler of r is at work, the other requests are idle or ended.
LEMMA OthersInactive ==
  ASSUME TypeOK, OneActive, NEW r \in Requests, NEW q \in Requests, q # r,
         pc[r] \in Applying
  PROVE  pc[q] \in {"idle", "ended"}
  BY DEF TypeOK, OneActive, Active, Applying

\* A tick starts a request only when no other is under way.
LEMMA SerialTick ==
  ASSUME ~Overlap, SerialInv, TypeOK', NEW r \in Requests, Tick(r)
  PROVE  SerialInv'
  <1> USE NoneAssumption DEF Step, Labels, Applying, InTransaction, AtRow, AtTable
  <1>0. TypeOK /\ OneActive /\ LockInv /\ UpdaterInv /\ LoopInv /\ CountInv /\ StoredInv /\ QuietInv
    BY DEF SerialInv
  <1>1. OneActive'
    BY <1>0 DEF TypeOK, Tick, OneActive, Active, LoopInv
  <1>2. LockInv'
    BY <1>0 DEF TypeOK, Tick, LockInv, OneActive, Active, LoopInv
  <1>3. UpdaterInv'
    BY <1>0 DEF TypeOK, Tick, UpdaterInv, Applying, OneActive, Active, LoopInv
  <1>4. LoopInv'
    BY <1>0 DEF TypeOK, Tick, LoopInv, RowsOf, Typed, OneActive, Active
  <1>5. CountInv'
    BY <1>0 DEF TypeOK, Tick, CountInv, Visited, Seen, RowsOf, OneActive, Active, LoopInv
  <1>6. StoredInv'
    BY <1>0 DEF TypeOK, Tick, StoredInv, Pending, Visible, InTxn, Typed, OneActive, Active, LoopInv
  <1>7. QuietInv'
    BY <1>0 DEF TypeOK, Tick, QuietInv, OneActive, Active, LoopInv
  <1>8. QED
    BY <1>1, <1>2, <1>3, <1>4, <1>5, <1>6, <1>7 DEF SerialInv

\* An answer changes nothing but the reply of the one active request.
LEMMA SerialAnswer ==
  ASSUME ~Overlap, SerialInv, TypeOK', NEW r \in Requests, Answer(r)
  PROVE  SerialInv'
  <1> USE NoneAssumption DEF Step, Labels, Applying, InTransaction, AtRow, AtTable
  <1>0. TypeOK /\ OneActive /\ LockInv /\ UpdaterInv /\ LoopInv /\ CountInv /\ StoredInv /\ QuietInv
    BY DEF SerialInv
  <1>1. OneActive'
    BY <1>0 DEF TypeOK, Answer, OneActive, Active, LoopInv
  <1>2. LockInv'
    BY <1>0 DEF TypeOK, Answer, LockInv, OneActive, Active, LoopInv
  <1>3. UpdaterInv'
    BY <1>0 DEF TypeOK, Answer, UpdaterInv, Applying, OneActive, Active, LoopInv
  <1>4. LoopInv'
    <2>1. \A a \in Answers : a.kind = "rows" => a.ver # 0
      BY <1>0 DEF TypeOK, Answers, ErrorKinds
    <2>2. reply'[r].kind = "rows" => reply'[r].ver # 0
      BY <1>0, <2>1 DEF TypeOK, Answer
    <2>3. QED
      BY <1>0, <2>2 DEF TypeOK, Answer, LoopInv, RowsOf, Typed
  <1>5. CountInv'
    BY <1>0 DEF TypeOK, Answer, CountInv, Visited, Seen, RowsOf, OneActive, Active, LoopInv
  <1>6. StoredInv'
    <2>1. updater # r
      BY <1>0 DEF Answer, UpdaterInv
    <2>2. QED
      BY <1>0, <2>1 DEF TypeOK, Answer, StoredInv, Pending, Visible, InTxn, Typed,
                        LockInv
  <1>7. QuietInv'
    BY <1>0 DEF TypeOK, Answer, QuietInv, OneActive, Active, LoopInv
  <1>8. QED
    BY <1>1, <1>2, <1>3, <1>4, <1>5, <1>6, <1>7 DEF SerialInv

\* A reply that is dropped leaves flag, counters and store alone.
LEMMA SerialDropReply ==
  ASSUME ~Overlap, SerialInv, TypeOK', NEW r \in Requests, DropReply(r)
  PROVE  SerialInv'
  <1> USE NoneAssumption DEF Step, Labels, Applying, InTransaction, AtRow, AtTable
  <1>0. TypeOK /\ OneActive /\ LockInv /\ UpdaterInv /\ LoopInv /\ CountInv /\ StoredInv /\ QuietInv
    BY DEF SerialInv
  <1>1. OneActive'
    BY <1>0 DEF TypeOK, DropReply, OneActive, Active, LoopInv
  <1>2. LockInv'
    BY <1>0 DEF TypeOK, DropReply, LockInv, OneActive, Active, LoopInv
  <1>3. UpdaterInv'
    BY <1>0 DEF TypeOK, DropReply, UpdaterInv, Applying, OneActive, Active, LoopInv
  <1>4. LoopInv'
    BY <1>0 DEF TypeOK, DropReply, LoopInv, RowsOf, Typed, OneActive, Active
  <1>5. CountInv'
    BY <1>0 DEF TypeOK, DropReply, CountInv, Visited, Seen, RowsOf, OneActive, Active, LoopInv
  <1>6. StoredInv'
    BY <1>0 DEF TypeOK, DropReply, StoredInv, Pending, Visible, InTxn, Typed, OneActive, Active, LoopInv
  <1>7. QuietInv'
    BY <1>0 DEF TypeOK, DropReply, QuietInv, OneActive, Active, LoopInv
  <1>8. QED
    BY <1>1, <1>2, <1>3, <1>4, <1>5, <1>6, <1>7 DEF SerialInv

\* Accepting a reply makes it the one the flag stands for.
LEMMA SerialAcceptReply ==
  ASSUME ~Overlap, SerialInv, TypeOK', NEW r \in Requests, AcceptReply(r)
  PROVE  SerialInv'
  <1> USE NoneAssumption DEF Step, Labels, Applying, InTransaction, AtRow, AtTable
  <1>0. TypeOK /\ OneActive /\ LockInv /\ UpdaterInv /\ LoopInv /\ CountInv /\ StoredInv /\ QuietInv
    BY DEF SerialInv
  <1>1. OneActive'
    BY <1>0 DEF TypeOK, AcceptReply, OneActive, Active, LoopInv
  <1>2. LockInv'
    BY <1>0 DEF TypeOK, AcceptReply, LockInv, OneActive, Active, LoopInv
  <1>3. UpdaterInv'
    BY <1>0 DEF TypeOK, AcceptReply, UpdaterInv, Applying, OneActive, Active, LoopInv
  <1>4. LoopInv'
    BY <1>0 DEF TypeOK, AcceptReply, LoopInv, RowsOf, Typed, OneActive, Active
  <1>5. CountInv'
    BY <1>0 DEF TypeOK, AcceptReply, CountInv, Visited, Seen, RowsOf, OneActive, Active, LoopInv
  <1>6. StoredInv'
    BY <1>0 DEF TypeOK, AcceptReply, StoredInv, Pending, Visible, InTxn, Typed, OneActive, Active, LoopInv
  <1>7. QuietInv'
    BY <1>0 DEF TypeOK, AcceptReply, QuietInv, OneActive, Active, LoopInv
  <1>8. QED
    BY <1>1, <1>2, <1>3, <1>4, <1>5, <1>6, <1>7 DEF SerialInv

\* The outer total becomes the number of tables.
LEMMA SerialSetTotal ==
  ASSUME ~Overlap, SerialInv, TypeOK', NEW r \in Requests, SetTotal(r)
  PROVE  SerialInv'
  <1> USE NoneAssumption DEF Step, Labels, Applying, InTransaction, AtRow, AtTable
  <1>0. TypeOK /\ OneActive /\ LockInv /\ UpdaterInv /\ LoopInv /\ CountInv /\ StoredInv /\ QuietInv
    BY DEF SerialInv
  <1>1. OneActive'
    BY <1>0 DEF TypeOK, SetTotal, OneActive, Active, LoopInv
  <1>2. LockInv'
    BY <1>0 DEF TypeOK, SetTotal, LockInv, OneActive, Active, LoopInv
  <1>3. UpdaterInv'
    BY <1>0 DEF TypeOK, SetTotal, UpdaterInv, Applying, OneActive, Active, LoopInv
  <1>4. LoopInv'
    BY <1>0 DEF TypeOK, SetTotal, LoopInv, RowsOf, Typed, OneActive, Active
  <1>5. CountInv'
    BY <1>0 DEF TypeOK, SetTotal, CountInv, Visited, Seen, RowsOf, OneActive, Active, LoopInv
  <1>6. StoredInv'
    BY <1>0 DEF TypeOK, SetTotal, StoredInv, Pending, Visible, InTxn, Typed, OneActive, Active, LoopInv
  <1>7. QuietInv'
    BY <1>0 DEF TypeOK, SetTotal, QuietInv, OneActive, Active, LoopInv
  <1>8. QED
    BY <1>1, <1>2, <1>3, <1>4, <1>5, <1>6, <1>7 DEF SerialInv

\* The outer counter starts at the zero tables visited.
LEMMA SerialZeroData ==
  ASSUME ~Overlap, SerialInv, TypeOK', NEW r \in Requests, ZeroData(r)
  PROVE  SerialInv'
  <1> USE NoneAssumption DEF Step, Labels, Applying, InTransaction, AtRow, AtTable
  <1>0. TypeOK /\ OneActive /\ LockInv /\ UpdaterInv /\ LoopInv /\ CountInv /\ StoredInv /\ QuietInv
    BY DEF SerialInv
  <1>1. OneActive'
    BY <1>0 DEF TypeOK, ZeroData, OneActive, Active, LoopInv
  <1>2. LockInv'
    BY <1>0 DEF TypeOK, ZeroData, LockInv, OneActive, Active, LoopInv
  <1>3. UpdaterInv'
    BY <1>0 DEF TypeOK, ZeroData, UpdaterInv, Applying, OneActive, Active, LoopInv
  <1>4. LoopInv'
    BY <1>0 DEF TypeOK, ZeroData, LoopInv, RowsOf, Typed, OneActive, Active
  <1>5. CountInv'
    BY <1>0 DEF TypeOK, ZeroData, CountInv, Visited, Seen, RowsOf, OneActive, Active, LoopInv
  <1>6. StoredInv'
    BY <1>0 DEF TypeOK, ZeroData, StoredInv, Pending, Visible, InTxn, Typed, OneActive, Active, LoopInv
  <1>7. QuietInv'
    BY <1>0 DEF TypeOK, ZeroData, QuietInv, OneActive, Active, LoopInv
  <1>8. QED
    BY <1>1, <1>2, <1>3, <1>4, <1>5, <1>6, <1>7 DEF SerialInv

\* Taking up a table: its load is one short of the tables visited.
LEMMA SerialNextKey ==
  ASSUME ~Overlap, SerialInv, TypeOK', NEW r \in Requests, NextKey(r)
  PROVE  SerialInv'
  <1> USE NoneAssumption DEF Step, Labels, Applying, InTransaction, AtRow, AtTable
  <1>0. TypeOK /\ OneActive /\ LockInv /\ UpdaterInv /\ LoopInv /\ CountInv /\ StoredInv /\ QuietInv
    BY DEF SerialInv
  <1>1. OneActive'
    BY <1>0 DEF TypeOK, NextKey, OneActive, Active, LoopInv
  <1>2. LockInv'
    BY <1>0 DEF TypeOK, NextKey, LockInv, OneActive, Active, LoopInv
  <1>3. UpdaterInv'
    BY <1>0 DEF TypeOK, NextKey, UpdaterInv, Applying, OneActive, Active, LoopInv
  <1>4. LoopInv'
    BY <1>0 DEF TypeOK, NextKey, LoopInv, RowsOf, Typed, OneActive, Active
  <1>5. CountInv'
    <2>1. \A q \in Requests : q # r => pc'[q] \notin Applying
      BY <1>0, OthersInactive DEF TypeOK, NextKey
    <2>2. PICK t \in keysLeft[r] :
                 /\ keysLeft'[r] = keysLeft[r] \ {t}
                 /\ rowsLeft'[r] = RowsOf(r, t) /\ type'[r] = t
      BY DEF TypeOK, NextKey, SerialInv
    <2>3. reg'[r] + 1 = Visited(r)'
      BY <1>0, <2>2, Countable DEF TypeOK, NextKey, CountInv, Visited
    <2>4. RowsOf(r, type[r])' = RowsOf(r, type'[r])
      BY DEF NextKey, RowsOf
    <2>5. QED
      BY <1>0, <2>1, <2>2, <2>3, <2>4 DEF TypeOK, NextKey, CountInv
  <1>6. StoredInv'
    <2>1. updater = r /\ rowsLeft[r] = {} /\ lock = None
      BY <1>0 DEF TypeOK, NextKey, UpdaterInv, LockInv
    <2>2. Pending(r) \subseteq Pending(r)'
      BY <1>0, <2>1 DEF TypeOK, NextKey, Pending, Typed, RowsOf
    <2>3. QED
      BY <1>0, <2>1, <2>2 DEF TypeOK, NextKey, StoredInv, Visible, Typed
  <1>7. QuietInv'
    BY <1>0 DEF TypeOK, NextKey, QuietInv, OneActive, Active, LoopInv
  <1>8. QED
    BY <1>1, <1>2, <1>3, <1>4, <1>5, <1>6, <1>7 DEF SerialInv

\* The outer loop ends with no table and no row left.
LEMMA SerialNoKeyLeft ==
  ASSUME ~Overlap, SerialInv, TypeOK', NEW r \in Requests, NoKeyLeft(r)
  PROVE  SerialInv'
  <1> USE NoneAssumption DEF Step, Labels, Applying, InTransaction, AtRow, AtTable
  <1>0. TypeOK /\ OneActive /\ LockInv /\ UpdaterInv /\ LoopInv /\ CountInv /\ StoredInv /\ QuietInv
    BY DEF SerialInv
  <1>1. OneActive'
    BY <1>0 DEF TypeOK, NoKeyLeft, OneActive, Active, LoopInv
  <1>2. LockInv'
    BY <1>0 DEF TypeOK, NoKeyLeft, LockInv, OneActive, Active, LoopInv
  <1>3. UpdaterInv'
    BY <1>0 DEF TypeOK, NoKeyLeft, UpdaterInv, Applying, OneActive, Active, LoopInv
  <1>4. LoopInv'
    BY <1>0 DEF TypeOK, NoKeyLeft, LoopInv, RowsOf, Typed, OneActive, Active
  <1>5. CountInv'
    BY <1>0 DEF TypeOK, NoKeyLeft, CountInv, Visited, Seen, RowsOf, OneActive, Active, LoopInv
  <1>6. StoredInv'
    BY <1>0 DEF TypeOK, NoKeyLeft, StoredInv, Pending, Visible, InTxn, Typed, OneActive, Active, LoopInv
  <1>7. QuietInv'
    BY <1>0 DEF TypeOK, NoKeyLeft, QuietInv, OneActive, Active, LoopInv
  <1>8. QED
    BY <1>1, <1>2, <1>3, <1>4, <1>5, <1>6, <1>7 DEF SerialInv

\* The outer counter catches up with the tables visited.
LEMMA SerialStoreKey ==
  ASSUME ~Overlap, SerialInv, TypeOK', NEW r \in Requests, StoreKey(r)
  PROVE  SerialInv'
  <1> USE NoneAssumption DEF Step, Labels, Applying, InTransaction, AtRow, AtTable
  <1>0. TypeOK /\ OneActive /\ LockInv /\ UpdaterInv /\ LoopInv /\ CountInv /\ StoredInv /\ QuietInv
    BY DEF SerialInv
  <1>1. OneActive'
    BY <1>0 DEF TypeOK, StoreKey, OneActive, Active, LoopInv
  <1>2. LockInv'
    BY <1>0 DEF TypeOK, StoreKey, LockInv, OneActive, Active, LoopInv
  <1>3. UpdaterInv'
    BY <1>0 DEF TypeOK, StoreKey, UpdaterInv, Applying, OneActive, Active, LoopInv
  <1>4. LoopInv'
    BY <1>0 DEF TypeOK, StoreKey, LoopInv, RowsOf, Typed, OneActive, Active
  <1>5. CountInv'
    BY <1>0, Countable
       DEF TypeOK, StoreKey, CountInv, Visited, Seen, RowsOf, OneActive, Active
  <1>6. StoredInv'
    BY <1>0 DEF TypeOK, StoreKey, StoredInv, Pending, Visible, InTxn, Typed, OneActive, Active, LoopInv
  <1>7. QuietInv'
    BY <1>0 DEF TypeOK, StoreKey, QuietInv, OneActive, Active, LoopInv
  <1>8. QED
    BY <1>1, <1>2, <1>3, <1>4, <1>5, <1>6, <1>7 DEF SerialInv

\* The inner counter starts at the zero rows seen.
LEMMA SerialZeroQuery ==
  ASSUME ~Overlap, SerialInv, TypeOK', NEW r \in Requests, ZeroQuery(r)
  PROVE  SerialInv'
  <1> USE NoneAssumption DEF Step, Labels, Applying, InTransaction, AtRow, AtTable
  <1>0. TypeOK /\ OneActive /\ LockInv /\ UpdaterInv /\ LoopInv /\ CountInv /\ StoredInv /\ QuietInv
    BY DEF SerialInv
  <1>1. OneActive'
    BY <1>0 DEF TypeOK, ZeroQuery, OneActive, Active, LoopInv
  <1>2. LockInv'
    BY <1>0 DEF TypeOK, ZeroQuery, LockInv, OneActive, Active, LoopInv
  <1>3. UpdaterInv'
    BY <1>0 DEF TypeOK, ZeroQuery, UpdaterInv, Applying, OneActive, Active, LoopInv
  <1>4. LoopInv'
    BY <1>0 DEF TypeOK, ZeroQuery, LoopInv, RowsOf, Typed, OneActive, Active
  <1>5. CountInv'
    <2>1. \A q \in Requests : q # r => pc'[q] \notin Applying
      BY <1>0, OthersInactive DEF TypeOK, ZeroQuery
    <2>2. Seen(r)' = 0
      <3>1. Cardinality(RowsOf(r, type[r])) \in Nat
        BY <1>0, Countable
      <3>2. RowsOf(r, type[r])' = RowsOf(r, type[r]) /\ rowsLeft'[r] = RowsOf(r, type[r])
        BY <1>0 DEF ZeroQuery, CountInv, RowsOf
      <3>3. QED
        BY <3>1, <3>2 DEF Seen
    <2>3. Visited(r)' = Visited(r)
      BY DEF ZeroQuery, Visited
    <2>4. QED
      BY <1>0, <2>1, <2>2, <2>3 DEF TypeOK, ZeroQuery, CountInv
  <1>6. StoredInv'
    BY <1>0 DEF TypeOK, ZeroQuery, StoredInv, Pending, Visible, InTxn, Typed, OneActive, Active, LoopInv
  <1>7. QuietInv'
    BY <1>0 DEF TypeOK, ZeroQuery, QuietInv, OneActive, Active, LoopInv
  <1>8. QED
    BY <1>1, <1>2, <1>3, <1>4, <1>5, <1>6, <1>7 DEF SerialInv

\* Taking up a row: the inner counter is one short of the rows seen.
LEMMA SerialNextRow ==
  ASSUME ~Overlap, SerialInv, TypeOK', NEW r \in Requests, NextRow(r)
  PROVE  SerialInv'
  <1> USE NoneAssumption DEF Step, Labels, Applying, InTransaction, AtRow, AtTable
  <1>0. TypeOK /\ OneActive /\ LockInv /\ UpdaterInv /\ LoopInv /\ CountInv /\ StoredInv /\ QuietInv
    BY DEF SerialInv
  <1>1. OneActive'
    BY <1>0 DEF TypeOK, NextRow, OneActive, Active, LoopInv
  <1>2. LockInv'
    BY <1>0 DEF TypeOK, NextRow, LockInv, OneActive, Active, LoopInv
  <1>3. UpdaterInv'
    BY <1>0 DEF TypeOK, NextRow, UpdaterInv, Applying, OneActive, Active, LoopInv
  <1>4. LoopInv'
    BY <1>0 DEF TypeOK, NextRow, LoopInv, RowsOf, Typed, OneActive, Active
  <1>5. CountInv'
    <2>1. \A q \in Requests : q # r => pc'[q] \notin Applying
      BY <1>0, OthersInactive DEF TypeOK, NextRow
    <2>2. RowsOf(r, type[r])' = RowsOf(r, type[r])
      BY DEF NextRow, RowsOf
    <2>3. downloadQueryCounter + 1 = Seen(r)'
      <3>1. Cardinality(RowsOf(r, type[r])) \in Nat
        BY <1>0, Countable
      <3>2. PICK s \in rowsLeft[r] : rowsLeft'[r] = rowsLeft[r] \ {s}
        BY <1>0 DEF TypeOK, NextRow
      <3>3. /\ Cardinality(rowsLeft[r]) \in Nat
            /\ Cardinality(rowsLeft'[r]) = Cardinality(rowsLeft[r]) - 1
        BY <1>0, <3>2, Countable
      <3>4. downloadQueryCounter = Seen(r)
        BY <1>0 DEF NextRow, CountInv
      <3>5. QED
        BY <2>2, <3>1, <3>3, <3>4 DEF Seen
    <2>4. Visited(r)' = Visited(r)
      BY DEF NextRow, Visited
    <2>5. QED
      BY <1>0, <2>1, <2>2, <2>3, <2>4 DEF TypeOK, NextRow, CountInv
  <1>6. StoredInv'
    <2>1. updater = r /\ lock = None /\ type[r] \in Types
      BY <1>0 DEF TypeOK, NextRow, UpdaterInv, LockInv, LoopInv
    <2>2. Pending(r) \subseteq Pending(r)'
      BY <1>0, <2>1 DEF TypeOK, NextRow, Pending, Typed, RowsOf
    <2>3. QED
      BY <1>0, <2>1, <2>2 DEF TypeOK, NextRow, StoredInv, Visible, Typed
  <1>7. QuietInv'
    BY <1>0 DEF TypeOK, NextRow, QuietInv, OneActive, Active, LoopInv
  <1>8. QED
    BY <1>1, <1>2, <1>3, <1>4, <1>5, <1>6, <1>7 DEF SerialInv

\* The inner loop ends with every typed row of its table stored.
LEMMA SerialNoRowLeft ==
  ASSUME ~Overlap, SerialInv, TypeOK', NEW r \in Requests, NoRowLeft(r)
  PROVE  SerialInv'
  <1> USE NoneAssumption DEF Step, Labels, Applying, InTransaction, AtRow, AtTable
  <1>0. TypeOK /\ OneActive /\ LockInv /\ UpdaterInv /\ LoopInv /\ CountInv /\ StoredInv /\ QuietInv
    BY DEF SerialInv
  <1>1. OneActive'
    BY <1>0 DEF TypeOK, NoRowLeft, OneActive, Active, LoopInv
  <1>2. LockInv'
    BY <1>0 DEF TypeOK, NoRowLeft, LockInv, OneActive, Active, LoopInv
  <1>3. UpdaterInv'
    BY <1>0 DEF TypeOK, NoRowLeft, UpdaterInv, Applying, OneActive, Active, LoopInv
  <1>4. LoopInv'
    BY <1>0 DEF TypeOK, NoRowLeft, LoopInv, RowsOf, Typed, OneActive, Active
  <1>5. CountInv'
    BY <1>0 DEF TypeOK, NoRowLeft, CountInv, Visited, Seen, RowsOf, OneActive, Active, LoopInv
  <1>6. StoredInv'
    BY <1>0 DEF TypeOK, NoRowLeft, StoredInv, Pending, Visible, InTxn, Typed, OneActive, Active, LoopInv
  <1>7. QuietInv'
    BY <1>0 DEF TypeOK, NoRowLeft, QuietInv, OneActive, Active, LoopInv
  <1>8. QED
    BY <1>1, <1>2, <1>3, <1>4, <1>5, <1>6, <1>7 DEF SerialInv

\* The load of the inner "+= 1" is one short of the rows seen.
LEMMA SerialLoadRow ==
  ASSUME ~Overlap, SerialInv, TypeOK', NEW r \in Requests, LoadRow(r)
  PROVE  SerialInv'
  <1> USE NoneAssumption DEF Step, Labels, Applying, InTransaction, AtRow, AtTable
  <1>0. TypeOK /\ OneActive /\ LockInv /\ UpdaterInv /\ LoopInv /\ CountInv /\ StoredInv /\ QuietInv
    BY DEF SerialInv
  <1>1. OneActive'
    BY <1>0 DEF TypeOK, LoadRow, OneActive, Active, LoopInv
  <1>2. LockInv'
    BY <1>0 DEF TypeOK, LoadRow, LockInv, OneActive, Active, LoopInv
  <1>3. UpdaterInv'
    BY <1>0 DEF TypeOK, LoadRow, UpdaterInv, Applying, OneActive, Active, LoopInv
  <1>4. LoopInv'
    BY <1>0 DEF TypeOK, LoadRow, LoopInv, RowsOf, Typed, OneActive, Active
  <1>5. CountInv'
    BY <1>0 DEF TypeOK, LoadRow, CountInv, Visited, Seen, RowsOf, OneActive, Active, LoopInv
  <1>6. StoredInv'
    BY <1>0 DEF TypeOK, LoadRow, StoredInv, Pending, Visible, InTxn, Typed, OneActive, Active, LoopInv
  <1>7. QuietInv'
    BY <1>0 DEF TypeOK, LoadRow, QuietInv, OneActive, Active, LoopInv
  <1>8. QED
    BY <1>1, <1>2, <1>3, <1>4, <1>5, <1>6, <1>7 DEF SerialInv

\* The inner counter catches up; an untyped row is skipped.
LEMMA SerialStoreRow ==
  ASSUME ~Overlap, SerialInv, TypeOK', NEW r \in Requests, StoreRow(r)
  PROVE  SerialInv'
  <1> USE NoneAssumption DEF Step, Labels, Applying, InTransaction, AtRow, AtTable
  <1>0. TypeOK /\ OneActive /\ LockInv /\ UpdaterInv /\ LoopInv /\ CountInv /\ StoredInv /\ QuietInv
    BY DEF SerialInv
  <1>1. OneActive'
    BY <1>0 DEF TypeOK, StoreRow, OneActive, Active, LoopInv
  <1>2. LockInv'
    BY <1>0 DEF TypeOK, StoreRow, LockInv, OneActive, Active, LoopInv
  <1>3. UpdaterInv'
    BY <1>0 DEF TypeOK, StoreRow, UpdaterInv, Applying, OneActive, Active, LoopInv
  <1>4. LoopInv'
    BY <1>0 DEF TypeOK, StoreRow, LoopInv, RowsOf, Typed, OneActive, Active
  <1>5. CountInv'
    BY <1>0 DEF TypeOK, StoreRow, CountInv, Visited, Seen, RowsOf, OneActive, Active, LoopInv
  <1>6. StoredInv'
    BY <1>0 DEF TypeOK, StoreRow, StoredInv, Pending, Visible, InTxn, Typed, OneActive, Active, LoopInv
  <1>7. QuietInv'
    BY <1>0 DEF TypeOK, StoreRow, QuietInv, OneActive, Active, LoopInv
  <1>8. QED
    BY <1>1, <1>2, <1>3, <1>4, <1>5, <1>6, <1>7 DEF SerialInv

\* Inside the transaction the row in hand is visible, though not committed.
LEMMA SerialBeginWrite ==
  ASSUME ~Overlap, SerialInv, TypeOK', NEW r \in Requests, BeginWrite(r)
  PROVE  SerialInv'
  <1> USE NoneAssumption DEF Step, Labels, Applying, InTransaction, AtRow, AtTable
  <1>0. TypeOK /\ OneActive /\ LockInv /\ UpdaterInv /\ LoopInv /\ CountInv /\ StoredInv /\ QuietInv
    BY DEF SerialInv
  <1>1. OneActive'
    BY <1>0 DEF TypeOK, BeginWrite, OneActive, Active, LoopInv
  <1>2. LockInv'
    BY <1>0 DEF TypeOK, BeginWrite, LockInv, OneActive, Active, LoopInv
  <1>3. UpdaterInv'
    BY <1>0 DEF TypeOK, BeginWrite, UpdaterInv, Applying, OneActive, Active, LoopInv
  <1>4. LoopInv'
    BY <1>0 DEF TypeOK, BeginWrite, LoopInv, RowsOf, Typed, OneActive, Active
  <1>5. CountInv'
    BY <1>0 DEF TypeOK, BeginWrite, CountInv, Visited, Seen, RowsOf, OneActive, Active, LoopInv
  <1>6. StoredInv'
    <2>1. updater = r /\ type[r] \in Types /\ row[r] \in Stations
      BY <1>0 DEF TypeOK, BeginWrite, UpdaterInv, LoopInv, RowsOf
    <2>2. Visible' = InTxn(r)
      BY <1>0 DEF TypeOK, BeginWrite, Visible, InTxn
    <2>3. Pending(r) \subseteq Pending(r)' \cup {<<type[r], row[r]>>}
      BY <1>0, <2>1 DEF TypeOK, BeginWrite, Pending, Typed
    <2>4. ASSUME NEW t \in Types, NEW s \in Stations, Typed(r, t, s)'
          PROVE  <<t, s>> \in Pending(r)' \/ Visible'[t][s] = reply'[r].ver
      <3>1. InTxn(r)[type[r]][row[r]] = reply[r].ver
        BY <1>0, <2>1 DEF TypeOK, InTxn, Table
      <3>2. <<t, s>> # <<type[r], row[r]>> => InTxn(r)[t][s] = stored[t][s]
        BY <1>0, <2>1 DEF TypeOK, InTxn, Table
      <3>3. <<t, s>> \in Pending(r) \/ stored[t][s] = reply[r].ver
        BY <1>0, <2>1, <2>4 DEF BeginWrite, StoredInv, Visible, Typed
      <3>4. QED
        BY <1>0, <2>2, <2>3, <3>1, <3>2, <3>3 DEF BeginWrite
    <2>5. QED
      BY <2>1, <2>4 DEF StoredInv, BeginWrite
  <1>7. QuietInv'
    BY <1>0 DEF TypeOK, BeginWrite, QuietInv, OneActive, Active, LoopInv
  <1>8. QED
    BY <1>1, <1>2, <1>3, <1>4, <1>5, <1>6, <1>7 DEF SerialInv

\* isLastOne means that the table in hand has no row left.
LEMMA SerialReadIsLastOne ==
  ASSUME ~Overlap, SerialInv, TypeOK', NEW r \in Requests, ReadIsLastOne(r)
  PROVE  SerialInv'
  <1> USE NoneAssumption DEF Step, Labels, Applying, InTransaction, AtRow, AtTable
  <1>0. TypeOK /\ OneActive /\ LockInv /\ UpdaterInv /\ LoopInv /\ CountInv /\ StoredInv /\ QuietInv
    BY DEF SerialInv
  <1>1. OneActive'
    BY <1>0 DEF TypeOK, ReadIsLastOne, OneActive, Active, LoopInv
  <1>2. LockInv'
    BY <1>0 DEF TypeOK, ReadIsLastOne, LockInv, OneActive, Active, LoopInv
  <1>3. UpdaterInv'
    BY <1>0 DEF TypeOK, ReadIsLastOne, UpdaterInv, Applying, OneActive, Active, LoopInv
  <1>4. LoopInv'
    BY <1>0 DEF TypeOK, ReadIsLastOne, LoopInv, RowsOf, Typed, OneActive, Active
  <1>5. CountInv'
    <2>1. \A q \in Requests : q # r => pc'[q] \notin Applying
      BY <1>0, OthersInactive DEF TypeOK, ReadIsLastOne
    <2>2. isLastOne'[r] => rowsLeft[r] = {}
      <3>1. isLastOne'[r] => Cardinality(RowsOf(r, type[r])) = Seen(r)
        BY <1>0 DEF TypeOK, ReadIsLastOne, CountInv
      <3>2. Cardinality(RowsOf(r, type[r])) \in Nat /\ Cardinality(rowsLeft[r]) \in Nat
        BY <1>0, Countable
      <3>3. isLastOne'[r] => Cardinality(rowsLeft[r]) = 0
        BY <3>1, <3>2 DEF Seen
      <3>4. QED
        BY <1>0, <3>3, Countable
    <2>3. /\ RowsOf(r, type[r])' = RowsOf(r, type[r])
          /\ Seen(r)' = Seen(r) /\ Visited(r)' = Visited(r)
      BY DEF ReadIsLastOne, RowsOf, Seen, Visited
    <2>4. QED
      BY <1>0, <2>1, <2>2, <2>3 DEF TypeOK, ReadIsLastOne, CountInv
  <1>6. StoredInv'
    BY <1>0 DEF TypeOK, ReadIsLastOne, StoredInv, Pending, Visible, InTxn, Typed, OneActive, Active, LoopInv
  <1>7. QuietInv'
    BY <1>0 DEF TypeOK, ReadIsLastOne, QuietInv, OneActive, Active, LoopInv
  <1>8. QED
    BY <1>1, <1>2, <1>3, <1>4, <1>5, <1>6, <1>7 DEF SerialInv

\* isUpdating is lowered only when no table and no row is left.
LEMMA SerialProgress ==
  ASSUME ~Overlap, SerialInv, TypeOK', NEW r \in Requests, Progress(r)
  PROVE  SerialInv'
  <1> USE NoneAssumption DEF Step, Labels, Applying, InTransaction, AtRow, AtTable
  <1>0. TypeOK /\ OneActive /\ LockInv /\ UpdaterInv /\ LoopInv /\ CountInv /\ StoredInv /\ QuietInv
    BY DEF SerialInv
  <1>1. OneActive'
    BY <1>0 DEF TypeOK, Progress, OneActive, Active, LoopInv
  <1>2. LockInv'
    BY <1>0 DEF TypeOK, Progress, LockInv, OneActive, Active, LoopInv
  <1>3. UpdaterInv'
    BY <1>0 DEF TypeOK, Progress, UpdaterInv, Applying, OneActive, Active, LoopInv
  <1>4. LoopInv'
    BY <1>0 DEF TypeOK, Progress, LoopInv, RowsOf, Typed, OneActive, Active
  <1>5. CountInv'
    BY <1>0 DEF TypeOK, Progress, CountInv, Visited, Seen, RowsOf, OneActive, Active, LoopInv
  <1>6. StoredInv'
    BY <1>0 DEF TypeOK, Progress, StoredInv, Pending, Visible, InTxn, Typed, OneActive, Active, LoopInv
  <1>7. QuietInv'
    <2>1. updater = r
      BY <1>0 DEF Progress, UpdaterInv
    <2>2. rowsLeft[r] = {}
      BY <1>0 DEF Progress, CountInv
    <2>3. keysLeft[r] = {}
      <3>1. /\ totalDownloadData = Cardinality(Types)
            /\ downloadDataCounter = Cardinality(Types) - Cardinality(keysLeft[r])
        BY <1>0 DEF Progress, CountInv, Visited
      <3>2. /\ Cardinality(Types) \in Nat /\ Cardinality(keysLeft[r]) \in Nat
            /\ Cardinality(keysLeft[r]) <= Cardinality(Types)
        BY <1>0, Countable
      <3>3. Cardinality(keysLeft[r]) = 0
        BY <3>1, <3>2 DEF Progress, IsHundred
      <3>4. QED
        BY <1>0, <3>3, Countable
    <2>4. QED
      BY <1>0, <2>1, <2>2, <2>3 DEF TypeOK, Progress, QuietInv
  <1>8. QED
    BY <1>1, <1>2, <1>3, <1>4, <1>5, <1>6, <1>7 DEF SerialInv

\* A block that does not run changes nothing.
LEMMA SerialNoProgress ==
  ASSUME ~Overlap, SerialInv, TypeOK', NEW r \in Requests, NoProgress(r)
  PROVE  SerialInv'
  <1> USE NoneAssumption DEF Step, Labels, Applying, InTransaction, AtRow, AtTable
  <1>0. TypeOK /\ OneActive /\ LockInv /\ UpdaterInv /\ LoopInv /\ CountInv /\ StoredInv /\ QuietInv
    BY DEF SerialInv
  <1>1. OneActive'
    BY <1>0 DEF TypeOK, NoProgress, OneActive, Active, LoopInv
  <1>2. LockInv'
    BY <1>0 DEF TypeOK, NoProgress, LockInv, OneActive, Active, LoopInv
  <1>3. UpdaterInv'
    BY <1>0 DEF TypeOK, NoProgress, UpdaterInv, Applying, OneActive, Active, LoopInv
  <1>4. LoopInv'
    BY <1>0 DEF TypeOK, NoProgress, LoopInv, RowsOf, Typed, OneActive, Active
  <1>5. CountInv'
    BY <1>0 DEF TypeOK, NoProgress, CountInv, Visited, Seen, RowsOf, OneActive, Active, LoopInv
  <1>6. StoredInv'
    BY <1>0 DEF TypeOK, NoProgress, StoredInv, Pending, Visible, InTxn, Typed, OneActive, Active, LoopInv
  <1>7. QuietInv'
    BY <1>0 DEF TypeOK, NoProgress, QuietInv, OneActive, Active, LoopInv
  <1>8. QED
    BY <1>1, <1>2, <1>3, <1>4, <1>5, <1>6, <1>7 DEF SerialInv

\* The fetch inside the transaction changes only what is shown.
LEMMA SerialFetchAll ==
  ASSUME ~Overlap, SerialInv, TypeOK', NEW r \in Requests, FetchAll(r)
  PROVE  SerialInv'
  <1> USE NoneAssumption DEF Step, Labels, Applying, InTransaction, AtRow, AtTable
  <1>0. TypeOK /\ OneActive /\ LockInv /\ UpdaterInv /\ LoopInv /\ CountInv /\ StoredInv /\ QuietInv
    BY DEF SerialInv
  <1>1. OneActive'
    BY <1>0 DEF TypeOK, FetchAll, OneActive, Active, LoopInv
  <1>2. LockInv'
    BY <1>0 DEF TypeOK, FetchAll, LockInv, OneActive, Active, LoopInv
  <1>3. UpdaterInv'
    BY <1>0 DEF TypeOK, FetchAll, UpdaterInv, Applying, OneActive, Active, LoopInv
  <1>4. LoopInv'
    BY <1>0 DEF TypeOK, FetchAll, LoopInv, RowsOf, Typed, OneActive, Active
  <1>5. CountInv'
    BY <1>0 DEF TypeOK, FetchAll, CountInv, Visited, Seen, RowsOf, OneActive, Active, LoopInv
  <1>6. StoredInv'
    BY <1>0 DEF TypeOK, FetchAll, StoredInv, Pending, Visible, InTxn, Typed, OneActive, Active, LoopInv
  <1>7. QuietInv'
    BY <1>0 DEF TypeOK, FetchAll, QuietInv, OneActive, Active, LoopInv
  <1>8. QED
    BY <1>1, <1>2, <1>3, <1>4, <1>5, <1>6, <1>7 DEF SerialInv

\* Committing keeps visible what the transaction made visible.
LEMMA SerialCommit ==
  ASSUME ~Overlap, SerialInv, TypeOK', NEW r \in Requests, Commit(r)
  PROVE  SerialInv'
  <1> USE NoneAssumption DEF Step, Labels, Applying, InTransaction, AtRow, AtTable
  <1>0. TypeOK /\ OneActive /\ LockInv /\ UpdaterInv /\ LoopInv /\ CountInv /\ StoredInv /\ QuietInv
    BY DEF SerialInv
  <1>1. OneActive'
    BY <1>0 DEF TypeOK, Commit, OneActive, Active, LoopInv
  <1>2. LockInv'
    BY <1>0 DEF TypeOK, Commit, LockInv, OneActive, Active, LoopInv
  <1>3. UpdaterInv'
    BY <1>0 DEF TypeOK, Commit, UpdaterInv, Applying, OneActive, Active, LoopInv
  <1>4. LoopInv'
    BY <1>0 DEF TypeOK, Commit, LoopInv, RowsOf, Typed, OneActive, Active
  <1>5. CountInv'
    BY <1>0 DEF TypeOK, Commit, CountInv, Visited, Seen, RowsOf, OneActive, Active, LoopInv
  <1>6. StoredInv'
    <2>1. updater = r /\ lock = r
      BY <1>0 DEF Commit, UpdaterInv, LockInv
    <2>2. Visible' = Visible
      BY <1>0, <2>1 DEF Commit, Visible
    <2>3. Pending(r)' = Pending(r)
      BY <1>0 DEF TypeOK, Commit, Pending, Typed
    <2>4. QED
      BY <1>0, <2>1, <2>2, <2>3 DEF Commit, StoredInv, Typed
  <1>7. QuietInv'
    BY <1>0 DEF TypeOK, Commit, QuietInv, OneActive, Active, LoopInv
  <1>8. QED
    BY <1>1, <1>2, <1>3, <1>4, <1>5, <1>6, <1>7 DEF SerialInv

\* The invariant holds at the first launch.
LEMMA SerialInit == Init => SerialInv
  <1> SUFFICES ASSUME Init PROVE SerialInv
    OBVIOUS
  <1> USE NoneAssumption DEF Applying, InTransaction, AtRow, AtTable, Labels
  <1>1. TypeOK
    BY InitTypeOK
  <1>2. OneActive /\ LockInv /\ UpdaterInv
    BY DEF Init, OneActive, Active, LockInv, UpdaterInv
  <1>3. LoopInv
    BY DEF Init, LoopInv, NoReply
  <1>4. CountInv
    BY DEF Init, CountInv
  <1>5. StoredInv /\ QuietInv
    BY DEF Init, StoredInv, QuietInv
  <1>6. QED
    BY <1>1, <1>2, <1>3, <1>4, <1>5 DEF SerialInv

\* The steps that leave every handler, the store and the counters alone.
LEMMA SerialFrame ==
  ASSUME SerialInv, TypeOK',
         UNCHANGED <<pc, reply, loopVars, reg, isLastOne, counterVars, guardVars,
                     storeVars>>
  PROVE  SerialInv'
  <1> USE DEF SerialInv
  <1>1. OneActive' /\ LockInv' /\ UpdaterInv'
    BY DEF OneActive, Active, LockInv, UpdaterInv
  <1>2. LoopInv'
    BY DEF LoopInv, RowsOf, Typed
  <1>3. CountInv'
    BY DEF CountInv, Visited, Seen, RowsOf
  <1>4. StoredInv'
    BY DEF StoredInv, Pending, Visible, InTxn, Typed
  <1>5. QuietInv'
    BY DEF QuietInv
  <1>6. QED
    BY <1>1, <1>2, <1>3, <1>4, <1>5

\* A launch restores the invariant: the memory is new and the file deleted.
LEMMA SerialLaunch ==
  ASSUME SerialInv, TypeOK', Launch
  PROVE  SerialInv'
  <1> USE NoneAssumption DEF Applying, InTransaction, AtRow, AtTable, Labels
  <1>1. OneActive' /\ LockInv' /\ UpdaterInv'
    BY DEF Launch, OneActive, Active, LockInv, UpdaterInv
  <1>2. LoopInv'
    BY DEF Launch, LoopInv, NoReply
  <1>3. CountInv'
    BY DEF Launch, CountInv
  <1>4. StoredInv' /\ QuietInv'
    BY DEF Launch, StoredInv, QuietInv
  <1>5. QED
    BY <1>1, <1>2, <1>3, <1>4 DEF SerialInv

\* Every step keeps the invariant.
LEMMA SerialStep ==
  ASSUME ~Overlap, SerialInv, [Next]_vars
  PROVE  SerialInv'
  <1>1. TypeOK'
    BY NextTypeOK DEF SerialInv
  <1>2. ASSUME NEW r \in Requests, Tick(r) \/ Answer(r) \/ Handler(r) PROVE SerialInv'
    <2>1. CASE Loop(r)
      BY <1>1, <2>1, SerialSetTotal, SerialZeroData, SerialNextKey, SerialNoKeyLeft,
         SerialStoreKey, SerialZeroQuery, SerialNextRow, SerialNoRowLeft,
         SerialLoadRow, SerialStoreRow DEF Loop
    <2>2. CASE Transaction(r)
      BY <1>1, <2>2, SerialBeginWrite, SerialReadIsLastOne, SerialProgress,
         SerialNoProgress, SerialFetchAll, SerialCommit DEF Transaction
    <2>3. QED
      BY <1>1, <1>2, <2>1, <2>2, SerialTick, SerialAnswer, SerialDropReply,
         SerialAcceptReply, SerialFrame DEF Handler, CrashOnFailure, CrashOnRow
  <1>3. CASE ServerAdvance
    BY <1>1, <1>3, SerialFrame DEF ServerAdvance
  <1>4. CASE Main
    BY <1>1, <1>4, SerialFrame
       DEF Main, CameraMove, CameraRead, CameraShow, MainStep
  <1>5. CASE Die
    BY <1>1, <1>5, SerialFrame DEF Die
  <1>6. CASE Launch
    BY <1>1, <1>6, SerialLaunch
  <1>7. CASE UNCHANGED vars
    BY <1>1, <1>7, SerialFrame DEF vars
  <1>8. QED
    BY <1>2, <1>3, <1>4, <1>5, <1>6, <1>7 DEF Next

\* Without overlap the shared counters always stand for the loops of the one
\* handler at work.
THEOREM SerialInvariant ==
  ASSUME ~Overlap
  PROVE  Spec => []SerialInv
  <1>1. SerialInv /\ [Next]_vars => SerialInv'
    BY SerialStep
  <1>2. QED
    BY SerialInit, <1>1, PTL DEF Spec

\* When isUpdating is down, no typed row of the last update is missing from the
\* store: BikeModelManager lowers it neither early nor for another update.
THEOREM SerialReleased ==
  ASSUME ~Overlap
  PROVE  Spec => []ReleasedMeansStored
  <1>1. SerialInv => ReleasedMeansStored
    <2> SUFFICES ASSUME SerialInv, ~isUpdating, updater # None,
                        NEW t \in Types, NEW s \in Stations, Typed(updater, t, s)
                 PROVE  Visible[t][s] = reply[updater].ver
      BY DEF ReleasedMeansStored
    <2>1. Pending(updater) = {}
      BY DEF SerialInv, QuietInv, Pending
    <2>2. QED
      BY <2>1 DEF SerialInv, StoredInv
  <1>2. QED
    BY <1>1, SerialInvariant, PTL

\* isUpdating is up as long as a handler has rows to write.
THEOREM SerialGuard ==
  ASSUME ~Overlap
  PROVE  Spec => []GuardCoversPendingRows
  <1>1. SerialInv => GuardCoversPendingRows
    <2> SUFFICES ASSUME SerialInv, NEW r \in Requests, pc[r] \in Applying,
                        ~isUpdating
                 PROVE  Pending(r) = {}
      BY DEF GuardCoversPendingRows, SerialInv, TypeOK
    <2>1. updater = r /\ updater # None
      BY NoneAssumption DEF SerialInv, UpdaterInv
    <2>2. QED
      BY <2>1 DEF SerialInv, QuietInv, Pending
  <1>2. QED
    BY <1>1, SerialInvariant, PTL

\* The fetch that ends an update shows the whole reply of that update.
THEOREM SerialCompletion ==
  ASSUME ~Overlap
  PROVE  Spec => CompletionShowsReply
  <1>1. ASSUME SerialInv, [Next]_vars, NEW r \in Requests,
               pc[r] = "fetch", pc'[r] = "commit", ~Racing,
               NEW t \in Types, NEW s \in Stations, Typed(r, t, s)
        PROVE  shown'[t][s] = reply[r].ver
    <2>1. FetchAll(r)
      <3>1. pc # pc' /\ pc \in [Requests -> Labels]
        BY <1>1 DEF SerialInv, TypeOK
      <3>2. ~ServerAdvance /\ ~Main /\ ~Die /\ ~UNCHANGED vars
        BY <3>1 DEF ServerAdvance, Main, CameraMove, CameraRead, CameraShow,
                    MainStep, Die, vars
      <3>3. ~Launch
        BY <1>1 DEF Launch
      <3>4. PICK q \in Requests : Tick(q) \/ Answer(q) \/ Handler(q)
        BY <1>1, <3>2, <3>3 DEF Next
      <3>5. CASE \/ Tick(q) \/ Answer(q) \/ DropReply(q) \/ AcceptReply(q)
                 \/ CrashOnFailure(q) \/ CrashOnRow(q)
        BY <1>1, <3>1, <3>5
           DEF Tick, Answer, DropReply, AcceptReply, CrashOnFailure, CrashOnRow, Step
      <3>6. CASE Loop(q)
        BY <1>1, <3>1, <3>6 DEF Loop, SetTotal, ZeroData, NextKey, NoKeyLeft, StoreKey,
                       ZeroQuery, NextRow, NoRowLeft, LoadRow, StoreRow, Step
      <3>7. CASE Transaction(q)
        BY <1>1, <3>1, <3>7 DEF Transaction, BeginWrite, ReadIsLastOne, Progress,
                       NoProgress, Commit, FetchAll, Step
      <3>8. QED
        BY <3>4, <3>5, <3>6, <3>7 DEF Handler
    <2>2. updater = r /\ lock = r /\ ~isUpdating
      BY <1>1 DEF SerialInv, UpdaterInv, LockInv, QuietInv, Applying, InTransaction,
                  Labels
    <2>3. Visible = InTxn(r)
      BY <2>2, NoneAssumption DEF Visible
    <2>4. Pending(r) = {}
      BY <1>1, <2>2, NoneAssumption DEF SerialInv, QuietInv, Pending
    <2>5. InTxn(r)[t][s] = reply[r].ver
      BY <1>1, <2>2, <2>3, <2>4, NoneAssumption DEF SerialInv, StoredInv
    <2>6. reply[r].ver # 0
      BY <1>1 DEF SerialInv, LoopInv, Applying, Labels
    <2>7. shown' = Merge(shown, InTxn(r), Types \X Stations)
      BY <1>1, <2>1, <2>2 DEF FetchAll, Renewed
    <2>8. QED
      BY <2>5, <2>6, <2>7 DEF Merge
  <1>2. SerialInv /\ [Next]_vars =>
          [\A r \in Requests :
            pc[r] = "fetch" /\ pc'[r] = "commit" /\ ~Racing =>
              \A t \in Types, s \in Stations :
                  Typed(r, t, s) => shown'[t][s] = reply[r].ver]_vars
    BY <1>1
  <1>3. QED
    BY <1>2, SerialInvariant, PTL DEF Spec, CompletionShowsReply

-----------------------------------------------------------------------------
(* When isUpdating stays up for good.                                      *)

\* The flag came down at the end of a reply whose last row has a type; where
\* nothing is left to write and it is up, the reply did not end so; and where
\* the block is about to run, isLastOne tells that no row is left.
TailInv ==
  /\ updater # None /\ ~isUpdating => ~DeafTail(updater)
  /\ /\ updater # None /\ isUpdating
     /\ keysLeft[updater] = {} /\ rowsLeft[updater] = {}
     /\ pc[updater] \in {"commit", "nextRow", "nextKey", "ended"}
     => DeafTail(updater)
  /\ \A r \in Requests : pc[r] = "argPercent" /\ rowsLeft[r] = {} => isLastOne[r]

\* The handler at work is that of the updater.
LEMMA AtWork ==
  ASSUME SerialInv, NEW r \in Requests, pc[r] \in Applying
  PROVE  /\ updater = r /\ updater # None /\ pc \in [Requests -> Labels]
         /\ \A q \in Requests \ {r} : pc[q] \in {"idle", "ended"}
  BY OthersInactive, NoneAssumption DEF SerialInv, UpdaterInv, TypeOK

\* The steps of the loops.
LEMMA TailLoop ==
  ASSUME SerialInv, TailInv, NEW r \in Requests, Loop(r)
  PROVE  TailInv'
  <1> USE DEF Step, TailInv, DeafTail, RowsOf, Typed
  <1>0. /\ updater = r /\ r # None /\ pc \in [Requests -> Labels]
        /\ \A q \in Requests \ {r} : pc[q] \in {"idle", "ended"}
    BY AtWork
       DEF Loop, SetTotal, ZeroData, NextKey, NoKeyLeft, StoreKey, ZeroQuery, NextRow,
           NoRowLeft, LoadRow, StoreRow, Applying, Labels
  <1>1. /\ updater' = r /\ isUpdating' = isUpdating /\ reply' = reply
        /\ isLastOne' = isLastOne
    BY <1>0 DEF Loop, SetTotal, ZeroData, NextKey, NoKeyLeft, StoreKey, ZeroQuery,
           NextRow, NoRowLeft, LoadRow, StoreRow
  <1>2. \A q \in Requests : pc'[q] # "argPercent"
    BY <1>0 DEF Loop, SetTotal, ZeroData, NextKey, NoKeyLeft, StoreKey, ZeroQuery,
           NextRow, NoRowLeft, LoadRow, StoreRow
  <1>3. ~isUpdating => keysLeft[r] = {} /\ rowsLeft[r] = {}
    BY <1>0 DEF SerialInv, QuietInv
  <1>4. CASE SetTotal(r) \/ StoreKey(r) \/ LoadRow(r)
    BY <1>0, <1>1, <1>2, <1>4 DEF SetTotal, StoreKey, LoadRow
  <1>5. CASE ZeroData(r)
    <2>1. keysLeft[r] # {}
      BY <1>5, TypesAssumption DEF ZeroData, SerialInv, LoopInv
    <2>2. QED
      BY <1>0, <1>1, <1>2, <1>5, <2>1 DEF ZeroData
  <1>6. CASE NextKey(r)
    BY <1>0, <1>1, <1>2, <1>3, <1>6 DEF NextKey
  <1>7. CASE NoKeyLeft(r) \/ NoRowLeft(r)
    BY <1>0, <1>1, <1>2, <1>7 DEF NoKeyLeft, NoRowLeft
  <1>8. CASE ZeroQuery(r)
    <2>1. rowsLeft[r] = RowsOf(r, type[r])
      BY <1>8 DEF ZeroQuery, SerialInv, CountInv
    <2>2. QED
      BY <1>0, <1>1, <1>2, <1>8, <2>1 DEF ZeroQuery
  <1>9. CASE NextRow(r)
    BY <1>0, <1>1, <1>2, <1>3, <1>9 DEF NextRow
  <1>10. CASE StoreRow(r)
    BY <1>0, <1>1, <1>2, <1>10 DEF StoreRow
  <1>11. QED
    BY <1>4, <1>5, <1>6, <1>7, <1>8, <1>9, <1>10 DEF Loop

\* The steps of a transaction.
LEMMA TailTransaction ==
  ASSUME SerialInv, TailInv, NEW r \in Requests, Transaction(r)
  PROVE  TailInv'
  <1> USE DEF Step, TailInv, DeafTail, RowsOf, Typed
  <1>0. /\ updater = r /\ r # None /\ pc \in [Requests -> Labels]
        /\ \A q \in Requests \ {r} : pc[q] \in {"idle", "ended"}
    BY AtWork
       DEF Transaction, BeginWrite, ReadIsLastOne, Progress, NoProgress, FetchAll,
           Commit, Applying, Labels
  <1>1. updater' = r /\ UNCHANGED <<reply, keysLeft, rowsLeft, type, row>>
    BY <1>0 DEF Transaction, BeginWrite, ReadIsLastOne, Progress, NoProgress, FetchAll, Commit
  <1>2. CASE BeginWrite(r)
    BY <1>0, <1>1, <1>2 DEF BeginWrite
  <1>3. CASE ReadIsLastOne(r)
    <2>1. rowsLeft[r] = {} => downloadQueryCounter = totalDownloadQuery
      <3>1. /\ downloadQueryCounter = Seen(r)
            /\ totalDownloadQuery = Cardinality(RowsOf(r, type[r]))
        BY <1>3 DEF ReadIsLastOne, SerialInv, CountInv, InTransaction, AtRow
      <3>2. /\ Cardinality(RowsOf(r, type[r])) \in Nat
            /\ Cardinality(rowsLeft[r]) = 0 <=> rowsLeft[r] = {}
        BY Countable DEF SerialInv
      <3>3. QED
        BY <3>1, <3>2 DEF Seen
    <2>2. isLastOne'[r] = (downloadQueryCounter = totalDownloadQuery)
      BY <1>3 DEF ReadIsLastOne, SerialInv, TypeOK
    <2>3. isUpdating' = isUpdating /\ \A q \in Requests \ {r} : pc'[q] # "argPercent"
      BY <1>0, <1>3 DEF ReadIsLastOne
    <2>4. pc'[r] = "argPercent"
      BY <1>0, <1>3 DEF ReadIsLastOne
    <2>5. QED
      BY <1>0, <1>1, <2>1, <2>2, <2>3, <2>4
  <1>4. CASE Progress(r)
    <2>1. row[r] \in RowsOf(r, type[r]) /\ Typed(r, type[r], row[r])
      BY <1>4 DEF Progress, SerialInv, LoopInv, InTransaction, AtRow
    <2>2. ~DeafTail(r)
      BY <2>1
    <2>3. ~DeafTail(r)'
      BY <1>1, <2>2
    <2>4. ~isUpdating' /\ \A q \in Requests : pc'[q] # "argPercent"
      BY <1>0, <1>4 DEF Progress
    <2>5. QED
      BY <1>1, <2>3, <2>4
  <1>5. CASE NoProgress(r)
    <2>1. ~(keysLeft[r] = {} /\ rowsLeft[r] = {})
      <3>1. SUFFICES ASSUME keysLeft[r] = {}, rowsLeft[r] = {} PROVE FALSE
        OBVIOUS
      <3>2. isLastOne[r]
        BY <1>5, <3>1 DEF NoProgress
      <3>3. downloadDataCounter = Visited(r) /\ totalDownloadData = Cardinality(Types)
        BY <1>5 DEF NoProgress, SerialInv, CountInv, Applying, Labels, InTransaction, AtRow,
                    AtTable
      <3>4. Cardinality(Types) \in Nat /\ Cardinality(Types) # 0 /\ Cardinality(keysLeft[r]) = 0
        BY <3>1, Countable, TypesAssumption, FS_EmptySet DEF SerialInv
      <3>5. IsHundred(downloadDataCounter, totalDownloadData)
        BY <3>3, <3>4 DEF Visited, IsHundred
      <3>6. QED
        BY <1>5, <3>2, <3>5 DEF NoProgress
    <2>2. isUpdating' = isUpdating /\ \A q \in Requests : pc'[q] # "argPercent"
      BY <1>0, <1>5 DEF NoProgress
    <2>3. QED
      BY <1>0, <1>1, <2>1, <2>2
  <1>6. CASE FetchAll(r)
    BY <1>0, <1>1, <1>6 DEF FetchAll, SerialInv, QuietInv
  <1>7. CASE Commit(r)
    BY <1>0, <1>1, <1>7 DEF Commit
  <1>8. QED
    BY <1>2, <1>3, <1>4, <1>5, <1>6, <1>7 DEF Transaction

\* A request that is not being applied is not the updater.
LEMMA TailRequest ==
  ASSUME SerialInv, TailInv, NEW r \in Requests,
         Tick(r) \/ Answer(r) \/ DropReply(r) \/ AcceptReply(r)
  PROVE  TailInv'
  <1> USE DEF Step, TailInv, DeafTail, RowsOf, Typed
  <1>1. pc \in [Requests -> Labels] /\ reply \in [Requests -> Reply]
    BY DEF SerialInv, TypeOK
  <1>2. CASE Tick(r) \/ Answer(r) \/ DropReply(r)
    <2>1. updater # r
      BY <1>2, NoneAssumption DEF Tick, Answer, DropReply, SerialInv, UpdaterInv, Applying
    <2>2. \A q \in Requests \ {r} : pc'[q] = pc[q] /\ reply'[q] = reply[q]
      BY <1>1, <1>2 DEF Tick, Answer, DropReply
    <2>3. pc'[r] # "argPercent"
      BY <1>1, <1>2 DEF Tick, Answer, DropReply
    <2>4. updater \in Requests \cup {None}
      BY DEF SerialInv, TypeOK
    <2>5. UNCHANGED <<loopVars, isLastOne, guardVars>>
      BY <1>2 DEF Tick, Answer, DropReply
    <2>6. QED
      BY <2>1, <2>2, <2>3, <2>4, <2>5
  <1>3. CASE AcceptReply(r)
    BY <1>1, <1>3 DEF AcceptReply
  <1>4. QED
    BY <1>2, <1>3

\* Every step keeps it.
LEMMA TailStep ==
  ASSUME SerialInv, TailInv, [Next]_vars
  PROVE  TailInv'
  <1>1. ASSUME UNCHANGED <<pc, reply, loopVars, isLastOne, guardVars>> PROVE TailInv'
    BY <1>1 DEF TailInv, DeafTail, RowsOf, Typed
  <1>2. ASSUME NEW r \in Requests, Tick(r) \/ Answer(r) \/ Handler(r) PROVE TailInv'
    BY <1>1, <1>2, TailLoop, TailTransaction, TailRequest
       DEF Handler, CrashOnFailure, CrashOnRow
  <1>3. CASE ServerAdvance \/ Main \/ Die \/ UNCHANGED vars
    BY <1>1, <1>3
       DEF ServerAdvance, Main, CameraMove, CameraRead, CameraShow, MainStep, Die, vars
  <1>4. CASE Launch
    BY <1>4 DEF Launch, TailInv
  <1>5. QED
    BY <1>2, <1>3, <1>4 DEF Next

\* isUpdating stays up after an update exactly when its reply ended in an empty
\* table or in a row without a type.
THEOREM SerialStuck ==
  ASSUME ~Overlap
  PROVE  Spec => []StuckExactlyOnDeafTail
  <1>1. Init => TailInv
    BY DEF Init, TailInv
  <1>2. SerialInv /\ TailInv /\ [Next]_vars => TailInv'
    BY TailStep
  <1>3. SerialInv /\ TailInv => StuckExactlyOnDeafTail
    BY DEF SerialInv, UpdaterInv, TypeOK, TailInv, StuckExactlyOnDeafTail
  <1>4. QED
    BY <1>1, <1>2, <1>3, SerialInvariant, PTL DEF Spec
=============================================================================
