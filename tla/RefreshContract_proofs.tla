----------------------- MODULE RefreshContract_proofs -----------------------
(* What follows from the promise of RefreshContract, for all constants.    *)
EXTENDS RefreshContract, TLAPS

ContractTypeOK ==
    alive \in BOOLEAN /\ busy \in BOOLEAN /\ pending \in Table /\ data \in Table

ContractInv == ContractTypeOK /\ PendingIsNews

LEMMA NoRowsIsTable == ASSUME MaxVer \in Nat PROVE NoRows \in Table
  BY DEF NoRows, Table

\* A row that is written is no older than the one it replaces.
LEMMA WriteGrows ==
  ASSUME MaxVer \in Nat, ContractInv, Write
  PROVE  /\ pending' \in Table /\ data' \in Table
         /\ IsNews(pending)'
         /\ \A t \in Types, s \in Stations : data[t][s] <= data'[t][s]
  <1>1. PICK t \in Types, s \in Stations :
           /\ pending[t][s] # 0
           /\ pending' = [pending EXCEPT ![t][s] = 0]
           /\ data' = [data EXCEPT ![t][s] = pending[t][s]]
    BY DEF Write
  <1>2. /\ \A x \in Types, y \in Stations :
               pending[x][y] \in 0 .. MaxVer /\ data[x][y] \in 0 .. MaxVer
        /\ 0 \in 0 .. MaxVer
    BY DEF ContractInv, ContractTypeOK, Table
  <1>3. pending' \in Table /\ data' \in Table
    BY <1>1, <1>2 DEF ContractInv, ContractTypeOK, Table
  <1>4. \A x \in Types, y \in Stations :
           /\ pending'[x][y] = IF x = t /\ y = s THEN 0 ELSE pending[x][y]
           /\ data'[x][y] = IF x = t /\ y = s THEN pending[t][s] ELSE data[x][y]
    BY <1>1 DEF ContractInv, ContractTypeOK, Table
  <1>5. data[t][s] <= pending[t][s]
    BY <1>1 DEF ContractInv, PendingIsNews, IsNews
  <1>6. \A x \in Types, y \in Stations : data[x][y] <= data'[x][y]
    BY <1>2, <1>4, <1>5
  <1>7. IsNews(pending)'
    BY <1>4 DEF ContractInv, PendingIsNews, IsNews
  <1>8. QED
    BY <1>3, <1>6, <1>7

\* The invariant is inductive.
THEOREM ContractInvariant == ASSUME MaxVer \in Nat PROVE Spec => []ContractInv
  <1>1. Init => ContractInv
    <2> SUFFICES ASSUME Init PROVE ContractInv
      OBVIOUS
    <2>1. ContractTypeOK
      BY NoRowsIsTable DEF Init, ContractTypeOK
    <2>2. \A t \in Types, s \in Stations : pending[t][s] = 0
      BY DEF Init, NoRows
    <2>3. PendingIsNews
      BY <2>2 DEF Init, PendingIsNews, IsNews
    <2>4. QED
      BY <2>1, <2>3 DEF ContractInv
  <1>2. ContractInv /\ [Next]_contractVars => ContractInv'
    <2> SUFFICES ASSUME ContractInv, [Next]_contractVars PROVE ContractInv'
      OBVIOUS
    <2>1. CASE Begin
      BY <2>1 DEF Begin, ContractInv, ContractTypeOK, PendingIsNews, IsNews
    <2>2. CASE Write
      BY <2>2, WriteGrows DEF Write, ContractInv, ContractTypeOK, PendingIsNews
    <2>3. CASE Release
      BY <2>3 DEF Release, ContractInv, ContractTypeOK, PendingIsNews, IsNews
    <2>4. CASE Crash
      BY <2>4 DEF Crash, ContractInv, ContractTypeOK, PendingIsNews, IsNews
    <2>5. CASE Launch
      <3>1. \A t \in Types, s \in Stations : pending'[t][s] = 0
        BY <2>5 DEF Launch, NoRows
      <3>2. PendingIsNews'
        BY <2>5, <3>1 DEF Launch, PendingIsNews, IsNews, NoRows
      <3>3. QED
        BY <2>5, <3>2, NoRowsIsTable DEF Launch, ContractInv, ContractTypeOK
    <2>6. CASE UNCHANGED contractVars
      BY <2>6 DEF contractVars, ContractInv, ContractTypeOK, PendingIsNews, IsNews, NoRows
    <2>7. QED
      BY <2>1, <2>2, <2>3, <2>4, <2>5, <2>6 DEF Next
  <1>3. QED
    BY <1>1, <1>2, PTL DEF Spec

\* Rows left to write are announced, and are news.
THEOREM ContractPending == ASSUME MaxVer \in Nat PROVE Spec => []PendingIsNews
  BY ContractInvariant, PTL DEF ContractInv

\* Within the life of a process no stored row goes back or away.
THEOREM ContractGrows == ASSUME MaxVer \in Nat PROVE Spec => RowsOnlyGrow
  <1>1. ContractInv /\ [Next]_contractVars =>
          (alive => \A t \in Types, s \in Stations : data[t][s] <= data'[t][s])
    <2> SUFFICES ASSUME ContractInv, [Next]_contractVars, alive
                 PROVE  \A t \in Types, s \in Stations : data[t][s] <= data'[t][s]
      OBVIOUS
    <2>1. \A t \in Types, s \in Stations : data[t][s] <= data[t][s]
      BY DEF ContractInv, ContractTypeOK, Table
    <2>2. CASE Write
      BY <2>2, WriteGrows
    <2>3. CASE ~Write
      <3>1. data' = data
        BY <2>3 DEF Next, Begin, Release, Crash, Launch, contractVars
      <3>2. QED
        BY <3>1, <2>1
    <2>4. QED
      BY <2>2, <2>3
  <1>2. QED
    BY <1>1, ContractInvariant, PTL DEF Spec, RowsOnlyGrow
=============================================================================
