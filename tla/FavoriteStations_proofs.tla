---------------------- MODULE FavoriteStations_proofs ----------------------
(* No tap is ever stored, and the button settles on what its model says,   *)
(* for any number of stations, versions and taps.                          *)
EXTENDS FavoriteStations, TLAPS

USE DEF refreshVars, modelVars, cellVars, tapVars

LEMMA NoRowsType ==
  /\ NoRows \in [Stations -> Row \cup {None}]
  /\ NoRows \in [Stations -> Model \cup {None}]
  BY DEF NoRows

LEMMA ModelOfType == \A row \in Row : ModelOf(row) \in Model
  BY DEF Row, Model, ModelOf

LEMMA TapKeepsTypes == TypeOK /\ Tap => TypeOK'
  <1> SUFFICES ASSUME TypeOK, Tap PROVE TypeOK'
    OBVIOUS
  <1> DEFINE new == [cell.model EXCEPT !.isFavorite = ~@]
             j == [tap |-> taps', station |-> cell.station, row |-> BikeModelParser(new)]
  <1>1. cell \in Cell /\ new \in Model
    BY DEF TypeOK, Tap, Cell, Model
  <1>2. cell' \in Cell
    BY <1>1 DEF Tap, Cell
  <1>3. taps' \in 1 .. MaxTaps
    BY BoundsAssumption DEF TypeOK, Tap
  <1>4. j \in Job
    BY <1>1, <1>3 DEF Job, Cell, BikeModelParser, Row, Model
  <1>5. jobs' = jobs \cup {j}
    BY DEF Tap
  <1>6. /\ modelDictionary' \in [Stations -> Model \cup {None}]
        /\ FavoriteModels' \in [Stations -> Model \cup {None}]
    BY <1>1 DEF TypeOK, Tap, SameObject
  <1>7. cell' # None
    BY NoneAssumption, <1>2
  <1>8. QED
    BY <1>2, <1>3, <1>4, <1>5, <1>6, <1>7, BoundsAssumption DEF TypeOK, Tap

\* The state keeps its types.
LEMMA NextKeepsTypes == TypeOK /\ [Next]_vars => TypeOK'
  <1> SUFFICES ASSUME TypeOK, [Next]_vars PROVE TypeOK'
    OBVIOUS
  <1> USE BoundsAssumption
  <1>1. CASE Publish \/ Reply
    <2>1. /\ now' \in 1 .. MaxVer /\ fetched' \in 0 .. now' /\ todo' \subseteq Stations
          /\ todo' # {} => fetched' # 0
      BY <1>1 DEF TypeOK, Publish, Reply
    <2>2. UNCHANGED <<alive, stored, read, modelVars, cellVars, tapVars>>
      BY <1>1 DEF Publish, Reply
    <2>3. QED
      BY <2>1, <2>2 DEF TypeOK
  <1>2. ASSUME NEW s \in Stations, WriteRow(s) PROVE TypeOK'
    <2>1. [ver |-> fetched, isFavorite |-> FALSE] \in Row
      BY <1>2 DEF TypeOK, WriteRow, Row
    <2>2. stored' \in [Stations -> Row \cup {None}]
      BY <1>2, <2>1 DEF TypeOK, WriteRow
    <2>3. QED
      BY <1>2, <2>2 DEF TypeOK, WriteRow
  <1>3. ASSUME NEW s \in Stations, SetBikeModel(s) PROVE TypeOK'
    <2>1. cell' \in Cell
      BY <1>3 DEF TypeOK, SetBikeModel, Cell
    <2>2. QED
      BY <1>3, <2>1, NoneAssumption DEF TypeOK, SetBikeModel
  <1>4. CASE Fetch
    BY <1>4 DEF TypeOK, Fetch
  <1>5. CASE Renew
    <2>1. read \in [Stations -> Row \cup {None}]
      BY <1>5 DEF TypeOK, Renew
    <2>2. /\ modelDictionary' \in [Stations -> Model \cup {None}]
          /\ FavoriteModels' \in [Stations -> Model \cup {None}]
      BY <1>5, <2>1, ModelOfType DEF TypeOK, Renew
    <2>3. cell' \in Cell \cup {None} /\ (cell # None => cell' # None)
      BY <1>5, NoneAssumption DEF TypeOK, Renew, Cell
    <2>4. QED
      BY <1>5, <2>2, <2>3 DEF TypeOK, Renew
  <1>6. ASSUME NEW j \in jobs, WriteBack(j) \/ WriteBackFails(j) PROVE TypeOK'
    BY <1>6 DEF TypeOK, WriteBack, WriteBackFails, Job
  <1>7. CASE ChangeFavoriteButton
    BY <1>7 DEF TypeOK, ChangeFavoriteButton, Cell, Model
  <1>8. CASE Die \/ UNCHANGED vars
    BY <1>8 DEF TypeOK, Die, vars
  <1>9. CASE Launch
    BY <1>9, NoRowsType DEF TypeOK, Launch
  <1>10. QED
    BY <1>1, <1>2, <1>3, <1>4, TapKeepsTypes, <1>5, <1>6, <1>7, <1>8, <1>9 DEF Next

THEOREM FavoriteTypeCorrect == Spec => []TypeOK
  <1>1. Init => TypeOK
    BY NoRowsType, BoundsAssumption DEF Init, TypeOK
  <1>2. QED
    BY <1>1, NextKeepsTypes, PTL DEF Spec

\* No FALSE turns into TRUE on the way from the store to the dictionaries, to
\* the cell, to the write-backs and back to the store.
UnsavedInv ==
    /\ TapNeverStored
    /\ read # None => \A s \in Stations : read[s] # None => ~read[s].isFavorite
    /\ \A s \in Stations : modelDictionary[s] # None => ~modelDictionary[s].saved
    /\ cell # None => ~cell.model.saved
    /\ \A j \in jobs : ~j.row.isFavorite

LEMMA TapUnsaved == TypeOK /\ UnsavedInv /\ Tap => UnsavedInv'
  <1> SUFFICES ASSUME TypeOK, UnsavedInv, Tap PROVE UnsavedInv'
    OBVIOUS
  <1> DEFINE new == [cell.model EXCEPT !.isFavorite = ~@]
  <1>1. cell \in Cell /\ cell # None
    BY DEF TypeOK, Tap
  <1>2. new.saved = FALSE /\ cell'.model.saved = FALSE /\ cell.model.saved = FALSE
    BY <1>1 DEF UnsavedInv, Tap, Cell, Model
  <1>3. \A s \in Stations : FavoriteModels'[s] = None
    BY <1>1 DEF UnsavedInv, TapNeverStored, Tap, SameObject, TypeOK
  <1>4. \A s \in Stations : modelDictionary'[s] # None => ~modelDictionary'[s].saved
    BY <1>1, <1>2 DEF UnsavedInv, Tap, SameObject, TypeOK
  <1>5. BikeModelParser(new).isFavorite = FALSE
    BY <1>2 DEF BikeModelParser
  <1>6. \A j \in jobs' : ~j.row.isFavorite
    BY <1>5 DEF UnsavedInv, Tap
  <1>7. QED
    BY <1>2, <1>3, <1>4, <1>6 DEF UnsavedInv, TapNeverStored, Tap

\* Nobody's tap is ever stored.
THEOREM NothingTappedIsStored == Spec => []TapNeverStored
  <1>1. Init => UnsavedInv
    BY DEF Init, UnsavedInv, TapNeverStored, NoRows
  <1>2. TypeOK /\ UnsavedInv /\ [Next]_vars => UnsavedInv'
    <2> SUFFICES ASSUME TypeOK, UnsavedInv, [Next]_vars PROVE UnsavedInv'
      OBVIOUS
    <2> USE DEF UnsavedInv, TapNeverStored
    <2>1. CASE Publish \/ Reply \/ ChangeFavoriteButton \/ Die \/ UNCHANGED vars
      BY <2>1 DEF Publish, Reply, ChangeFavoriteButton, Die, vars
    <2>2. ASSUME NEW s \in Stations, WriteRow(s) PROVE UnsavedInv'
      BY <2>2 DEF WriteRow, TypeOK
    <2>3. ASSUME NEW s \in Stations, SetBikeModel(s) PROVE UnsavedInv'
      BY <2>3 DEF SetBikeModel
    <2>4. CASE Fetch
      BY <2>4 DEF Fetch
    <2>5. CASE Renew
      <3>1. cell' # None => cell # None /\ cell'.model = cell.model
        BY <2>5, NoneAssumption DEF Renew, TypeOK, Cell
      <3>2. QED
        BY <2>5, <3>1 DEF Renew, ModelOf
    <2>6. ASSUME NEW j \in jobs, WriteBack(j) \/ WriteBackFails(j) PROVE UnsavedInv'
      BY <2>6 DEF WriteBack, WriteBackFails, TypeOK
    <2>7. CASE Launch
      BY <2>7 DEF Launch, NoRows
    <2>8. QED
      BY TapUnsaved, <2>1, <2>2, <2>3, <2>4, <2>5, <2>6, <2>7 DEF Next
  <1>3. UnsavedInv => TapNeverStored
    BY DEF UnsavedInv
  <1>4. QED
    BY <1>1, <1>2, <1>3, FavoriteTypeCorrect, PTL DEF Spec

\* Once the write-backs and the redraws are done, the button says what the model
\* of the cell says, whatever the order they ended in.
THEOREM FavoriteImageSettles == Spec => []ImageSettles
  <1>1. Init => ImageSettles
    BY DEF Init, ImageSettles
  <1>2. TypeOK /\ ImageSettles /\ [Next]_vars => ImageSettles'
    <2> SUFFICES ASSUME TypeOK, ImageSettles, [Next]_vars PROVE ImageSettles'
      OBVIOUS
    <2> USE DEF ImageSettles
    <2>1. CASE Publish \/ Reply \/ Fetch \/ Die \/ UNCHANGED vars
      BY <2>1 DEF Publish, Reply, Fetch, Die, vars
    <2>2. ASSUME NEW s \in Stations, WriteRow(s) \/ SetBikeModel(s) PROVE ImageSettles'
      BY <2>2 DEF WriteRow, SetBikeModel
    <2>3. CASE Renew
      <3>1. cell' # None => cell # None /\ cell'.model = cell.model
        BY <2>3, NoneAssumption DEF Renew, TypeOK, Cell
      <3>2. UNCHANGED <<image, settled, jobs, redraws>>
        BY <2>3 DEF Renew
      <3>3. QED
        BY <3>1, <3>2
    <2>4. CASE Tap
      BY <2>4 DEF Tap
    <2>5. ASSUME NEW j \in jobs, WriteBack(j) \/ WriteBackFails(j) PROVE ImageSettles'
      BY <2>5 DEF WriteBack, WriteBackFails
    <2>6. CASE ChangeFavoriteButton
      BY <2>6 DEF ChangeFavoriteButton
    <2>7. CASE Launch
      BY <2>7 DEF Launch
    <2>8. QED
      BY <2>1, <2>2, <2>3, <2>4, <2>5, <2>6, <2>7 DEF Next
  <1>3. QED
    BY <1>1, <1>2, FavoriteTypeCorrect, PTL DEF Spec
=============================================================================
