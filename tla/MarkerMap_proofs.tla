--------------------------- MODULE MarkerMap_proofs ---------------------------
(***************************************************************************)
(* Proofs about MarkerMap: what its runs check, for all constants.         *)
(***************************************************************************)
EXTENDS MarkerMapContract, TLAPS

\* Types, with the little that the other proofs need of the order of the steps:
\* what a fetch has in hand at which step.
InHand ==
    /\ \A t \in Threads :
          /\ pc[t] \notin {"pick", "check", "put", "copy", "post"} => left[t] = {}
          /\ pc[t] \in {"idle", "moved", "updating", "read"} => fresh[t] = {}
          /\ pc[t] = "put" => cur[t] \in Stations
    /\ pc["update"] = "updating" => isUpdating

TypeInv == TypeOK /\ InHand

USE DEF Goto, MayEnter, Threads, Feed!Begin, Feed!Write, Feed!End, Feed!EndDeaf

LEMMA TypeInit == Init => TypeInv
<1> SUFFICES ASSUME Init PROVE TypeInv
  OBVIOUS
<1> USE MapAssumption DEF Init, Fetching
<1>1. pc \in [Threads -> {"idle"}]
  OBVIOUS
<1>2. items \in [Stations -> 0 .. MaxItems] /\ drawn \in [Stations -> 0 .. MaxItems]
  OBVIOUS
<1>3. kind \in [Threads -> Types \cup {None}] /\ cur \in [Threads -> Stations \cup {None}]
  OBVIOUS
<1>4. \A t \in Threads : left[t] = {} /\ fresh[t] = {} /\ copy[t] = {}
  OBVIOUS
<1>5. left \in [Threads -> SUBSET Stations]
  OBVIOUS
<1>6. fresh = left /\ copy = left
  OBVIOUS
<1>7. /\ pc \in [Threads -> {"idle", "moved", "updating"} \cup Fetching]
      /\ pc["main"] # "updating" /\ pc["update"] # "moved"
  OBVIOUS
<1>8. /\ stored \subseteq Stations /\ models \subseteq Stations
      /\ modelDictionary \subseteq Stations
      /\ isUpdating \in BOOLEAN /\ isFirstLoad \in BOOLEAN
  OBVIOUS
<1>9. camera \in Places /\ previous \in Places /\ moves \in 0 .. MaxMoves
  OBVIOUS
<1>12. requested \subseteq Types /\ raced \in BOOLEAN
  OBVIOUS
<1>10. TypeOK
  BY <1>2, <1>3, <1>5, <1>6, <1>7, <1>8, <1>9, <1>12, Zenon DEF TypeOK
<1>11. InHand
  BY <1>1, <1>4 DEF InHand
<1> QED
  BY <1>10, <1>11 DEF TypeInv

LEMMA TypeStep == TypeInv /\ [Next]_vars => TypeInv'
<1> SUFFICES ASSUME TypeInv, [Next]_vars PROVE TypeInv'
  OBVIOUS
<1> USE MapAssumption DEF TypeInv, TypeOK, InHand, Fetching
<1>1. ASSUME NEW p \in Places, CameraMove(p) PROVE TypeInv'
  BY <1>1 DEF CameraMove, modelVars, mapVars, fetchVars
<1>2. CASE ViewDidAppear
  BY <1>2 DEF ViewDidAppear, FetchHere, modelVars, mapVars, cameraVars, fetchVars
<1>3. CASE ZoomChange \/ \E y \in Types : ClusterLate(y)
  BY <1>3 DEF ZoomChange, ClusterLate, modelVars, cameraVars, fetchVars
<1>4. CASE CameraTest
  BY <1>4 DEF CameraTest, FetchHere, modelVars, mapVars, fetchVars
<1>5. CASE ReadNear
  BY <1>5 DEF ReadNear, modelVars, mapVars, cameraVars
<1>6. CASE ReadAll
  BY <1>6 DEF ReadAll, modelVars, mapVars, cameraVars
<1>7. ASSUME NEW t \in Threads, FetchStep(t) PROVE TypeInv'
  <2>1. CASE PickType(t)
    BY <2>1 DEF PickType, modelVars, mapVars, cameraVars
  <2>2. CASE NoTypeLeft(t)
    BY <2>2 DEF NoTypeLeft, modelVars, mapVars, cameraVars, fetchVars
  <2>3. CASE CheckModel(t)
    BY <2>3 DEF CheckModel, modelVars, mapVars, cameraVars
  <2>4. CASE PutModel(t)
    BY <2>4 DEF PutModel, mapVars, cameraVars, fetchVars
  <2>5. CASE CopyModels(t)
    BY <2>5 DEF CopyModels, modelVars, mapVars, cameraVars
  <2>6. CASE PostModels(t)
    BY <2>6 DEF PostModels, mapVars, cameraVars, fetchVars
  <2>7. CASE AddItems(t)
    <3> PICK n \in fresh[t] :
          /\ items' = [s \in Stations |->
                 IF s \in FreshOf(t, TypeOf[n]) /\ items[s] < MaxItems
                 THEN items[s] + 1 ELSE items[s]]
          /\ fresh' = [fresh EXCEPT ![t] = @ \ FreshOf(t, TypeOf[n])]
      BY <2>7 DEF AddItems
    <3>1. items' \in [Stations -> 0 .. MaxItems]
      OBVIOUS
    <3>2. fresh' \in [Threads -> SUBSET Stations]
      BY DEF FreshOf
    <3> QED
      BY <2>7, <3>1, <3>2 DEF AddItems, modelVars, cameraVars
  <2>8. CASE Redraw(t)
    BY <2>8 DEF Redraw, AfterRedraw, modelVars, cameraVars, fetchVars
  <2> QED
    BY <1>7, <2>1, <2>2, <2>3, <2>4, <2>5, <2>6, <2>7, <2>8 DEF FetchStep
<1>8. CASE BeginUpdate
  BY <1>8 DEF BeginUpdate, modelVars, mapVars, cameraVars, fetchVars
<1>9. CASE EndUpdate
  BY <1>9 DEF EndUpdate, modelVars, mapVars, cameraVars, fetchVars
<1>10. CASE DeafTail
  BY <1>10 DEF DeafTail, modelVars, mapVars, cameraVars, fetchVars
<1>11. ASSUME NEW s \in Stations, WriteRow(s) PROVE TypeInv'
  BY <1>11 DEF WriteRow, mapVars, cameraVars, fetchVars
<1>12. CASE UNCHANGED vars
  BY <1>12 DEF vars, modelVars, mapVars, cameraVars, fetchVars
<1> QED
  BY <1>1, <1>2, <1>3, <1>4, <1>5, <1>6, <1>7, <1>8, <1>9, <1>10, <1>11, <1>12
     DEF Next, MainStep, UpdateStep

\* The state of the map, the manager and the threads keeps its types, for every
\* interleaving of camera and updates.
THEOREM MapTypeCorrect == Spec => []TypeOK
<1>1. Spec => []TypeInv
  BY TypeInit, TypeStep, PTL DEF Spec
<1>2. TypeInv => TypeOK
  BY DEF TypeInv
<1> QED
  BY <1>1, <1>2, PTL

-----------------------------------------------------------------------------
(* Every stored station gets an item.                                      *)

Announced(s) == \E t \in Threads : s \in fresh[t]
Marked(s)    == items[s] > 0 \/ Announced(s)

\* A station with a model has an item or is about to be announced; so is the
\* station in hand.  A row that was stored has been seen to, is being seen to by
\* the thread of the update, or is left to the end of an update.  What is drawn has
\* an item.
MarkedInv ==
    /\ \A s \in models : Marked(s)
    /\ \A t \in Threads : pc[t] = "put" => cur[t] \in models \/ cur[t] \in fresh[t]
    /\ \A s \in stored :
          isUpdating \/ pc["update"] = "read" \/ s \in left["update"] \/ Marked(s)
    /\ \A s \in Stations : drawn[s] > 0 => items[s] > 0

LEMMA MarkedInit == Init => MarkedInv
  BY MapAssumption DEF Init, MarkedInv

LEMMA MarkedStep == TypeInv /\ MarkedInv /\ [Next]_vars => MarkedInv'
<1> SUFFICES ASSUME TypeInv, MarkedInv, [Next]_vars PROVE MarkedInv'
  OBVIOUS
<1> USE MapAssumption DEF TypeInv, TypeOK, InHand, Fetching, MarkedInv, Marked, Announced
<1>1. ASSUME NEW p \in Places, CameraMove(p) PROVE MarkedInv'
  BY <1>1 DEF CameraMove, modelVars, mapVars, fetchVars
<1>2. CASE ViewDidAppear
  BY <1>2 DEF ViewDidAppear, FetchHere, modelVars, mapVars, cameraVars, fetchVars
<1>3. CASE ZoomChange \/ \E y \in Types : ClusterLate(y)
  BY <1>3 DEF ZoomChange, ClusterLate, modelVars, cameraVars, fetchVars
<1>4. CASE CameraTest
  BY <1>4 DEF CameraTest, FetchHere, modelVars, mapVars, fetchVars
<1>5. CASE ReadNear
  BY <1>5 DEF ReadNear, modelVars, mapVars, cameraVars
<1>6. CASE ReadAll
  BY <1>6 DEF ReadAll, modelVars, mapVars, cameraVars
<1>7. ASSUME NEW t \in Threads, FetchStep(t) PROVE MarkedInv'
  <2>1. CASE PickType(t)
    BY <2>1 DEF PickType, modelVars, mapVars, cameraVars
  <2>2. CASE NoTypeLeft(t)
    BY <2>2 DEF NoTypeLeft, modelVars, mapVars, cameraVars, fetchVars
  <2>3. CASE CheckModel(t)
    BY <2>3 DEF CheckModel, modelVars, mapVars, cameraVars
  <2>4. CASE PutModel(t)
    BY <2>4 DEF PutModel, mapVars, cameraVars, fetchVars
  <2>5. CASE CopyModels(t)
    BY <2>5 DEF CopyModels, modelVars, mapVars, cameraVars
  <2>6. CASE PostModels(t)
    BY <2>6 DEF PostModels, mapVars, cameraVars, fetchVars
  <2>7. CASE AddItems(t)
    <3> PICK n \in fresh[t] :
          /\ items' = [s \in Stations |->
                 IF s \in FreshOf(t, TypeOf[n]) /\ items[s] < MaxItems
                 THEN items[s] + 1 ELSE items[s]]
          /\ fresh' = [fresh EXCEPT ![t] = @ \ FreshOf(t, TypeOf[n])]
      BY <2>7 DEF AddItems
    <3>1. \A s \in Stations : Marked(s) => Marked(s)'
      OBVIOUS
    <3> QED
      BY <2>7, <3>1 DEF AddItems, modelVars, cameraVars
  <2>8. CASE Redraw(t)
    BY <2>8 DEF Redraw, AfterRedraw, modelVars, cameraVars, fetchVars
  <2> QED
    BY <1>7, <2>1, <2>2, <2>3, <2>4, <2>5, <2>6, <2>7, <2>8 DEF FetchStep
<1>8. CASE BeginUpdate
  BY <1>8 DEF BeginUpdate, modelVars, mapVars, cameraVars, fetchVars
<1>9. CASE EndUpdate
  BY <1>9 DEF EndUpdate, modelVars, mapVars, cameraVars, fetchVars
<1>10. CASE DeafTail
  BY <1>10 DEF DeafTail, modelVars, mapVars, cameraVars, fetchVars
<1>11. ASSUME NEW s \in Stations, WriteRow(s) PROVE MarkedInv'
  BY <1>11 DEF WriteRow, mapVars, cameraVars, fetchVars
<1>12. CASE UNCHANGED vars
  BY <1>12 DEF vars, modelVars, mapVars, cameraVars, fetchVars
<1> QED
  BY <1>1, <1>2, <1>3, <1>4, <1>5, <1>6, <1>7, <1>8, <1>9, <1>10, <1>11, <1>12
     DEF Next, MainStep, UpdateStep

\* When no fetch is under way and isUpdating is down, every station with a row
\* has an item, though fetches are turned away and the threads race.
THEOREM MapMarked == Spec => []QuietMeansMarked
<1>1. Spec => [](TypeInv /\ MarkedInv)
  BY TypeInit, TypeStep, MarkedInit, MarkedStep, PTL DEF Spec
<1>2. TypeInv /\ MarkedInv => QuietMeansMarked
  BY DEF TypeInv, InHand, MarkedInv, Marked, Announced, QuietMeansMarked, Quiet
<1> QED
  BY <1>1, <1>2, PTL

-----------------------------------------------------------------------------
(* Threads that have not been filtering at once.                           *)

\* One thread filters at a time.
OneFilters == \A t, u \in Threads : Filtering(t) /\ Filtering(u) => t = u

\* A station is announced by one thread, before it has an item, and has a model
\* from then on.
AnnouncedOnce ==
    \A s \in Stations :
        /\ items[s] <= 1
        /\ items[s] > 0 => s \in models
        /\ \A t \in Threads : s \in fresh[t] =>
              /\ items[s] = 0
              /\ s \in models \/ (pc[t] = "put" /\ cur[t] = s)
              /\ \A u \in Threads : s \in fresh[u] => u = t

\* The map's copy of the models has what is announced once that is filtered, and
\* the copy under way has it too.
CopyUpToDate ==
    /\ \A t \in Threads : pc[t] = "post" => copy[t] = models
    /\ \A t \in Threads : ~Filtering(t) => fresh[t] \subseteq modelDictionary
    /\ \A s \in Stations : items[s] > 0 => s \in modelDictionary

InTurn == OneFilters /\ AnnouncedOnce /\ CopyUpToDate

RaceInv == raced \/ InTurn

LEMMA RaceInit == Init => RaceInv
  BY MapAssumption DEF Init, RaceInv, InTurn, OneFilters, Filtering, AnnouncedOnce, CopyUpToDate

\* A step that leaves models, items and announcements alone and lets nobody start
\* filtering changes nothing here.
LEMMA RaceUndisturbed ==
    ASSUME TypeInv, InTurn, UNCHANGED <<models, modelDictionary, items, fresh, cur, copy>>,
           \A t \in Threads : pc'[t] # pc[t] => ~Filtering(t) /\ ~Filtering(t)'
    PROVE  InTurn'
<1> USE DEF TypeInv, TypeOK, InTurn, OneFilters, AnnouncedOnce, CopyUpToDate, Filtering
<1>1. OneFilters'
  OBVIOUS
<1>2. AnnouncedOnce'
  OBVIOUS
<1>3. CopyUpToDate'
  OBVIOUS
<1> QED
  BY <1>1, <1>2, <1>3

\* The steps of a fetch.
LEMMA RaceFetchStep ==
    ASSUME TypeInv, InTurn, NEW t \in Threads, FetchStep(t), ~raced'
    PROVE  InTurn'
<1> USE MapAssumption DEF TypeInv, TypeOK, InHand, Fetching, InTurn, OneFilters, AnnouncedOnce,
        CopyUpToDate, Filtering
<1>1. CASE PickType(t)
  BY <1>1 DEF PickType, modelVars, mapVars
<1>2. CASE NoTypeLeft(t)
  BY <1>2 DEF NoTypeLeft, modelVars, mapVars, fetchVars
<1>3. CASE CheckModel(t)
  <2>1. OneFilters'
    BY <1>3 DEF CheckModel
  <2>2. CopyUpToDate'
    BY <1>3 DEF CheckModel, modelVars, mapVars
  <2>3. AnnouncedOnce'
    BY <1>3 DEF CheckModel, modelVars, mapVars
  <2> QED
    BY <2>1, <2>2, <2>3
<1>4. CASE PutModel(t)
  <2>1. ~Racing(t)
    BY <1>4 DEF PutModel, Racing
  <2>2. models' = models \cup {cur[t]}
    BY <1>4, <2>1 DEF PutModel
  <2>3. OneFilters'
    BY <1>4 DEF PutModel
  <2>4. CopyUpToDate'
    BY <1>4, <2>2 DEF PutModel, mapVars, fetchVars
  <2>5. AnnouncedOnce'
    BY <1>4, <2>2 DEF PutModel, mapVars, fetchVars
  <2> QED
    BY <2>3, <2>4, <2>5
<1>5. CASE CopyModels(t)
  BY <1>5 DEF CopyModels, modelVars, mapVars
<1>6. CASE PostModels(t)
  <2>1. modelDictionary' = models
    BY <1>6 DEF PostModels
  <2>2. fresh[t] \subseteq models
    BY <1>6 DEF PostModels
  <2>3. \A u \in Threads : u # t => fresh[u] \subseteq models
    BY <1>6 DEF PostModels
  <2>4. OneFilters' /\ AnnouncedOnce'
    BY <1>6 DEF PostModels, mapVars, fetchVars
  <2>5. CopyUpToDate'
    BY <1>6, <2>1, <2>2, <2>3 DEF PostModels, mapVars, fetchVars
  <2> QED
    BY <2>4, <2>5
<1>7. CASE AddItems(t)
  <2> PICK n \in fresh[t] :
        /\ items' = [s \in Stations |->
               IF s \in FreshOf(t, TypeOf[n]) /\ items[s] < MaxItems
               THEN items[s] + 1 ELSE items[s]]
        /\ fresh' = [fresh EXCEPT ![t] = @ \ FreshOf(t, TypeOf[n])]
    BY <1>7 DEF AddItems
  <2> USE DEF FreshOf
  <2>1. \A s \in Stations : items'[s] # items[s] =>
            items[s] = 0 /\ items'[s] = 1 /\ s \in fresh[t] /\ s \notin fresh'[t]
    OBVIOUS
  <2>2. \A u \in Threads : fresh'[u] \subseteq fresh[u]
    OBVIOUS
  <2>3. fresh[t] \subseteq modelDictionary /\ fresh[t] \subseteq models
    BY <1>7 DEF AddItems
  <2>4. OneFilters'
    BY <1>7 DEF AddItems
  <2>5. AnnouncedOnce'
    BY <1>7, <2>1, <2>2, <2>3 DEF AddItems, modelVars
  <2>6. CopyUpToDate'
    BY <1>7, <2>1, <2>2, <2>3 DEF AddItems, modelVars
  <2> QED
    BY <2>4, <2>5, <2>6
<1>8. CASE Redraw(t)
  BY <1>8, RaceUndisturbed DEF Redraw, AfterRedraw, modelVars, fetchVars
<1> QED
  BY <1>1, <1>2, <1>3, <1>4, <1>5, <1>6, <1>7, <1>8 DEF FetchStep

LEMMA RaceStep == TypeInv /\ RaceInv /\ [Next]_vars => RaceInv'
<1> SUFFICES ASSUME TypeInv, RaceInv, [Next]_vars, ~raced' PROVE InTurn'
  BY DEF RaceInv
<1>1. InTurn
  BY DEF RaceInv, Next, MainStep, UpdateStep, FetchStep, CameraMove, ViewDidAppear, ZoomChange,
     ClusterLate, CameraTest, ReadNear, ReadAll, PickType, NoTypeLeft, CheckModel, PutModel,
     CopyModels, PostModels, AddItems, Redraw, BeginUpdate, EndUpdate, DeafTail, WriteRow,
     vars, fetchVars
<1>2. ASSUME NEW t \in Threads, FetchStep(t) PROVE InTurn'
  BY <1>1, <1>2, RaceFetchStep
<1>3. CASE \/ \E p \in Places : CameraMove(p)
           \/ ViewDidAppear \/ ZoomChange \/ (\E y \in Types : ClusterLate(y))
           \/ CameraTest \/ ReadNear
  BY <1>1, <1>3, RaceUndisturbed DEF CameraMove, ViewDidAppear, ZoomChange, ClusterLate,
     CameraTest, ReadNear, FetchHere, Filtering, TypeInv, TypeOK, modelVars, mapVars, fetchVars
<1>4. CASE ReadAll \/ BeginUpdate \/ EndUpdate \/ DeafTail \/ \E s \in Stations : WriteRow(s)
  BY <1>1, <1>4, RaceUndisturbed DEF ReadAll, BeginUpdate, EndUpdate, DeafTail, WriteRow,
     Filtering, TypeInv, TypeOK, modelVars, mapVars, fetchVars
<1>5. CASE UNCHANGED vars
  BY <1>1, <1>5, RaceUndisturbed DEF vars, modelVars, mapVars, fetchVars
<1> QED
  BY <1>2, <1>3, <1>4, <1>5 DEF Next, MainStep, UpdateStep, Threads

LEMMA RaceInvariant == Spec => []RaceInv
<1>1. Init => TypeInv /\ RaceInv
  BY TypeInit, RaceInit
<1>2. TypeInv /\ RaceInv /\ [Next]_vars => (TypeInv /\ RaceInv)'
  BY TypeStep, RaceStep
<1> QED
  BY <1>1, <1>2, PTL DEF Spec

\* Whatever camera and updates do, a station has two items only if both threads
\* have been in filteredData at once.
THEOREM MapOneMarker == Spec => []OneMarkerUnlessRaced
<1>1. RaceInv => OneMarkerUnlessRaced
  BY DEF RaceInv, InTurn, AnnouncedOnce, OneMarkerUnlessRaced
<1> QED
  BY <1>1, RaceInvariant, PTL

\* Whatever camera and updates do, renderCluster misses the model of an item only
\* if both threads have been in filteredData at once.
THEOREM MapModelKnown == Spec => []ModelKnownUnlessRaced
<1>1. RaceInv => ModelKnownUnlessRaced
  BY DEF RaceInv, InTurn, CopyUpToDate, ModelKnownUnlessRaced
<1> QED
  BY <1>1, RaceInvariant, PTL

-----------------------------------------------------------------------------
(* Threads that take turns at fetching.                                    *)

Resting(t) == pc[t] \in {"idle", "updating"}

\* One thread fetches at a time.
OneFetch == \A t, u \in Threads : Resting(t) \/ Resting(u) \/ t = u

\* A redraw is never given up.
RedrawsHappen ==
    /\ pc["main"] # "moved" => ~Far(camera, previous)
    /\ (\A t \in Threads : pc[t] # "redraw") => drawn = items

TurnsInv == OneFetch /\ ~raced /\ RedrawsHappen

LEMMA TurnsInit == Init => TurnsInv
  BY MapAssumption DEF Init, TurnsInv, OneFetch, Resting, RedrawsHappen, Far

LEMMA OneFetchStep ==
  TypeInv /\ OneFetch /\ ~Overlap /\ [Next]_vars => OneFetch'
<1> SUFFICES ASSUME TypeInv, OneFetch, ~Overlap, [Next]_vars PROVE OneFetch'
  OBVIOUS
<1> USE DEF TypeInv, TypeOK, Fetching, OneFetch, Resting
<1>1. CASE \E p \in Places : CameraMove(p)
  BY <1>1 DEF CameraMove
<1>2. CASE ViewDidAppear \/ ZoomChange \/ \E y \in Types : ClusterLate(y)
  BY <1>2 DEF ViewDidAppear, ZoomChange, ClusterLate, FetchHere
<1>3. CASE CameraTest \/ ReadNear \/ ReadAll
  BY <1>3 DEF CameraTest, FetchHere, ReadNear, ReadAll
<1>4. ASSUME NEW t \in Threads, FetchStep(t) PROVE OneFetch'
  <2>1. CASE PickType(t) \/ NoTypeLeft(t) \/ CheckModel(t) \/ PutModel(t)
    BY <2>1 DEF PickType, NoTypeLeft, CheckModel, PutModel
  <2>2. CASE CopyModels(t) \/ PostModels(t) \/ AddItems(t) \/ Redraw(t)
    BY <2>2 DEF CopyModels, PostModels, AddItems, Redraw, AfterRedraw
  <2> QED
    BY <1>4, <2>1, <2>2 DEF FetchStep
<1>5. CASE BeginUpdate \/ EndUpdate \/ DeafTail \/ \E s \in Stations : WriteRow(s)
  BY <1>5 DEF BeginUpdate, EndUpdate, DeafTail, WriteRow
<1>6. CASE UNCHANGED vars
  BY <1>6 DEF vars
<1> QED
  BY <1>1, <1>2, <1>3, <1>4, <1>5, <1>6 DEF Next, MainStep, UpdateStep

LEMMA TurnsStep ==
  TypeInv /\ TurnsInv /\ ~Overlap /\ [Next]_vars => TurnsInv'
<1> SUFFICES ASSUME TypeInv, TurnsInv, ~Overlap, [Next]_vars PROVE TurnsInv'
  OBVIOUS
<1>a. OneFetch'
  BY OneFetchStep DEF TurnsInv
<1> DEFINE Rest == ~raced' /\ RedrawsHappen'
<1> SUFFICES Rest
  BY <1>a DEF TurnsInv
<1> USE MapAssumption DEF TypeInv, TypeOK, Fetching, TurnsInv, OneFetch, Resting, RedrawsHappen
<1>1. ASSUME NEW p \in Places, CameraMove(p) PROVE Rest
  BY <1>1 DEF CameraMove, mapVars, fetchVars
<1>2. CASE ViewDidAppear
  BY <1>2 DEF ViewDidAppear, FetchHere, mapVars, cameraVars, fetchVars
<1>3. CASE ZoomChange
  BY <1>3 DEF ZoomChange, cameraVars, fetchVars
<1>4. ASSUME NEW y \in Types, ClusterLate(y) PROVE Rest
  <2>1. drawn = items => drawn' = items
    BY <1>4 DEF ClusterLate
  <2> QED
    BY <1>4, <2>1 DEF ClusterLate, cameraVars, fetchVars
<1>5. CASE CameraTest
  BY <1>5 DEF CameraTest, coordinationCheckOut, Far, FetchHere, mapVars, fetchVars
<1>6. CASE ReadNear \/ ReadAll
  BY <1>6 DEF ReadNear, ReadAll, mapVars, cameraVars
<1>7. ASSUME NEW t \in Threads, FetchStep(t) PROVE Rest
  <2>1. CASE PickType(t)
    BY <2>1 DEF PickType, Filtering, mapVars, cameraVars
  <2>2. CASE NoTypeLeft(t) \/ CheckModel(t)
    BY <2>2 DEF NoTypeLeft, CheckModel, mapVars, cameraVars, fetchVars
  <2>3. CASE PutModel(t)
    BY <2>3 DEF PutModel, mapVars, cameraVars, fetchVars
  <2>4. CASE CopyModels(t) \/ PostModels(t)
    BY <2>4 DEF CopyModels, PostModels, mapVars, cameraVars, fetchVars
  <2>5. CASE AddItems(t)
    BY <2>5 DEF AddItems, cameraVars
  <2>6. CASE Redraw(t)
    <3>1. ~coordinationCheckOut
      BY <2>6 DEF Redraw, coordinationCheckOut
    <3> QED
      BY <2>6, <3>1 DEF Redraw, AfterRedraw, cameraVars, fetchVars
  <2> QED
    BY <1>7, <2>1, <2>2, <2>3, <2>4, <2>5, <2>6 DEF FetchStep
<1>8. CASE BeginUpdate \/ EndUpdate \/ DeafTail
  BY <1>8 DEF BeginUpdate, EndUpdate, DeafTail, mapVars, cameraVars, fetchVars
<1>9. ASSUME NEW s \in Stations, WriteRow(s) PROVE Rest
  BY <1>9 DEF WriteRow, mapVars, cameraVars, fetchVars
<1>10. CASE UNCHANGED vars
  BY <1>10 DEF vars, mapVars, cameraVars, fetchVars
<1> QED
  BY <1>1, <1>2, <1>3, <1>4, <1>5, <1>6, <1>7, <1>8, <1>9, <1>10
     DEF Next, MainStep, UpdateStep

LEMMA TurnsInvariant == ~Overlap => (Spec => [](TypeInv /\ TurnsInv))
<1> SUFFICES ASSUME ~Overlap PROVE Spec => [](TypeInv /\ TurnsInv)
  OBVIOUS
<1>1. Init => TypeInv /\ TurnsInv
  BY TypeInit, TurnsInit
<1>2. TypeInv /\ TurnsInv /\ [Next]_vars => (TypeInv /\ TurnsInv)'
  BY TypeStep, TurnsStep
<1> QED
  BY <1>1, <1>2, PTL DEF Spec

\* When the threads take turns, every item is drawn when no fetch is under way.
THEOREM MapDrawn == ~Overlap => (Spec => []QuietMeansDrawn)
<1>1. TypeInv /\ TurnsInv => QuietMeansDrawn
  BY DEF TurnsInv, RedrawsHappen, QuietMeansDrawn, Quiet
<1> QED
  BY <1>1, TurnsInvariant, PTL

-----------------------------------------------------------------------------
(* MarkerMap implements MapContract.                                       *)

\* What a fetch goes through and announces has a row.
HasRows == \A t \in Threads : left[t] \subseteq stored /\ fresh[t] \subseteq stored

LEMMA HasRowsStep == TypeInv /\ HasRows /\ [Next]_vars => HasRows'
<1> SUFFICES ASSUME TypeInv, HasRows, [Next]_vars PROVE HasRows'
  OBVIOUS
<1> USE DEF TypeInv, TypeOK, HasRows
<1>1. ASSUME UNCHANGED <<left, fresh, stored>> PROVE HasRows'
  BY <1>1
<1>2. CASE ReadNear \/ ReadAll
  BY <1>2 DEF ReadNear, ReadAll, modelVars
<1>3. ASSUME NEW t \in Threads, FetchStep(t) PROVE HasRows'
  <2>1. CASE CheckModel(t)
    BY <2>1 DEF CheckModel, modelVars
  <2>2. CASE AddItems(t)
    BY <2>2 DEF AddItems, modelVars
  <2>3. CASE ~CheckModel(t) /\ ~AddItems(t)
    BY <1>1, <1>3, <2>3 DEF FetchStep, PickType, NoTypeLeft, PutModel, CopyModels,
       PostModels, Redraw, modelVars, fetchVars
  <2> QED
    BY <2>1, <2>2, <2>3
<1>4. ASSUME NEW s \in Stations, WriteRow(s) PROVE HasRows'
  BY <1>4 DEF WriteRow, fetchVars
<1>5. CASE \/ \E p \in Places : CameraMove(p)
           \/ ViewDidAppear \/ ZoomChange \/ (\E y \in Types : ClusterLate(y))
           \/ CameraTest \/ BeginUpdate \/ EndUpdate \/ DeafTail
           \/ UNCHANGED vars
  BY <1>1, <1>5 DEF CameraMove, ViewDidAppear, ZoomChange, ClusterLate, CameraTest, BeginUpdate,
     EndUpdate, DeafTail, vars, modelVars, fetchVars
<1> QED
  BY <1>2, <1>3, <1>4, <1>5 DEF Next, MainStep, UpdateStep

\* Everything that holds when the threads take turns.
MapInv == TypeInv /\ MarkedInv /\ RaceInv /\ TurnsInv /\ HasRows

LEMMA MapInvariant == ~Overlap => (Spec => []MapInv)
<1> SUFFICES ASSUME ~Overlap PROVE Spec => []MapInv
  OBVIOUS
<1>1. Init => MapInv
  BY TypeInit, MarkedInit, RaceInit, TurnsInit DEF Init, HasRows, MapInv
<1>2. MapInv /\ [Next]_vars => MapInv'
  BY TypeStep, MarkedStep, RaceStep, TurnsStep, HasRowsStep DEF MapInv
<1> QED
  BY <1>1, <1>2, PTL DEF Spec

MarkedSet == {s \in Stations : items[s] > 0}
DrawnSet  == {s \in Stations : drawn[s] > 0}
Settled   == Quiet /\ ~isUpdating

\* When all is quiet nothing is left to do.
QuietInv == Settled => stored \subseteq MarkedSet /\ DrawnSet = MarkedSet

LEMMA SettledIsUpToDate == MapInv => QuietInv
BY DEF QuietInv, MapInv, TypeInv, TypeOK, InHand, MarkedInv, Marked, Announced, TurnsInv,
       RedrawsHappen, Settled, Quiet, MarkedSet, DrawnSet

\* A step that marks and draws nothing is a step of the contract: it begins
\* something, ends the last thing that was under way, or is none of its business.
LEMMA NothingDrawn ==
    ASSUME QuietInv', UNCHANGED <<stored, items, drawn>>
    PROVE  [Contract!Next]_(Contract!contractVars)
<1>1. UNCHANGED <<stored, MarkedSet, DrawnSet>>
  BY DEF MarkedSet, DrawnSet
<1>2. CASE Settled' = Settled
  BY <1>1, <1>2 DEF Contract!contractVars, Settled, MarkedSet, DrawnSet
<1>3. CASE ~Settled'
  BY <1>1, <1>2, <1>3 DEF Contract!Next, Contract!Stir, Settled, MarkedSet, DrawnSet
<1>4. CASE Settled'
  <2>1. stored' \subseteq MarkedSet' /\ DrawnSet' = MarkedSet'
    BY <1>4 DEF QuietInv
  <2> QED
    BY <1>1, <1>4, <2>1
    DEF Contract!Next, Contract!Settle, Contract!UpToDate, Settled, MarkedSet, DrawnSet
<1> QED
  BY <1>3, <1>4

LEMMA MapContractStep ==
    ASSUME MapInv, QuietInv', ~Overlap, [Next]_vars
    PROVE  [Contract!Next]_(Contract!contractVars)
<1> USE DEF Contract!Next, Contract!contractVars
<1>1. ASSUME NEW y \in Types, ClusterLate(y) PROVE Contract!Draw
  <2>1. UNCHANGED <<stored, items, isUpdating, pc>>
    BY <1>1 DEF ClusterLate, modelVars
  <2> DEFINE more == {s \in MarkedSet : TypeOf[s] = y}
  <2>2. DrawnSet' = DrawnSet \cup more
    BY <1>1 DEF ClusterLate, MapInv, MarkedInv, DrawnSet, MarkedSet
  <2>3. more \in SUBSET MarkedSet
    OBVIOUS
  <2> HIDE DEF more
  <2> QED
    BY <2>1, <2>2, <2>3 DEF Contract!Draw, DrawnSet, MarkedSet, Settled, Quiet
<1>2. ASSUME NEW t \in Threads, Redraw(t) PROVE Contract!Draw
  <2>1. drawn' = items /\ UNCHANGED <<stored, items>>
    BY <1>2 DEF Redraw, coordinationCheckOut, MapInv, TypeInv, TypeOK, TurnsInv,
       RedrawsHappen, OneFetch, Resting, modelVars
  <2>2. ~Settled
    BY <1>2 DEF Redraw, Settled, Quiet
  <2>3. Settled' => stored \subseteq MarkedSet
    BY <2>1 DEF QuietInv, MarkedSet
  <2>4. DrawnSet' = MarkedSet /\ DrawnSet \subseteq MarkedSet
    BY <2>1 DEF MapInv, MarkedInv, DrawnSet, MarkedSet
  <2>5. UNCHANGED <<stored, MarkedSet>>
    BY <2>1 DEF MarkedSet
  <2>6. DrawnSet' = DrawnSet \cup MarkedSet /\ DrawnSet' = MarkedSet'
    BY <2>4, <2>5
  <2> QED
    BY <2>2, <2>3, <2>5, <2>6 DEF Contract!Draw, Settled, MarkedSet, DrawnSet
<1>3. ASSUME NEW t \in Threads, AddItems(t) PROVE Contract!Mark
  <2> PICK n \in fresh[t] :
        items' = [s \in Stations |->
            IF s \in FreshOf(t, TypeOf[n]) /\ items[s] < MaxItems
            THEN items[s] + 1 ELSE items[s]]
    BY <1>3 DEF AddItems
  <2> DEFINE new == FreshOf(t, TypeOf[n])
  <2>1. new \subseteq stored \ MarkedSet /\ new # {} /\ new \subseteq Stations
    BY DEF MapInv, TypeInv, TypeOK, HasRows, TurnsInv, RaceInv, InTurn, AnnouncedOnce,
       FreshOf, MarkedSet
  <2>2. MarkedSet' = MarkedSet \cup new
    BY <2>1, MapAssumption DEF MapInv, TypeInv, TypeOK, TurnsInv, RaceInv, InTurn,
       AnnouncedOnce, MarkedSet
  <2>3. ~Settled /\ ~Settled'
    BY <1>3 DEF AddItems, MapInv, TypeInv, TypeOK, Settled, Quiet
  <2>4. UNCHANGED <<stored, drawn>>
    BY <1>3 DEF AddItems, modelVars
  <2> HIDE DEF new
  <2> QED
    BY <2>1, <2>2, <2>3, <2>4 DEF Contract!Mark, Settled, MarkedSet, Quiet
<1>4. ASSUME NEW s \in Stations, WriteRow(s) PROVE Contract!Store
  <2>1. isUpdating /\ isUpdating' = isUpdating
    BY <1>4 DEF WriteRow, MapInv, TypeInv, InHand
  <2> QED
    BY <1>4, <2>1 DEF WriteRow, Contract!Store, mapVars, Quiet
<1>5. CASE UNCHANGED <<stored, items, drawn>>
  BY <1>5, NothingDrawn
<1>6. ASSUME NEW t \in Threads, FetchStep(t), ~Redraw(t), ~AddItems(t)
      PROVE  UNCHANGED <<stored, items, drawn>>
  BY <1>6 DEF FetchStep, PickType, NoTypeLeft, CheckModel, PutModel, CopyModels, PostModels,
     modelVars, mapVars
<1>7. CASE \/ \E p \in Places : CameraMove(p)
           \/ ViewDidAppear \/ ZoomChange \/ CameraTest \/ ReadNear \/ ReadAll
           \/ BeginUpdate \/ EndUpdate \/ DeafTail \/ UNCHANGED vars
  BY <1>5, <1>7 DEF CameraMove, ViewDidAppear, ZoomChange, CameraTest, ReadNear, ReadAll,
     BeginUpdate, EndUpdate, DeafTail, vars, modelVars, mapVars
<1> QED
  BY <1>1, <1>2, <1>3, <1>4, <1>5, <1>6, <1>7 DEF Next, MainStep, UpdateStep, Threads

\* When the threads take turns, each step of theirs is a step of MapContract or
\* none: no marker without a row, none twice, none taken away, and whenever all is
\* quiet every row is marked and drawn.
THEOREM MapKeepsContract == ~Overlap => (Spec => KeepsMapContract)
<1> SUFFICES ASSUME ~Overlap PROVE Spec => KeepsMapContract
  OBVIOUS
<1>1. Init => Contract!Init
  BY DEF Init, Contract!Init, Quiet
<1>2. MapInv /\ QuietInv' /\ [Next]_vars => [Contract!Next]_(Contract!contractVars)
  BY MapContractStep
<1> QED
  BY <1>1, <1>2, MapInvariant, SettledIsUpToDate, PTL DEF Spec, KeepsMapContract, Contract!Spec

\* What is drawn is marked and what is marked has a row, at any time; when all is
\* quiet the three are one.  This follows from the contract alone.
THEOREM ContractMapIsTrue == Contract!Spec => []Contract!MapIsTrue
<1>1. Contract!Init => Contract!MapIsTrue
  BY DEF Contract!Init, Contract!MapIsTrue
<1>2. Contract!MapIsTrue /\ [Contract!Next]_(Contract!contractVars) => Contract!MapIsTrue'
  BY DEF Contract!MapIsTrue, Contract!Next, Contract!Stir, Contract!Store, Contract!Mark,
     Contract!Draw, Contract!Settle, Contract!UpToDate, Contract!contractVars
<1> QED
  BY <1>1, <1>2, PTL DEF Contract!Spec

\* No marker goes away, and a redraw loses none.  This too follows from the contract.
THEOREM ContractMarkersStay == Contract!Spec => Contract!MarkersStay
<1>1. Contract!MapIsTrue /\ [Contract!Next]_(Contract!contractVars) =>
        [ /\ MarkedSet \subseteq MarkedSet'
          /\ DrawnSet \subseteq DrawnSet']_(Contract!contractVars)
  BY DEF Contract!MapIsTrue, Contract!Next, Contract!Stir, Contract!Store, Contract!Mark,
     Contract!Draw, Contract!Settle, Contract!UpToDate, Contract!contractVars, MarkedSet, DrawnSet
<1> QED
  BY <1>1, ContractMapIsTrue, PTL DEF Contract!Spec, Contract!MarkersStay, MarkedSet, DrawnSet
=============================================================================
