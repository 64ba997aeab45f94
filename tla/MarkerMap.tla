------------------------------ MODULE MarkerMap ------------------------------
(***************************************************************************)
(* The stations on the map.                                                *)
(*                                                                         *)
(* Two threads fetch rows and make models of them: the main thread when    *)
(* the camera has moved far (near the camera only), and the thread of an   *)
(* update when it ends (all rows).  A fetch goes through the rows type by  *)
(* type (filteredData): a station without a model is announced as new, its *)
(* model is kept, and after each type the map gets a copy of all models.   *)
(* At the end the map is told the new stations: it makes an item of each,  *)
(* gives them to the cluster manager of their type, and has all clusters   *)
(* drawn again unless the camera is far from where it was last fetched.    *)
(* All of it runs on the thread of the fetch.                              *)
(*                                                                         *)
(* A cluster manager watches the camera too: when the zoom is no longer    *)
(* the one it drew at, it draws its own clusters again a little later, on  *)
(* the main thread (GMUClusterManager).                                    *)
(*                                                                         *)
(* Models made of rows are never favourites (FavoriteStations), so that    *)
(* removeItem finds nothing to remove and no item is ever taken away.      *)
(***************************************************************************)
EXTENDS Integers

CONSTANTS
    Stations,
    Types,
    TypeOf,     \* the type of a station
    PlaceOf,    \* where a station is
    Places,     \* coordinates, 0 among them
    Delta,      \* DELTA_LAT, DELTA_LNG
    MaxMoves,   \* bound on the moves of the camera
    MaxItems,   \* bound on the items of a station, where counting stops
    Overlap,    \* may the main thread move and fetch while an update fetches?
    None        \* "no station", "no type"

ASSUME MapAssumption ==
    /\ TypeOf \in [Stations -> Types] /\ PlaceOf \in [Stations -> Places]
    /\ Places \subseteq Int /\ 0 \in Places
    /\ Delta \in Nat /\ MaxMoves \in Nat /\ MaxItems \in Nat \ {0}
    /\ Overlap \in BOOLEAN
    /\ None \notin Stations \cup Types

VARIABLES
    stored,           \* stations with a row in Realm
    isUpdating,
    models,           \* stations in the manager's _modelDictionary
    modelDictionary,  \* stations in the map's copy of it
    items,            \* items of each station in the cluster managers
    drawn,            \* items of each station in the clusters last drawn
    requested,        \* types whose manager has a drawing to do (requestCluster)
    camera, previous, \* _cameraPosition, _previousCameraLocation
    isFirstLoad,
    pc,               \* where each thread is
    left,             \* stations its fetch still has to go through
    kind,             \* the type it is at
    cur,              \* the station it is at
    fresh,            \* stations it will announce
    copy,             \* the models it is about to post
    moves,            \* number of moves
    raced             \* history: have the two threads been filtering at once?

modelVars  == <<stored, models, modelDictionary>>
mapVars    == <<items, drawn, requested>>
cameraVars == <<camera, previous, isFirstLoad, moves>>
fetchVars  == <<left, kind, cur, fresh, copy, raced>>
vars == <<isUpdating, modelVars, mapVars, cameraVars, pc, fetchVars>>

Threads == {"main", "update"}

\* The steps of a fetch, in their order.
Fetching == {"read", "pick", "check", "put", "copy", "post", "display", "redraw"}

Far(a, b) == a - b > Delta \/ b - a > Delta

coordinationCheckOut == Far(camera, previous)

Init ==
    /\ stored = {} /\ models = {} /\ modelDictionary = {}
    /\ isUpdating = FALSE
    /\ items = [s \in Stations |-> 0] /\ drawn = items /\ requested = {}
    /\ camera = 0 /\ previous = 0 /\ isFirstLoad = TRUE /\ moves = 0
    /\ pc = [t \in Threads |-> "idle"]
    /\ left = [t \in Threads |-> {}] /\ fresh = left /\ copy = left
    /\ kind = [t \in Threads |-> None] /\ cur = kind /\ raced = FALSE

Goto(t, step) == pc' = [pc EXCEPT ![t] = step]

\* Without Overlap the two threads take turns.
MayEnter(t) == Overlap \/ \A u \in Threads \ {t} : pc[u] \in {"idle", "updating"}

-----------------------------------------------------------------------------
(* The main thread: the camera.                                            *)

\* didChangeCameraPosition, up to the test.
CameraMove(p) ==
    /\ pc["main"] = "idle" /\ MayEnter("main")
    /\ moves < MaxMoves
    /\ moves' = moves + 1
    /\ camera' = p
    /\ Goto("main", "moved")
    /\ UNCHANGED <<isUpdating, modelVars, mapVars, previous, isFirstLoad, fetchVars>>

\* fetchDataWithCoordinate: a fetch is turned away while isUpdating is up.
FetchHere == Goto("main", IF isUpdating THEN "idle" ELSE "read")

\* The test (secondCounter keeps its first value, 1.5: no timer is made).
CameraTest ==
    /\ pc["main"] = "moved"
    /\ IF coordinationCheckOut \/ isFirstLoad
       THEN /\ isFirstLoad' = FALSE
            /\ previous' = camera
            /\ FetchHere
       ELSE /\ Goto("main", "idle")
            /\ UNCHANGED <<isFirstLoad, previous>>
    /\ UNCHANGED <<isUpdating, modelVars, mapVars, camera, moves, fetchVars>>

\* viewDidAppear, with the user's location known.
ViewDidAppear ==
    /\ pc["main"] = "idle" /\ MayEnter("main")
    /\ modelDictionary = {}
    /\ ~isUpdating
    /\ FetchHere
    /\ UNCHANGED <<isUpdating, modelVars, mapVars, cameraVars, fetchVars>>

\* getBikeRealmAtLocation.
ReadNear ==
    /\ pc["main"] = "read"
    /\ left' = [left EXCEPT !["main"] = {s \in stored : ~Far(PlaceOf[s], camera)}]
    /\ Goto("main", "pick")
    /\ UNCHANGED <<isUpdating, modelVars, mapVars, cameraVars, kind, cur, fresh, copy, raced>>

-----------------------------------------------------------------------------
(* The thread of an update: its steps are those of RowFeed.                *)

Feed == INSTANCE RowFeed WITH
    Keys <- Stations, rows <- stored, busy <- isUpdating,
    writing <- pc["update"] = "updating"

BeginUpdate ==
    /\ pc["update"] = "idle"
    /\ Goto("update", "updating")
    /\ Feed!Begin
    /\ UNCHANGED <<models, modelDictionary, mapVars, cameraVars, fetchVars>>

WriteRow(s) ==
    /\ UNCHANGED <<models, modelDictionary, mapVars, cameraVars, pc, fetchVars>>
    /\ Feed!Write(s)

\* A faulty EndUpdate: it lowers the flag and leaves the fetch to the camera.
EndUpdateQuiet ==
    /\ MayEnter("update")
    /\ Goto("update", "idle")
    /\ Feed!End
    /\ UNCHANGED <<models, modelDictionary, mapVars, cameraVars, fetchVars>>

\* The last row of the last table lowers the flag and fetches everything.
EndUpdate ==
    /\ MayEnter("update")
    /\ Goto("update", "read")
    /\ Feed!End
    /\ UNCHANGED <<models, modelDictionary, mapVars, cameraVars, fetchVars>>

\* A last row without a type: isUpdating stays up.
DeafTail ==
    /\ Goto("update", "idle")
    /\ Feed!EndDeaf
    /\ UNCHANGED <<models, modelDictionary, mapVars, cameraVars, fetchVars>>

\* getSelectedBikeRealm.
ReadAll ==
    /\ pc["update"] = "read"
    /\ left' = [left EXCEPT !["update"] = stored]
    /\ Goto("update", "pick")
    /\ UNCHANGED <<isUpdating, modelVars, mapVars, cameraVars, kind, cur, fresh, copy, raced>>

-----------------------------------------------------------------------------
(* filterDataAndNotify, on either thread.                                  *)

\* A thread is in filteredData, from its first station to its notification.
Filtering(t) == pc[t] \in {"check", "put", "copy", "post"}

\* The next type of the data.
PickType(t) ==
    /\ pc[t] = "pick"
    /\ \E s \in left[t] : kind' = [kind EXCEPT ![t] = TypeOf[s]]
    /\ raced' = (raced \/ \E u \in Threads \ {t} : Filtering(u))
    /\ Goto(t, "check")
    /\ UNCHANGED <<isUpdating, modelVars, mapVars, cameraVars, left, cur, fresh, copy>>

\* The data is through: new stations are announced, if there are any.
NoTypeLeft(t) ==
    /\ pc[t] = "pick" /\ left[t] = {}
    /\ Goto(t, IF fresh[t] = {} THEN "idle" ELSE "display")
    /\ UNCHANGED <<isUpdating, modelVars, mapVars, cameraVars, fetchVars>>

\* A faulty CheckModel: it announces the station it was at before.
CheckModelStale(t) ==
    /\ pc[t] = "check"
    /\ \E s \in left[t] :
          /\ TypeOf[s] = kind[t]
          /\ cur' = [cur EXCEPT ![t] = s]
          /\ left' = [left EXCEPT ![t] = @ \ {s}]
          /\ fresh' = IF s \in models THEN fresh ELSE [fresh EXCEPT ![t] = @ \cup {cur[t]}]
    /\ Goto(t, "put")
    /\ UNCHANGED <<isUpdating, modelVars, mapVars, cameraVars, kind, copy, raced>>

\* renewGeneralModels: is there a model of the station?
CheckModel(t) ==
    /\ pc[t] = "check"
    /\ \E s \in left[t] :
          /\ TypeOf[s] = kind[t]
          /\ cur' = [cur EXCEPT ![t] = s]
          /\ left' = [left EXCEPT ![t] = @ \ {s}]
          /\ fresh' = IF s \in models THEN fresh ELSE [fresh EXCEPT ![t] = @ \cup {s}]
    /\ Goto(t, "put")
    /\ UNCHANGED <<isUpdating, modelVars, mapVars, cameraVars, kind, copy, raced>>

\* The two threads change one NSMutableDictionary without a lock.
Racing(t) == \E u \in Threads \ {t} : pc[u] \in {"check", "put", "copy"}

\* A faulty PutModel: a new model waits for the next fetch.
PutModelLate(t) ==
    /\ pc[t] = "put"
    /\ models' = IF cur[t] \in fresh[t] THEN models ELSE models \cup {cur[t]}
    /\ Goto(t, IF \E s \in left[t] : TypeOf[s] = kind[t] THEN "check" ELSE "copy")
    /\ UNCHANGED <<isUpdating, stored, modelDictionary, mapVars, cameraVars, fetchVars>>

\* The model of the station is kept.  A racing one may be lost.
PutModel(t) ==
    /\ pc[t] = "put"
    /\ models' = models \cup {cur[t]} \/ (Racing(t) /\ models' = models)
    /\ Goto(t, IF \E s \in left[t] : TypeOf[s] = kind[t] THEN "check" ELSE "copy")
    /\ UNCHANGED <<isUpdating, stored, modelDictionary, mapVars, cameraVars, fetchVars>>

\* filteredData, its end: a copy of all models ...
CopyModels(t) ==
    /\ pc[t] = "copy"
    /\ copy' = [copy EXCEPT ![t] = models]
    /\ Goto(t, "post")
    /\ UNCHANGED <<isUpdating, modelVars, mapVars, cameraVars, left, kind, cur, fresh, raced>>

\* A faulty PostModels: it posts the models that are not new.
PostModelsOld(t) ==
    /\ pc[t] = "post"
    /\ modelDictionary' = copy[t] \ fresh[t]
    /\ Goto(t, "pick")
    /\ UNCHANGED <<isUpdating, stored, models, mapVars, cameraVars, fetchVars>>

\* ... is posted, and takes the place of the map's.
PostModels(t) ==
    /\ pc[t] = "post"
    /\ modelDictionary' = copy[t]
    /\ Goto(t, "pick")
    /\ UNCHANGED <<isUpdating, stored, models, mapVars, cameraVars, fetchVars>>

-----------------------------------------------------------------------------
(* displayBikeMarkersWithBikeModels, on either thread.                     *)

FreshOf(t, y) == {s \in fresh[t] : TypeOf[s] = y}

\* One type: an item for each new model goes to the manager of the type.
AddItems(t) ==
    /\ pc[t] = "display"
    /\ \E n \in fresh[t] :
          LET new == FreshOf(t, TypeOf[n])
          IN  /\ items' = [s \in Stations |->
                     IF s \in new /\ items[s] < MaxItems THEN items[s] + 1 ELSE items[s]]
              /\ fresh' = [fresh EXCEPT ![t] = @ \ new]
    /\ Goto(t, "redraw")
    /\ UNCHANGED <<isUpdating, modelVars, drawn, requested, cameraVars, left, kind, cur, copy, raced>>

AfterRedraw(t) == Goto(t, IF fresh[t] = {} THEN "idle" ELSE "display")

\* The faulty redrawAllCluster: the one its comment describes.
RedrawWhenFar(t) ==
    /\ pc[t] = "redraw"
    /\ drawn' = IF coordinationCheckOut THEN items ELSE drawn
    /\ AfterRedraw(t)
    /\ UNCHANGED <<isUpdating, modelVars, items, requested, cameraVars, fetchVars>>

\* redrawAllCluster.
Redraw(t) ==
    /\ pc[t] = "redraw"
    /\ drawn' = IF coordinationCheckOut THEN drawn ELSE items
    /\ AfterRedraw(t)
    /\ UNCHANGED <<isUpdating, modelVars, items, requested, cameraVars, fetchVars>>

-----------------------------------------------------------------------------
(* The cluster managers, on the main thread.                               *)

\* observeValueForKeyPath and requestCluster: the zoom is another than some managers
\* drew at.  A request takes the place of one that still waits.
ZoomChange ==
    /\ pc["main"] = "idle"
    /\ \E ys \in SUBSET Types \ {{}} : requested' = requested \cup ys
    /\ UNCHANGED <<isUpdating, modelVars, items, drawn, cameraVars, pc, fetchVars>>

\* The last request of a manager comes due: cluster.
ClusterLate(y) ==
    /\ pc["main"] = "idle"
    /\ y \in requested
    /\ requested' = requested \ {y}
    /\ drawn' = [s \in Stations |-> IF TypeOf[s] = y THEN items[s] ELSE drawn[s]]
    /\ UNCHANGED <<isUpdating, modelVars, items, cameraVars, pc, fetchVars>>

-----------------------------------------------------------------------------
FetchStep(t) ==
    \/ PickType(t) \/ NoTypeLeft(t)
    \/ CheckModel(t) \/ PutModel(t) \/ CopyModels(t) \/ PostModels(t)
    \/ AddItems(t) \/ Redraw(t)

MainStep   == CameraTest \/ ReadNear \/ FetchStep("main")
UpdateStep == ReadAll \/ FetchStep("update")

Next ==
    \/ \E p \in Places : CameraMove(p)
    \/ ViewDidAppear
    \/ ZoomChange \/ \E y \in Types : ClusterLate(y)
    \/ MainStep \/ UpdateStep
    \/ BeginUpdate \/ EndUpdate \/ DeafTail
    \/ \E s \in Stations : WriteRow(s)

Spec == Init /\ [][Next]_vars

\* Both threads run on; the timer repeats, and updates do not end deaf for good.
Fairness ==
    /\ WF_vars(MainStep) /\ WF_vars(UpdateStep)
    /\ WF_vars(BeginUpdate) /\ SF_vars(EndUpdate)

FairSpec == Spec /\ Fairness

-----------------------------------------------------------------------------
(* Properties.                                                             *)

\* The state keeps its types.
TypeOK ==
    /\ stored \subseteq Stations /\ models \subseteq Stations
    /\ modelDictionary \subseteq Stations
    /\ isUpdating \in BOOLEAN /\ isFirstLoad \in BOOLEAN
    /\ items \in [Stations -> 0 .. MaxItems] /\ drawn \in [Stations -> 0 .. MaxItems]
    /\ requested \subseteq Types /\ raced \in BOOLEAN
    /\ camera \in Places /\ previous \in Places /\ moves \in 0 .. MaxMoves
    /\ pc \in [Threads -> {"idle", "moved", "updating"} \cup Fetching]
    /\ pc["main"] # "updating" /\ pc["update"] # "moved"
    /\ left \in [Threads -> SUBSET Stations] /\ fresh \in [Threads -> SUBSET Stations]
    /\ copy \in [Threads -> SUBSET Stations]
    /\ kind \in [Threads -> Types \cup {None}] /\ cur \in [Threads -> Stations \cup {None}]

Quiet == \A t \in Threads : pc[t] \in {"idle", "updating"}

\* Two markers of a station for good (removeItem looks for the old one among the
\* favourites only) take two threads that were in filteredData at once: with one at
\* a time, however fetches, announcements, drawings and updates interleave
\* otherwise, a station is announced once.
OneMarkerUnlessRaced == raced \/ \A s \in Stations : items[s] <= 1

\* renderCluster looks an item up in the map's copy of the models, which each
\* thread replaces by its own, and a missing one raises (MapVC.m:328): so long as
\* no two threads were in filteredData at once, the copy has every item that a
\* thread may draw, the ones the other thread announced included.
ModelKnownUnlessRaced ==
    raced \/ \A s \in Stations : items[s] > 0 => s \in modelDictionary

\* "mainly for map to display new Markers" (BikeModelManager.m:159): what was
\* announced is on the map when no fetch is under way.
QuietMeansDrawn == Quiet => drawn = items

\* Fetches that were turned away are made up for: when no fetch is under way and
\* isUpdating is down, every station with a row has an item, wherever the camera
\* is and however the two threads raced.
QuietMeansMarked ==
    Quiet /\ ~isUpdating => \A s \in stored : items[s] > 0

\* A station with a row gets on the map.
EveryRowAppears == \A s \in Stations : s \in stored ~> drawn[s] > 0

\* "can only be read and modified from the main thread" (GMSMapView.h:252): no step
\* of an update's thread draws on the map.
MapOnMainThread ==
    [][drawn' # drawn => pc'["update"] = pc["update"]]_vars
=============================================================================
