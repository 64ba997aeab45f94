# Verification of BikeSmart

BikeSmart shows the stations of Taiwan's bike-share systems on a map.  Three
programs in the repository work together:

    feeds --> crawler (BikeSmart_Python) --> MySQL --> index.php (BikeSmart_PHP)
          --> app (BikeSmart, Objective-C): Realm file --> models --> map

This directory holds TLA+ models of their logic, TLC configurations that check
the models on small instances, and proofs checked by TLAPS.

## 1. Inventory

Paths below are relative to `src/BikeSmart/BikeSmart` (the app) unless they name
another top directory.

| part | state | operations | talks to |
|---|---|---|---|
| `Others/Singleton/BikeModelManager.m` | `isUpdating`, `updateTimer`, `modelDictionary`, `FavoriteModels`, seven per-system dictionaries | timer tick, handler of a reply, fetch for a camera position, merging rows into models, favourite toggle | ServerConnector (call + callback on a delegate queue), RealmUtil (calls + progress block), map (notifications) |
| `Others/Factory/RealmUtil.m` | four static counters; the Realm file | record a reply row by row, each in a transaction; read all rows or those near a position; write one model back on a background queue | Realm (write lock shared by all threads) |
| `Others/Singleton/ServerConnector.m` | none (one URL session per request) | POST the selected types, hand over JSON or an error | `index.php` |
| `Models/BikeMarkers/BikeModel.m` | one station: a dictionary and fields copied from it, `isFavorite` | constructor, key, toggle | |
| `Models/UserDefaults.m`, `AppDelegate.m` | NSUserDefaults, Realm file | defaults at launch, removal of the Realm file, selected types, timer interval | |
| `Controllers/Map/MapVC.m` | camera, markers, clusters, icon caches, timer of camera moves | camera moves, location updates, notifications, drawing | BikeModelManager, Google Maps |
| `../Pods/Google-Maps-iOS-Utils/src/Clustering/GMUClusterManager.m` | items, camera of the last drawing, number of the last request | add items, cluster, request a clustering when the zoom has changed | main queue (delayed blocks), renderer |
| `Controllers/.../LocationSearchTVC.m` | list of matching places | query, answer, selection | MapKit search |
| `TravelPlannerManager.m` | ordered stops | add, clear, swap | |
| `MainVC.m`, `LaunchVC.m`, `SBGrandMasterVC.m`, `SBNavigationController.m`, `MenuVC.m` | which controller is shown, menu open or closed | launch animation, menu, navigation, title animation | |
| `BikeSmart_PHP/index.php`, `data.php` | none | one `SELECT *` per requested type | MySQL |
| `BikeSmart_Python` | MySQL tables, one per system | create tables, then four groups of feeds in sequence; check, insert or update each station | feeds, MySQL |

What is hard about them:

* **Threads.** A request has a URL session, hence a serial delegate queue, of its
  own.  The handlers of two replies run on two threads; both count in the same
  static ints, raise and lower the same `isUpdating`, and fill the same
  dictionaries.  The main thread checks `isUpdating` and reads afterwards.
* **Callbacks in a transaction.** The progress block runs before the commit of
  the row that triggers it.
* **Failure.** Errors, failure replies, empty tables, rows without type, dates
  the formatter cannot read, a process that ends anywhere, a crawler that stops
  at its first exception.
* **Order.** `allKeys`, `SELECT *` and Python's dictionaries have none.

What makes them correct, part by part:

* refresh: `isUpdating` is up while rows are being written; it comes down once,
  after the last row of the last table; the fetch that follows shows the reply;
  no row gets lost; every request ends;
* favourites: the button agrees with its model, and old counts that a write-back
  puts back do not stay (that a toggle is kept is promised nowhere, and is not so);
* crawler: a run that gets to its end has stored what it read, less the stations that
  a table in the code does not list, and translated it, whatever other runs do and
  wherever they stop; no row loses its type; without overlap none gets older;
* endpoint: a success has exactly the tables asked for; a request is not answered
  with less than what the app had been told before it asked;
* map: every station with a row gets a marker, which is drawn; unless two threads go
  through their data at once it is the only one, and its model is at hand when its
  cluster is drawn.

## 2. The modules

| module | what it is | uses |
|---|---|---|
| `BikeRefresh`, `BikeRefreshInv` | the refresh, its threads and failures; the invariant behind it | |
| `RefreshContract` | what a refresh promises, without threads, counters and transactions | |
| `BikeRefreshContract` | the refinement mappings: `BikeRefresh` without overlap implements `RefreshContract` and `RowFeed` | all three |
| `Crawler`, `CrawlerInv` | runs of `DBCreator.py`: groups, feeds, pages, check then write | |
| `QueryServer`, `QueryServerInv` | `index.php` beside the crawler | EXTENDS `Crawler` |
| `FavoriteStations` | the favourite button, its write-backs, refreshes and fetches | |
| `RowFeed` | a refresh as the map sees it: rows, and two kinds of end | |
| `MarkerMap` | fetches of two threads, announcement of new stations, items, clusters, zoom | INSTANCE of `RowFeed` |
| `MapContract` | what the map promises, without fetches, models and cameras | |
| `MarkerMapContract` | the refinement mapping: `MarkerMap` without overlap implements `MapContract` | both |
| `MC*` | the instances that TLC checks | |
| `*_proofs` | the theorems | TLAPS |

The parts are composed where they share state: crawler and endpoint share the
tables (`QueryServer`), and handlers, Realm and the camera share flag, counters and
rows (`BikeRefresh`).  Elsewhere a module has the neighbour as an environment and
says so: the answers of the server are a constant of `BikeRefresh`, and the detail
of a refresh is one action per row in `FavoriteStations` and `MarkerMap`.  What the
one proves is what the other assumes.  The updates of `MarkerMap` are not written
there: they are the actions of `RowFeed`, of which `BikeRefresh` without overlap is
proved to be an implementation (`FeedsMap`), so that what holds of the map holds
behind the real handlers.  `MarkerMap` makes no favourites because
`FavoriteStations` proves that there are none; `BikeRefresh` lets replies have empty
tables and rows without a type because `QueryServer` serves them, and a failure
reply for the app's default selection because `ServedMeansCrawled` says that a
selection with `UBike_TP` is never served.

## 3. How the modules correspond to the code

### BikeRefresh

One request is one element of `Requests`, one firing of the timer.  `pc[r]` is the
place of its completion handler, which runs on the delegate queue of the session
that `ServerConnector` creates for the request.  A row is the version of the
server's data it came from; coordinates, names and counts are left out.

| state | in the code |
|---|---|
| `totalDownloadData`, `downloadDataCounter`, `totalDownloadQuery`, `downloadQueryCounter` | the static ints of the same names, `RealmUtil.m:28-31`; loading and storing a `+= 1` are two steps (`reg`) |
| `keysLeft`, `rowsLeft`, `type`, `row` | the loops of `updateBikeRealmsWithDictionary:updateHandler:` |
| `lock`, `stored` | Realm's write transaction and the committed rows |
| `isUpdating` | the property of `BikeModelManager`; `updater` is history |
| `shown` | the models given to the map |
| `camera`, `area`, `snap` | the main thread in `fetchDataWithCoordinate:` |
| `alive` | the process |

The actions follow the code's order: `AcceptReply` (any JSON counts as success),
`SetTotal`, `ZeroData`, then per table `NextKey`, `StoreKey`, `ZeroQuery`, and per
row `NextRow`, `LoadRow`, `StoreRow`, `BeginWrite`, `ReadIsLastOne`, `Progress` or
`NoProgress`, `FetchAll`, `Commit`.  The progress block runs before `Commit`, as
in `writeBikeRealm:`.  `Die` may happen anywhere; `Launch` deletes the Realm file.

Choices made: the unsynchronised use of the model dictionary by a handler and the
main thread is a data race; `Renewed` then allows each entry to be lost, and that
the process may end is covered by `Die`.  A camera fetch reads one Realm version.
A date that cannot be parsed, and the reply of a failed query, end the process
where the code raises (`CrashOnRow`, `CrashOnFailure`).  The flag `isUpdating` is
read and written in single steps.  The bodies a server may answer with are a
constant; `Overlap = FALSE` says that a handler ends before the timer fires again,
which the interval makes usual and nothing enforces.

### Crawler

A run of `DBCreator.py` is an element of `Runs`.  `created` and `db` are MySQL;
`group`, `feedsLeft`, `feed`, `pass`, `ver`, `left`, `station` and `known` are the
loop variables of the decoders and the answer of `checkData`; a run that ends forgets
them (`Forget`).  `owner` and `pages` are history.  A row is reduced to the version of
the Chinese page it came from (0: the `type` column is NULL) and to whether the
English columns have a text.

The pages of two web sites (EBike, KBike) give no station numbers; they are looked up
by name in tables in the code (`WebSite_Decoder.py:965`, `:1059`), and a name that is
not there is passed over.  `Listed` is what these tables have, `ToRecordOf` what is
left of a page; the run goes on and ends as if it had stored everything, which is why
`DoneMeansStored` says *exactly the listed ones* of what a page lists.

`Check` and `Insert` or `Update` are two steps since `checkData` and `doThis` each
open a connection of their own.  `Collide` is the duplicate key that MySQL reports
when another run inserted in between.  `Fail` is every exception: the code catches
none, except for table creation, whose errors are printed (`CreateTables` may
leave tables out).  A MySQL that refuses the English-only INSERT for its missing
NOT NULL columns is a case of `Fail`; one that does not inserts the row without a
type.  `Overlap` is an assumption on how runs are started; no file of the
repository says.

### QueryServer

Each request is served by a script of its own (`Scripts`), beside those of others and
beside the crawler: `Ask`, `Select` (one statement per type), `Respond`, and
`SelectFails`: PDO returns FALSE, the failure is printed, and `fetchAll` on FALSE ends
the script, so the remaining types are never asked for.  A table is told as the
version of each of its rows.  Two variables are history: `latest`, what the app has
last been told of each table, and `seen`, what it had been told when it asked.  A
database that cannot be reached ends the script in `data.php` with a text that is no
JSON; this outcome is the error reply of `BikeRefresh`, not repeated here.

### RefreshContract and BikeRefreshContract

The contract is written for those who read the rows: `Begin` takes up a reply whose
rows are no older than those they replace, `Write` stores one of them and needs
`busy`, `Release` needs that none is left, `Crash` and `Launch` may come at any time.
It is translated from `BikeModelManager.m:78-94` and `RealmUtil.m:441-454`, less
everything that `BikeRefresh` has in detail.  The mapping: `busy` is `isUpdating`,
`pending` the rows of the updater's reply that no transaction has yet
(`PendingRows`), and `data` what a reader inside the open transaction sees
(`Visible`), so that a row counts as written at `BeginWrite` and not at `Commit`.

`RowFeed` says less of a refresh, and of another side of it: the stations that have a
row (`rows`), `isUpdating` (`busy`), and whether an update is at work that may still
store rows (`writing`).  `Begin` is the acceptance of a reply, `Write` the first row
of a station, `End` the progress block, and `EndDeaf` the end of a reply whose last
row had no type.  For `BikeRefresh` the mapping is `StoredKeys`, `isUpdating` and
`MayWrite` (the updater is between its first statement and its last, with the flag
up); a row that replaces one is a stutter.  A crash is a stutter as well: the map dies
with the process, and `MarkerMap` is about one launch.

### FavoriteStations

The cell of the station list holds a BikeModel, an object that is also in one of the
manager's dictionaries until a fetch replaces it there: `cell.current` says whether
it still is, and a tap then shows in the dictionary too (`SameObject`).  `Tap` is
`triggerFavoriteButton` with `changeFavoriteBikeModel`: it flips `isFavorite` of the
object and hands Realm the dictionary the object was once made from
(`BikeModelParser`), on a new queue per tap (`jobs`).  `WriteBack` may take them in
any order and asks the main queue for a redraw; `ChangeFavoriteButton` draws what
the cell's model says then.  `WriteRow` makes the stored object new, so that its
`isFavorite` is the default; `Renew` is `renewGeneralModels`.  A row is its version
and its `isFavorite`; a model remembers the `isFavorite` it was made with (`saved`).

Since the toggle is not in the dictionary handed over, no tap is ever stored
(`TapNeverStored`), `_FavoriteModels` stays empty, and the branches that move models
to and from it (`BikeModelManager.m:186-199`) are never taken.  No comment or test
promises otherwise, so this is a property and not a finding.  No controller of the
app shows the cell yet.

### MarkerMap

Two threads (`pc`) fetch: the main thread when the camera has moved far, near the
camera; the thread of an update when it ends, everything.  A fetch goes through its
rows type by type (`PickType`, `CheckModel`, `PutModel`; looking for a model and
keeping a new one are two steps), posts a copy of all models after each type
(`CopyModels`, `PostModels`) and announces the new stations at the end.  The observer
runs on the posting thread: `AddItems` gives the new items of a type to its cluster
manager, `Redraw` is `redrawAllCluster`.  That one returns at once when the camera is
far from where it was last fetched; the comment at `MapVC.m:554` says the opposite,
and the mutant `RedrawWhenFar` is the code that comment describes.  Coordinates are
integers on a line.

The cluster managers observe the camera.  `ZoomChange` is
`observeValueForKeyPath:` of some managers that drew at another zoom: each requests a
clustering in 0.2 seconds on the main queue, and a newer request takes the place of
one that waits (`requested`).  `ClusterLate` is that block: one manager draws its own
items.  It runs whenever the main thread is idle, also between any two steps of an
update's fetch.  The zoom itself is not kept.

`Overlap = FALSE` has the threads take turns at fetching; nothing in the code does.
With `TRUE` any steps interleave, and a model that is put while the other thread uses
the dictionary may be lost.  The history variable `raced` is raised when a thread
enters `filteredData:` (`PickType`) while the other one is in it (`Filtering`).
Updates
follow one another in either case: that is what `FeedsMap` needs, and handlers that
overlap do not behave like `RowFeed` (`RefreshOverlapGuard` shows rows written while
the flag is down).

### MapContract and MarkerMapContract

The contract knows of stations that have a row, that are marked and that are drawn,
and of whether anything is under way (`settled`).  `Stir` begins something, `Store`
gives a station its row, `Mark` gives markers to some stations that have a row and no
marker, `Draw` draws some of what is marked (a manager whose zoom changed, or all), and `Settle` ends what was under way, which it
may only when every row is marked and drawn.  The mapping: a station is marked when a
cluster manager has an item of it, drawn when the clusters last drawn have, and all
is settled when no thread fetches and the flag is down.  The contract says nothing
about how a fetch turned away by the flag, or one that sees only the neighbourhood,
is made up for: that is what the refinement shows of `MarkerMap`.

## 4. What is checked

Each run is small enough for TLC to explore completely.

| run | bounds | shows |
|---|---|---|
| `RefreshSerial` | two refreshes in sequence, two tables, two stations, two versions; replies that are full, have an empty table, an untyped row or an unreadable date; fair threads; 98 k states | `SerialInv`; the refinement of `RefreshContract`, its fairness included, and of `RowFeed`; the flag covers pending rows; once it is down everything is stored; it is stuck exactly after an empty or untyped tail, and a good reply, once its rows are about to be written, lowers it itself; a reply that cannot be read ends the process, and no handler gets to its end over one |
| `RefreshCamera` | the same with one table and a moving camera; 69 k states | `TypeOK`; the fetch that ends an update shows it, its uncommitted row included; what is shown is stored, and as new there |
| `RefreshOverlap` | two refreshes in flight, full replies; fair threads; 242 k states | no row of an applied reply is lost; every request ends, and each step of its handler brings it nearer to that |
| `RefreshOverlapGuard` | two in flight | violation: the flag is lowered while rows are pending |
| `RefreshCameraRace` | one refresh and the camera | violation: a fetch that passed the check reads while a handler writes |
| `CrawlOverlap` | two runs at once, a bilingual feed and one whose table in the code lists one of two stations, pages that change, two versions; 1.32 M states | an update hits its row; runs that end have stored exactly what the table lists, and translated; the one origin of rows without type; no row loses its type |
| `ServeSerial` | two scripts of `index.php` at once beside two crawls in sequence over two groups, a plain and a bilingual feed, one station, two versions; each asks for two tables or for a type that is never crawled; 1.27 M states | what a success is made of; untyped rows that are served; replies are past; none is composed of less than the app knew when it asked; rows never get older |
| `FavoriteSafe` | two stations, two versions, two taps; fair queues; 287 k states | no tap is stored; the button settles; old counts do not stay |
| `MapTurns` | three stations of two types at three places, three moves, zoom at any time, threads that take turns, fair; 316 k states | what was announced is drawn; every row gets on the map; the refinement of `MapContract` |
| `MapOverlap` | two stations, two moves, zoom at any time, fetches that overlap; 2.6 M states | when no fetch is under way every row has an item; one item, and its model in the map's copy, unless both threads were in `filteredData:` at once |
| `MapUndrawn` | as `MapOverlap` | violation: a redraw is given up and never made up for |
| `MapThread` | two stations, threads that take turns | violation: the thread of an update draws on the map |

Why the bounds are enough: two requests (runs, threads, taps) are what it takes to
interfere or to follow one another; two tables and two stations make "last row of
the last table" different from "last row" and from "last table"; two versions make
"old" and "new" different.  Where two dimensions together were too many states, one
was given up: `RefreshOverlap` has full replies in one table only, `ServeSerial` one
station, `MapOverlap` two stations.  The proofs below remove these bounds for every
invariant and most action properties.

The four violations are the findings:

* the comment at `BikeModelManager.m:106`, "return if data is being changed", does
  not hold with two replies in flight (the flag is one for all of them), nor with
  one (it is checked before and not during the read);
* the notification of `BikeModelManager.m:159` is "mainly for map to display new
  Markers", but a redraw that comes while the camera is on its way is given up, and
  the stations, known from then on, are never announced again: they stay off the map
  until the user zooms;
* `GMSMapView.h:252` has the map used from the main thread only; the thread of an
  update clusters and renders.

For every property of a passing run there is a mutant: a faulty form of one
definition (its comment says so), with which TLC finds the property violated.

`CHECK_DEADLOCK FALSE` is set where a finite number of runs ends (`CrawlOverlap`).
Elsewhere some action is always possible: `Die` or `Launch` in the app, `Ask` at the
server, `BeginUpdate`, `DeafTail` or `ZoomChange` on the map.

## 5. Fairness

`FairSpec` of `BikeRefresh`: weak fairness of `Answer` (the URL loading system
answers every request; a timeout is an error and an answer) and of `Handler` (a
delegate queue runs its block; Realm grants the write lock, and each transaction
ends).  Nothing makes the timer fire, the camera move, the process live or the
user launch the app again.  Weak fairness is enough for the lock in the runs that
claim liveness: every transaction ends, and a finite number of them compete.

`FairSpec` of `RefreshContract`: a refresh once begun goes on writing; that it is
ever said to have ended is not promised, because it need not be (`DeafTail`).

`FairSpec` of `FavoriteStations`: the timer repeats and the server answers (`Reply`),
the handler writes its rows, a write-back ends one way or the other, the main queue
redraws.  Nothing makes the user tap or a fetch happen.

`FairSpec` of `MarkerMap`: both threads run on, the timer repeats (`BeginUpdate`),
and `EndUpdate` is strongly fair: not every update from some time on ends in an
untyped row or an empty table.  This is an assumption on the server's data, and
`EveryRowAppears` is false without it, as the refresh would then be stuck for good
(`StuckExactlyOnDeafTail`).  It is claimed only where the threads take turns.

No liveness is claimed of the crawler: `requests.get` and `urlopen` are called
without a timeout (`Fetcher.py:59-63`), so a feed that never answers holds a run
for good.  None is claimed of `index.php`, which serves requests of others.

## 6. What is proved

TLAPS proves, for all values of the constants that satisfy the ASSUMEs (finite
nonempty sets of tables and stations where they are counted, `None` outside of the
sets it completes, and bounds that are naturals), every invariant and action
property of the passing runs.  What is said of handlers, runs or threads that follow
one another is proved under `~Overlap`.

The inductive invariants were found with TLC, as invariants of these runs; `SerialInv`
still is one, and of the others the runs keep what follows from them.

* `BikeRefresh_proofs`: `TypeCorrect` and `RowsKept`, for overlapping requests too.
  That no row gets lost needs `OverlapInv`: on its way a typed row of a reply is
  either pending or visible in the version of some reply that has it (`KeptInv`).
  Only `BeginWrite` changes what is visible, and there the row is one of a reply;
  the write lock has one owner; a loop that is through has left nothing (`RestInv`).
  `UnreadableStops` says that a handler that got to its end had neither a failure nor
  an unreadable date: a row of that kind stays ahead of the loops until `CrashOnRow`
  (`UnreadInv`), since `StoreRow` has no case for it.  `HandlersAdvance` is the part of
  `EveryRequestEnds` that needs no fairness: each step of a handler lowers `Work`, the
  rows it has still to visit weighed against its place in the loop, and no step of
  another handler raises it.
* `BikeRefreshSerial_proofs`: `SerialInvariant`, and from it `SerialReleased`,
  `SerialGuard`, `SerialCompletion` and `SerialStuck`.  "The flag is down, so all is
  stored" is not inductive: the flag comes down because four counters say so, and
  `SerialInv` therefore says at each label what the counters stand for (`Visited`
  tables, `Seen` rows), that only one handler is active, that the open transaction is
  its own, and that what is not pending is stored.  With overlap the argument fails
  where the code does: at the counters.  `SerialStuck` needs the converse as well:
  where no row is left, `isLastOne` and the percentage say so (`TailInv`), hence the
  flag stays up only if the progress block was never asked.
* `RefreshContract_proofs`: `ContractPending` and `ContractGrows`, what follows from
  the contract alone.
* `BikeRefreshContract_proofs`: `SerialKeepsContract`, every step of `BikeRefresh`
  without overlap is a step of the contract or a stutter; from `SerialInv` and
  `FreshInv` (everything stored is as old as the reply in hand, or older).
  `SerialStoredOnlyGrows` from the same.  `SerialFeedsMap` shows the other mapping:
  each step is one of `RowFeed` or a stutter.  `ShownStored` holds with overlap too.
  It needs that what a camera fetch has read and what has been committed is visible
  as well (`ShownInv`), and that what is visible stays so, which is where `RefreshInv`
  comes in: the open transaction is that of the one owner of the lock, and without
  overlap its row is no older than the one it replaces (`VisibleGrows`).
* `Crawler_proofs`: `CrawlInvariant` (overlap allowed), and from it `CrawlStored`,
  `CrawlTranslated`, `CrawlUntyped`, `CrawlUpdateHits`, `CrawlTypeNeverLost`.  `CrawlInv` says of a run on
  its way what the properties say of one that has ended, less the stations it still
  has to record (`ToRecord`); it needs that a feed is read once (`Unread`) and that
  the English page comes last (`FeedInHand`).  Without overlap,
  `CrawlSerialInvariant` adds that one run is active and that no row is newer than
  its page, which gives `CrawlVersions`.  Every step is
  reduced to three: reading a page, recording a station, or neither (`ThreeSteps`).
* `QueryServer_proofs`: `ServiceIsCrawler` (the composed specification implements
  the crawler's, by hiding the server), so that the crawler's theorems hold of the
  two together; `ServedCrawled`; `ServedUntyped`, because a page once read is never
  read again (`EnglishOnlyStays`), so that what made a row untyped stays true while
  the reply travels; and without overlapping runs of the crawler, for any number of
  scripts at once, `ServedPast` and `ServedGrows`, from an invariant that orders tables
  (`NotOlder`): what has been selected, what was told last, and what the app knew when
  it asked are all no newer than the table (`PastInv`).
* `FavoriteStations_proofs`: `NothingTappedIsStored`, from `UnsavedInv`: no TRUE is
  anywhere on the way from the store to the dictionaries, the cell, the write-backs
  and back; `FavoriteImageSettles`.
* `MarkerMap_proofs`: `MapMarked`, races included (`MarkedInv`: a station with a model
  has an item or is about to be announced, and a row that is stored has been seen
  to, is being seen to by the thread of the update, or is left to the end of an
  update).  `MapOneMarker` and `MapModelKnown` hold of overlapping fetches too, from
  `RaceInv`: until both threads have been filtering at once, a station is announced by
  one of them, before it has an item, and has a model from then on (`AnnouncedOnce`),
  and a copy about to be posted has all models (`CopyUpToDate`), though the other
  thread announces and draws meanwhile.  When the threads take turns they never filter
  at once, and `MapDrawn` follows from `TurnsInv`: one fetch at a time, and no redraw
  that is given up.  `MapKeepsContract` combines all of them (`MapInv`) with `HasRows`
  (what a fetch goes through and announces has a row):
  a step of `MarkerMap` is one of `MapContract` or none.  `Settle` is the hard one, as
  it may be the step of either thread that happens to be the last, from any place:
  `QuietInv` says of every quiet state that nothing is left to do.  What the contract
  is worth is proved of it alone, in `ContractMapIsTrue` and `ContractMarkersStay`.

Only model-checked: what is promised for the end, with fairness
(`KeepsContractFairly`, `GoodReplyReleasesGuard`, `UnreadableReplyEndsProcess`,
`EveryRequestEnds`, `RowsRecover`, `EveryRowAppears`), since fairness and ENABLED are
beyond the proof system.  Of some of them the part that needs no fairness is proved:
`UnreadableStops` and `HandlersAdvance` (above), `SerialStuck` for
`GoodReplyReleasesGuard`, `MapMarked` and `MapDrawn` for `EveryRowAppears`.

## 7. What is not modelled

* Icons and their caches (`MapVC.m:296`, `:331`), the user's location and its alerts:
  drawing, and no text says when an icon is up to date.
* Selection of types and intervals: nothing changes it after the launch, which resets
  it to the default; the default selection is in `BikeRefresh` and `QueryServer`.
* Place search: each keystroke starts a search and an earlier one may answer last,
  but the list goes nowhere (`locationDelegate` is never set, `MainVC.m:139`).
* Navigation, menu, launch animation: frames and pushes without data of their own.
* Travel planner: a list that nothing uses.  Type names and fill levels: functions of
  one row that decide about colours.
* Layout, cells, animations; `Reachability`; `JSONDecoder.py` (unfinished, unused);
  `token.php` (unused); weather and tutorial screens.
* The Pods.  The C++ and Objective-C headers of Realm and Google Maps make up most of
  the lines of the repository; of these two only the declarations are here, and what
  the app relies on (a write lock, one version per read) is modelled from how the app
  uses it.  The source of Google-Maps-iOS-Utils is here: the requests and drawings of
  its cluster manager are in `MarkerMap`; its clustering algorithm and its renderer,
  which decide where markers are put together, are not.
* The field extraction of the decoders: it decides the text of a row, of which the
  models keep the version and the presence.  (The tables of station numbers, which
  also decide whether a station is kept, are `Listed`.)
* The exceptions and crashes that two threads may cause by changing one dictionary or
  one cluster manager at once, beyond entries that get lost: the process may then end,
  and a launch starts the map from nothing.

No property covers rows that vanish from a feed, English columns that are NULL in
MySQL, or the order of two replies that overlap: the repository promises nothing
about them.
