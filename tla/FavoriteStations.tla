-------------------------- MODULE FavoriteStations --------------------------
(***************************************************************************)
(* Marking a station as a favourite.                                       *)
(*                                                                         *)
(* The cell of the station list holds a BikeModel, the object that is also *)
(* in one of the manager's dictionaries as long as no later fetch has      *)
(* replaced it there.  A tap flips isFavorite of the object and hands the  *)
(* dictionary it was once built from (bikeModelParser) to Realm, on a new  *)
(* queue for each tap; its completion asks the main queue to redraw the    *)
(* button.  Beside that, refreshes write the rows the server has, without  *)
(* a word of favourites, and fetches read rows, make new models of them    *)
(* and put them into _FavoriteModels or _modelDictionary.                  *)
(*                                                                         *)
(* A row is the version of the counts it shows and its isFavorite.         *)
(***************************************************************************)
EXTENDS Integers

CONSTANTS
    Stations,  \* the stations of one type
    MaxVer,    \* bound on the versions of the server's data
    MaxTaps,   \* bound on the taps of the button
    None       \* "no row", "no model", "nothing read", "no image"

ASSUME BoundsAssumption == MaxVer \in Nat \ {0} /\ MaxTaps \in Nat

Row   == [ver : 1 .. MaxVer, isFavorite : BOOLEAN]
Model == [ver : 1 .. MaxVer, saved : BOOLEAN, isFavorite : BOOLEAN]
Cell  == [station : Stations, model : Model, current : BOOLEAN]

ASSUME NoneAssumption == None \notin Row \cup Model \cup Cell \cup BOOLEAN

VARIABLES
    alive,          \* the process runs
    now,            \* version of the server's data
    fetched, todo,  \* the reply being applied: its version, its rows to write
    stored,         \* the rows in Realm
    read,           \* the rows of a fetch, not yet in the dictionaries
    modelDictionary, FavoriteModels,  \* the manager's models by station
    cell,           \* station and model of the cell; is the model a manager's?
    image,          \* what the cell's button says
    settled,        \* history: has the image been right since the last tap?
    jobs,           \* write-backs on their queues
    redraws,        \* redraws of the button waiting on the main queue
    taps            \* number of taps

refreshVars == <<now, fetched, todo>>
modelVars   == <<modelDictionary, FavoriteModels>>
cellVars    == <<cell, image, settled>>
tapVars     == <<jobs, redraws, taps>>
vars == <<alive, refreshVars, stored, read, modelVars, cellVars, tapVars>>

NoRows == [s \in Stations |-> None]
Job    == [tap : 1 .. MaxTaps, station : Stations, row : Row]

ModelOf(row) ==
    [ver |-> row.ver, saved |-> row.isFavorite, isFavorite |-> row.isFavorite]

Init ==
    /\ alive = TRUE
    /\ now = 1 /\ fetched = 0 /\ todo = {}
    /\ stored = NoRows /\ read = None
    /\ modelDictionary = NoRows /\ FavoriteModels = NoRows
    /\ cell = None /\ image = None /\ settled = TRUE
    /\ jobs = {} /\ redraws = {} /\ taps = 0

-----------------------------------------------------------------------------
(* Refreshes (BikeRefresh has their detail).                               *)

Publish ==
    /\ now < MaxVer
    /\ now' = now + 1
    /\ UNCHANGED <<alive, fetched, todo, stored, read, modelVars, cellVars, tapVars>>

\* The timer fires and the server answers.
Reply ==
    /\ alive
    /\ todo = {}
    /\ fetched' = now
    /\ todo' = Stations
    /\ UNCHANGED <<alive, now, stored, read, modelVars, cellVars, tapVars>>

\* A faulty WriteRow: it adds rows and updates none.
WriteRowAdds(s) ==
    /\ alive
    /\ s \in todo
    /\ todo' = todo \ {s}
    /\ stored' = [stored EXCEPT
           ![s] = IF @ = None THEN [ver |-> fetched, isFavorite |-> FALSE] ELSE @]
    /\ UNCHANGED <<alive, now, fetched, read, modelVars, cellVars, tapVars>>

\* The object for a row is made new: its isFavorite has the default, FALSE.
WriteRow(s) ==
    /\ alive
    /\ s \in todo
    /\ todo' = todo \ {s}
    /\ stored' = [stored EXCEPT ![s] = [ver |-> fetched, isFavorite |-> FALSE]]
    /\ UNCHANGED <<alive, now, fetched, read, modelVars, cellVars, tapVars>>

-----------------------------------------------------------------------------
(* Fetches.                                                                *)

Fetch ==
    /\ alive
    /\ read = None
    /\ read' = stored
    /\ UNCHANGED <<alive, refreshVars, stored, modelVars, cellVars, tapVars>>

\* renewGeneralModels for every row read: a favourite goes to _FavoriteModels
\* and out of _modelDictionary, any other model the other way round.
Renew ==
    /\ alive
    /\ read # None
    /\ read' = None
    /\ FavoriteModels' = [s \in Stations |->
           IF read[s] = None THEN FavoriteModels[s]
           ELSE IF read[s].isFavorite THEN ModelOf(read[s]) ELSE None]
    /\ modelDictionary' = [s \in Stations |->
           IF read[s] = None THEN modelDictionary[s]
           ELSE IF read[s].isFavorite THEN None ELSE ModelOf(read[s])]
    /\ cell' = IF cell # None /\ read[cell.station] # None
               THEN [cell EXCEPT !.current = FALSE] ELSE cell
    /\ UNCHANGED <<alive, refreshVars, stored, image, settled, tapVars>>

-----------------------------------------------------------------------------
(* The cell.                                                               *)

\* setBikeModel: the button's image stays.
SetBikeModel(s) ==
    /\ alive
    /\ \E model \in {modelDictionary[s], FavoriteModels[s]} \ {None} :
          cell' = [station |-> s, model |-> model, current |-> TRUE]
    /\ settled' = FALSE
    /\ UNCHANGED <<alive, refreshVars, stored, read, modelVars, image, tapVars>>

\* A faulty parser: it looks at the object.
BikeModelParserLive(model) == [ver |-> model.ver, isFavorite |-> model.isFavorite]

\* The dictionary the model was made from.
BikeModelParser(model) == [ver |-> model.ver, isFavorite |-> model.saved]

\* A change of the cell's object, where it is a manager's, shows in its dictionary.
SameObject(dictionary, new) ==
    [dictionary EXCEPT ![cell.station] = IF cell.current /\ @ # None THEN new ELSE @]

\* triggerFavoriteButton and changeFavoriteBikeModel.
Tap ==
    /\ alive
    /\ cell # None
    /\ taps < MaxTaps
    /\ taps' = taps + 1
    /\ LET new == [cell.model EXCEPT !.isFavorite = ~@]
       IN  /\ cell' = [cell EXCEPT !.model = new]
           /\ modelDictionary' = SameObject(modelDictionary, new)
           /\ FavoriteModels' = SameObject(FavoriteModels, new)
           /\ jobs' = jobs \cup {[tap |-> taps', station |-> cell.station,
                                  row |-> BikeModelParser(new)]}
    /\ settled' = TRUE
    /\ UNCHANGED <<alive, refreshVars, stored, read, image, redraws>>

\* updateDataFor, each on a queue of its own: taps are stored in any order.
WriteBack(j) ==
    /\ alive
    /\ j \in jobs
    /\ jobs' = jobs \ {j}
    /\ stored' = [stored EXCEPT ![j.station] = j.row]
    /\ redraws' = redraws \cup {j.tap}
    /\ UNCHANGED <<alive, refreshVars, read, modelVars, cellVars, taps>>

\* The transaction fails: completeHandler(false), and no redraw.
WriteBackFails(j) ==
    /\ alive
    /\ j \in jobs
    /\ jobs' = jobs \ {j}
    /\ settled' = FALSE
    /\ UNCHANGED <<alive, refreshVars, stored, read, modelVars, cell, image, redraws, taps>>

\* A faulty ChangeFavoriteButton: the button goes from heart to no heart and back.
ChangeFavoriteButtonFlips ==
    /\ alive
    /\ \E tap \in redraws : redraws' = redraws \ {tap}
    /\ image' = (image # TRUE)
    /\ UNCHANGED <<alive, refreshVars, stored, read, modelVars, cell, settled, jobs, taps>>

\* changeFavoriteButton, on the main queue: the cell's model of the moment.
ChangeFavoriteButton ==
    /\ alive
    /\ \E tap \in redraws : redraws' = redraws \ {tap}
    /\ image' = cell.model.isFavorite
    /\ UNCHANGED <<alive, refreshVars, stored, read, modelVars, cell, settled, jobs, taps>>

-----------------------------------------------------------------------------
Die ==
    /\ alive
    /\ alive' = FALSE
    /\ UNCHANGED <<refreshVars, stored, read, modelVars, cellVars, tapVars>>

\* A faulty Launch: the write-backs left over are done now.
LaunchKeepsJobs ==
    /\ ~alive
    /\ alive' = TRUE
    /\ fetched' = 0 /\ todo' = {}
    /\ stored' = NoRows /\ read' = None
    /\ modelDictionary' = NoRows /\ FavoriteModels' = NoRows
    /\ cell' = None /\ image' = None /\ settled' = TRUE
    /\ UNCHANGED <<now, tapVars>>

\* A launch deletes the Realm file.
Launch ==
    /\ ~alive
    /\ alive' = TRUE
    /\ fetched' = 0 /\ todo' = {}
    /\ stored' = NoRows /\ read' = None
    /\ modelDictionary' = NoRows /\ FavoriteModels' = NoRows
    /\ cell' = None /\ image' = None /\ settled' = TRUE
    /\ jobs' = {} /\ redraws' = {}
    /\ UNCHANGED <<now, taps>>

Next ==
    \/ Publish \/ Reply \/ \E s \in Stations : WriteRow(s) \/ SetBikeModel(s)
    \/ Fetch \/ Renew
    \/ Tap \/ \E j \in jobs : WriteBack(j) \/ WriteBackFails(j)
    \/ ChangeFavoriteButton
    \/ Die \/ Launch

Spec == Init /\ [][Next]_vars

\* The timer repeats while the process lives, the server answers in the end,
\* and the queues are run; a user taps or does not.
Fairness ==
    /\ WF_vars(Reply)
    /\ \A s \in Stations : WF_vars(WriteRow(s))
    /\ WF_vars(\E j \in jobs : WriteBack(j) \/ WriteBackFails(j))
    /\ WF_vars(ChangeFavoriteButton)

FairSpec == Spec /\ Fairness

-----------------------------------------------------------------------------
(* Properties.                                                             *)

\* The state keeps its types.
TypeOK ==
    /\ alive \in BOOLEAN
    /\ now \in 1 .. MaxVer /\ fetched \in 0 .. now /\ todo \subseteq Stations
    /\ todo # {} => fetched # 0
    /\ stored \in [Stations -> Row \cup {None}]
    /\ read \in [Stations -> Row \cup {None}] \cup {None}
    /\ modelDictionary \in [Stations -> Model \cup {None}]
    /\ FavoriteModels \in [Stations -> Model \cup {None}]
    /\ cell \in Cell \cup {None}
    /\ image \in BOOLEAN \cup {None} /\ settled \in BOOLEAN
    /\ jobs \subseteq Job /\ redraws \subseteq 1 .. MaxTaps /\ taps \in 0 .. MaxTaps
    /\ jobs # {} \/ redraws # {} => cell # None

\* Nobody's tap is ever stored (BikeModel.m:138 hands over the dictionary that
\* the toggle never touches), so that no fetch ever finds a favourite and
\* _FavoriteModels stays empty, however taps, refreshes and fetches interleave.
TapNeverStored ==
    /\ \A s \in Stations : stored[s] # None => ~stored[s].isFavorite
    /\ \A s \in Stations : FavoriteModels[s] = None

\* When the write-backs are done and have not failed, and the cell still has the
\* model that was tapped, the button says what the model says, in whatever order
\* the write-backs ended.
ImageSettles ==
    cell # None /\ settled /\ jobs = {} /\ redraws = {} =>
        image = cell.model.isFavorite

\* A write-back may put the old counts of its model over newer ones, but not for
\* good: the server's rows get stored again, unless the process ends.
RowsRecover ==
    \A s \in Stations :
        (now = MaxVer /\ taps = MaxTaps) ~>
            (~alive \/ [](alive => stored[s] # None /\ stored[s].ver = MaxVer))
=============================================================================
