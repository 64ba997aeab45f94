---------------------------- MODULE BikeRefresh ----------------------------
(***************************************************************************)
(* How the app keeps its local copy of the bike stations fresh.            *)
(*                                                                         *)
(* A repeating timer (BikeModelManager) issues a request; every request    *)
(* has a URL session, hence a delegate queue, of its own (ServerConnector),*)
(* so the handlers of two requests run on two threads.  The handler of a   *)
(* reply raises isUpdating and walks over the tables and rows of the reply *)
(* (RealmUtil), counting them in four static ints that all handlers share, *)
(* and writes each row in a Realm transaction of its own.  The progress    *)
(* block runs INSIDE that transaction; when the counters say "last row of  *)
(* the last table" it lowers isUpdating and shows everything stored.       *)
(* Meanwhile the main thread answers camera moves: it checks isUpdating,   *)
(* reads the rows in view and shows them.                                  *)
(*                                                                         *)
(* Every access to a shared variable is a step of its own.  A row is       *)
(* abstracted to the version of the server's data it came from; 0 stands   *)
(* for "no such row".                                                      *)
(***************************************************************************)
EXTENDS Integers, FiniteSets

CONSTANTS
    Requests,  \* the timer ticks, one request each (a bound for TLC)
    Types,     \* the selected bike types, i.e. the tables of a reply
    Stations,  \* station numbers (stnNO)
    Bodies,    \* the tables the server may answer with
    Areas,     \* the windows the camera may look at: sets of <<type, station>>
    MaxVer,    \* bound on the versions of the server's data
    Overlap,   \* may the timer tick while an earlier request is unfinished?
    None       \* "no request", "no table", "no row"

\* How a row of a reply looks to the app: its "type" column may be NULL, and the
\* date formatter, which has the user's locale, may fail on its date.
RowKinds == {"typed", "untyped", "undated", "absent"}

ASSUME TypesAssumption  == IsFiniteSet(Types) /\ Types # {}
ASSUME StationsAssumption == IsFiniteSet(Stations) /\ Stations # {}
ASSUME BodiesAssumption == Bodies \subseteq [Types -> [Stations -> RowKinds]]
ASSUME AreasAssumption  == Areas \subseteq SUBSET (Types \X Stations)
ASSUME BoundsAssumption == MaxVer \in Nat \ {0} /\ Overlap \in BOOLEAN
ASSUME NoneAssumption   == None \notin Requests \cup Types \cup Stations

VARIABLES
    alive,                \* the process runs
    serverVer,            \* version of the data the server holds
    pc,                   \* where the handler of each request is
    reply,                \* what the server answered to each request
    keysLeft,             \* tables the outer loop has still to visit
    rowsLeft,             \* rows the inner loop has still to visit
    type, row,            \* the table and the row in hand
    reg,                  \* the counter value loaded by a "+= 1"; 0 when dead
    isLastOne,            \* first argument of the progress block; FALSE when dead
    totalDownloadData, downloadDataCounter,     \* static ints, shared
    totalDownloadQuery, downloadQueryCounter,   \* static ints, shared
    isUpdating,           \* BikeModelManager.isUpdating
    updater,              \* history: the last request that raised isUpdating
    lock,                 \* owner of Realm's write transaction
    stored,               \* the committed rows
    shown,                \* the models the manager has handed to the map
    camera, area, snap    \* main thread: state, window and rows of a fetch

serverVars  == <<serverVer>>
loopVars    == <<keysLeft, rowsLeft, type, row>>
counterVars == <<totalDownloadData, downloadDataCounter,
                 totalDownloadQuery, downloadQueryCounter>>
guardVars   == <<isUpdating, updater>>
storeVars   == <<lock, stored>>
cameraVars  == <<camera, area, snap>>
vars == <<alive, serverVars, pc, reply, loopVars, reg, isLastOne, counterVars,
          guardVars, storeVars, shown, cameraVars>>

Version == 0 .. MaxVer
Table   == [Types -> [Stations -> Version]]
Empty   == [t \in Types |-> [s \in Stations |-> 0]]

ErrorKinds == {"netError", "noData", "badJson"}
Reply == [kind : ErrorKinds \cup {"none", "failure", "rows"},
          tables : [Types -> [Stations -> RowKinds]], ver : Version]
NoTables == [t \in Types |-> [s \in Stations |-> "absent"]]
NoReply  == [kind |-> "none", tables |-> NoTables, ver |-> 0]

Labels == {"idle", "sent", "answered", "setTotal", "zeroData", "nextKey",
           "storeKey", "zeroQuery", "nextRow", "loadRow", "storeRow", "write",
           "argLast", "argPercent", "fetch", "commit", "ended"}

\* The labels between the handler's first statement and its last.
Applying == Labels \ {"idle", "sent", "answered", "ended"}
InTransaction == {"argLast", "argPercent", "fetch", "commit"}

RowsOf(r, t)  == {s \in Stations : reply[r].tables[t][s] # "absent"}
Typed(r, t, s) == reply[r].tables[t][s] = "typed"
Active(r) == pc[r] \notin {"idle", "ended"}

\* What a thread inside the write transaction of r sees: r's row is there.
InTxn(r) == [stored EXCEPT ![type[r]][row[r]] = reply[r].ver]

\* filterDataAndNotify: every row read replaces the model with its key, and
\* a model whose row was not read stays.
Merge(old, read, where) ==
    [t \in Types |-> [s \in Stations |->
        IF <<t, s>> \in where /\ read[t][s] # 0 THEN read[t][s] ELSE old[t][s]]]

\* The worker of an ending update and the main thread are in filterDataAndNotify
\* at once: a data race on modelDictionary.  An entry one of them writes may get
\* lost; that the race may end the process is a case of Die.
Racing == camera = "read" /\ \E r \in Requests : pc[r] = "fetch"

Renewed(new) ==
    IF Racing
    THEN {m \in Table : \A t \in Types, s \in Stations :
                            m[t][s] \in {shown[t][s], new[t][s]}}
    ELSE {new}

\* A faulty IsHundred: satisfied one table too early.
IsHundredEarly(done, total) == 100 * total <= 100 * (done + 1)

\* (int)(done / total * 100) == 100, the only thing asked of the percentage.
IsHundred(done, total) == 100 * total <= 100 * done /\ 100 * done < 101 * total

Init ==
    /\ alive = TRUE
    /\ serverVer = 1
    /\ pc = [r \in Requests |-> "idle"]
    /\ reply = [r \in Requests |-> NoReply]
    /\ keysLeft = [r \in Requests |-> {}]
    /\ rowsLeft = [r \in Requests |-> {}]
    /\ type = [r \in Requests |-> None]
    /\ row = [r \in Requests |-> None]
    /\ reg = [r \in Requests |-> 0]
    /\ isLastOne = [r \in Requests |-> FALSE]
    /\ totalDownloadData = 0 /\ downloadDataCounter = 0
    /\ totalDownloadQuery = 0 /\ downloadQueryCounter = 0
    /\ isUpdating = FALSE /\ updater = None
    /\ lock = None /\ stored = Empty /\ shown = Empty
    /\ camera = "idle" /\ area = {} /\ snap = Empty

-----------------------------------------------------------------------------
(* The server and the network.                                             *)

\* The crawler renews the server's tables.
ServerAdvance ==
    /\ serverVer < MaxVer
    /\ serverVer' = serverVer + 1
    /\ UNCHANGED <<alive, pc, reply, loopVars, reg, isLastOne, counterVars,
                   guardVars, storeVars, shown, cameraVars>>

\* A step of the handler of request r.
Step(r, from, to) ==
    /\ alive
    /\ pc[r] = from
    /\ pc' = [pc EXCEPT ![r] = to]
    /\ UNCHANGED <<alive, serverVars>>

\* The timer fires: updateDatawithHandler asks for the selected types, whether
\* or not an earlier request is still under way.
Tick(r) ==
    /\ Overlap \/ \A q \in Requests : ~Active(q)
    /\ Step(r, "idle", "sent")
    /\ UNCHANGED <<reply, loopVars, reg, isLastOne, counterVars, guardVars,
                   storeVars, shown, cameraVars>>

\* Faulty Answers: a cache may answer with older tables.
AnswersCached ==
    [kind : ErrorKinds \cup {"failure"}, tables : {NoTables}, ver : {0}]
    \cup [kind : {"rows"}, tables : Bodies, ver : 1 .. serverVer]

\* A request may fail, or index.php answer with the tables, with isSuccess =
\* false, or with something that is no JSON.
Answers ==
    [kind : ErrorKinds \cup {"failure"}, tables : {NoTables}, ver : {0}]
    \cup [kind : {"rows"}, tables : Bodies, ver : {serverVer}]

\* The URL loading system has an answer, or an error, for request r.
Answer(r) ==
    /\ Step(r, "sent", "answered")
    /\ \E a \in Answers : reply' = [reply EXCEPT ![r] = a]
    /\ UNCHANGED <<loopVars, reg, isLastOne, counterVars, guardVars, storeVars,
                   shown, cameraVars>>

-----------------------------------------------------------------------------
(* The handler of a reply, on the delegate queue of its session.           *)

\* A network error, no data, or data that does not parse: nothing happens.
DropReply(r) ==
    /\ reply[r].kind \in ErrorKinds
    /\ Step(r, "answered", "ended")
    /\ UNCHANGED <<reply, loopVars, reg, isLastOne, counterVars, guardVars,
                   storeVars, shown, cameraVars>>

\* Any JSON counts as success.
AcceptReply(r) ==
    /\ reply[r].kind \in {"rows", "failure"}
    /\ Step(r, "answered", "setTotal")
    /\ isUpdating' = TRUE
    /\ updater' = r
    /\ keysLeft' = [keysLeft EXCEPT ![r] = Types]
    /\ UNCHANGED <<reply, rowsLeft, type, row, reg, isLastOne, counterVars, storeVars,
                   shown, cameraVars>>

\* A faulty CrashOnFailure: somebody catches the exception.
CrashOnFailureCaught(r) ==
    /\ reply[r].kind = "failure"
    /\ Step(r, "setTotal", "ended")
    /\ UNCHANGED <<reply, loopVars, reg, isLastOne, counterVars, guardVars, storeVars,
                   shown, cameraVars>>

\* The data of a failure is an empty array, and allKeys raises an exception.
CrashOnFailure(r) ==
    /\ alive
    /\ pc[r] = "setTotal"
    /\ reply[r].kind = "failure"
    /\ alive' = FALSE
    /\ UNCHANGED <<serverVars, pc, reply, loopVars, reg, isLastOne, counterVars,
                   guardVars, storeVars, shown, cameraVars>>

\* A faulty SetTotal: the totals of several replies add up.
SetTotalAddsUp(r) ==
    /\ reply[r].kind = "rows"
    /\ Step(r, "setTotal", "zeroData")
    /\ totalDownloadData' = totalDownloadData + Cardinality(Types)
    /\ UNCHANGED <<reply, loopVars, reg, isLastOne, downloadDataCounter,
                   totalDownloadQuery, downloadQueryCounter, guardVars,
                   storeVars, shown, cameraVars>>

SetTotal(r) ==
    /\ reply[r].kind = "rows"
    /\ Step(r, "setTotal", "zeroData")
    /\ totalDownloadData' = Cardinality(Types)
    /\ UNCHANGED <<reply, loopVars, reg, isLastOne, downloadDataCounter,
                   totalDownloadQuery, downloadQueryCounter, guardVars,
                   storeVars, shown, cameraVars>>

ZeroData(r) ==
    /\ Step(r, "zeroData", "nextKey")
    /\ downloadDataCounter' = 0
    /\ UNCHANGED <<reply, loopVars, reg, isLastOne, totalDownloadData,
                   totalDownloadQuery, downloadQueryCounter, guardVars,
                   storeVars, shown, cameraVars>>

\* allKeys has no order: any table left may be next.
NextKey(r) ==
    /\ Step(r, "nextKey", "storeKey")
    /\ \E t \in keysLeft[r] :
          /\ keysLeft' = [keysLeft EXCEPT ![r] = @ \ {t}]
          /\ rowsLeft' = [rowsLeft EXCEPT ![r] = RowsOf(r, t)]
          /\ type' = [type EXCEPT ![r] = t]
    /\ reg' = [reg EXCEPT ![r] = downloadDataCounter]
    /\ UNCHANGED <<reply, row, isLastOne, counterVars, guardVars, storeVars,
                   shown, cameraVars>>

NoKeyLeft(r) ==
    /\ keysLeft[r] = {}
    /\ Step(r, "nextKey", "ended")
    /\ UNCHANGED <<reply, loopVars, reg, isLastOne, counterVars, guardVars,
                   storeVars, shown, cameraVars>>

StoreKey(r) ==
    /\ Step(r, "storeKey", "zeroQuery")
    /\ downloadDataCounter' = reg[r] + 1
    /\ reg' = [reg EXCEPT ![r] = 0]
    /\ UNCHANGED <<reply, loopVars, isLastOne, totalDownloadData,
                   totalDownloadQuery, downloadQueryCounter, guardVars,
                   storeVars, shown, cameraVars>>

\* A faulty ZeroQuery: the rows of the table before keep counting.
ZeroQueryForgotten(r) ==
    /\ Step(r, "zeroQuery", "nextRow")
    /\ UNCHANGED <<reply, loopVars, reg, isLastOne, counterVars, guardVars,
                   storeVars, shown, cameraVars>>

ZeroQuery(r) ==
    /\ Step(r, "zeroQuery", "nextRow")
    /\ downloadQueryCounter' = 0
    /\ UNCHANGED <<reply, loopVars, reg, isLastOne, totalDownloadData,
                   downloadDataCounter, totalDownloadQuery, guardVars,
                   storeVars, shown, cameraVars>>

\* SELECT * promises no order either.
NextRow(r) ==
    /\ Step(r, "nextRow", "loadRow")
    /\ \E s \in rowsLeft[r] :
          /\ rowsLeft' = [rowsLeft EXCEPT ![r] = @ \ {s}]
          /\ row' = [row EXCEPT ![r] = s]
    /\ totalDownloadQuery' = Cardinality(RowsOf(r, type[r]))
    /\ UNCHANGED <<reply, keysLeft, type, reg, isLastOne, totalDownloadData,
                   downloadDataCounter, downloadQueryCounter, guardVars,
                   storeVars, shown, cameraVars>>

NoRowLeft(r) ==
    /\ rowsLeft[r] = {}
    /\ Step(r, "nextRow", "nextKey")
    /\ UNCHANGED <<reply, loopVars, reg, isLastOne, counterVars, guardVars,
                   storeVars, shown, cameraVars>>

LoadRow(r) ==
    /\ Step(r, "loadRow", "storeRow")
    /\ reg' = [reg EXCEPT ![r] = downloadQueryCounter]
    /\ UNCHANGED <<reply, loopVars, isLastOne, counterVars, guardVars, storeVars,
                   shown, cameraVars>>

\* A date that does not parse is nil, and a nil in a dictionary literal raises.
CrashOnRow(r) ==
    /\ alive
    /\ pc[r] = "storeRow"
    /\ reply[r].tables[type[r]][row[r]] = "undated"
    /\ alive' = FALSE
    /\ UNCHANGED <<serverVars, pc, reply, loopVars, reg, isLastOne, counterVars,
                   guardVars, storeVars, shown, cameraVars>>

\* recordBikeData skips a row whose type is NULL, and with it the progress block.
StoreRow(r) ==
    /\ \/ /\ Step(r, "storeRow", "write")
          /\ Typed(r, type[r], row[r])
       \/ /\ Step(r, "storeRow", "nextRow")
          /\ reply[r].tables[type[r]][row[r]] = "untyped"
    /\ downloadQueryCounter' = reg[r] + 1
    /\ reg' = [reg EXCEPT ![r] = 0]
    /\ UNCHANGED <<reply, loopVars, isLastOne, totalDownloadData,
                   downloadDataCounter, totalDownloadQuery, guardVars,
                   storeVars, shown, cameraVars>>

\* transactionWithBlock waits for the write lock; addOrUpdateObject.
BeginWrite(r) ==
    /\ lock = None
    /\ Step(r, "write", "argLast")
    /\ lock' = r
    /\ UNCHANGED <<reply, loopVars, reg, isLastOne, counterVars, guardVars,
                   stored, shown, cameraVars>>

ReadIsLastOne(r) ==
    /\ Step(r, "argLast", "argPercent")
    /\ isLastOne' = [isLastOne EXCEPT
                        ![r] = downloadQueryCounter = totalDownloadQuery]
    /\ UNCHANGED <<reply, loopVars, reg, counterVars, guardVars, storeVars,
                   shown, cameraVars>>

\* The percentage is computed and the progress block runs.
Progress(r) ==
    /\ isLastOne[r]
    /\ IsHundred(downloadDataCounter, totalDownloadData)
    /\ Step(r, "argPercent", "fetch")
    /\ isUpdating' = FALSE
    /\ isLastOne' = [isLastOne EXCEPT ![r] = FALSE]
    /\ UNCHANGED <<reply, loopVars, reg, counterVars, updater,
                   storeVars, shown, cameraVars>>

NoProgress(r) ==
    /\ ~(isLastOne[r] /\ IsHundred(downloadDataCounter, totalDownloadData))
    /\ Step(r, "argPercent", "commit")
    /\ isLastOne' = [isLastOne EXCEPT ![r] = FALSE]
    /\ UNCHANGED <<reply, loopVars, reg, counterVars, guardVars,
                   storeVars, shown, cameraVars>>

\* A faulty FetchAll: it reads the rows committed before.
FetchAllCommitted(r) ==
    /\ Step(r, "fetch", "commit")
    /\ shown' \in IF isUpdating THEN {shown}
                  ELSE Renewed(Merge(shown, stored, Types \X Stations))
    /\ UNCHANGED <<reply, loopVars, reg, isLastOne, counterVars, guardVars,
                   storeVars, cameraVars>>

\* fetchDataWithCoordinate:nil, still inside the transaction; it gives up when
\* another handler has raised isUpdating in between.
FetchAll(r) ==
    /\ Step(r, "fetch", "commit")
    /\ shown' \in IF isUpdating THEN {shown}
                  ELSE Renewed(Merge(shown, InTxn(r), Types \X Stations))
    /\ UNCHANGED <<reply, loopVars, reg, isLastOne, counterVars, guardVars,
                   storeVars, cameraVars>>

\* A faulty Commit: the row is cancelled.
CommitCancels(r) ==
    /\ Step(r, "commit", "nextRow")
    /\ lock' = None
    /\ UNCHANGED <<reply, loopVars, reg, isLastOne, counterVars, guardVars,
                   stored, shown, cameraVars>>

\* A faulty Commit: one that fails is tried again, and again.
CommitRetries(r) ==
    /\ \/ Step(r, "commit", "nextRow") /\ stored' = InTxn(r)
       \/ Step(r, "commit", "write") /\ UNCHANGED stored
    /\ lock' = None
    /\ UNCHANGED <<reply, loopVars, reg, isLastOne, counterVars, guardVars,
                   shown, cameraVars>>

\* A faulty Commit: the write lock is kept.
CommitKeepsLock(r) ==
    /\ Step(r, "commit", "nextRow")
    /\ stored' = InTxn(r)
    /\ UNCHANGED <<reply, loopVars, reg, isLastOne, counterVars, guardVars,
                   lock, shown, cameraVars>>

Commit(r) ==
    /\ Step(r, "commit", "nextRow")
    /\ stored' = InTxn(r)
    /\ lock' = None
    /\ UNCHANGED <<reply, loopVars, reg, isLastOne, counterVars, guardVars,
                   shown, cameraVars>>

-----------------------------------------------------------------------------
(* The main thread: a camera move fetches the rows in its window.          *)

MainStep(from, to) ==
    /\ alive
    /\ camera = from
    /\ camera' = to
    /\ UNCHANGED <<alive, serverVars, pc, reply, loopVars, reg, isLastOne,
                   counterVars, guardVars, storeVars>>

\* "if (_isUpdating) return"; a fetch that is turned away leaves no trace.
CameraMove ==
    \E a \in Areas :
        /\ MainStep("idle", IF isUpdating THEN "idle" ELSE "checked")
        /\ area' = IF isUpdating THEN area ELSE a
        /\ UNCHANGED <<snap, shown>>

\* One Realm version: the rows committed by now.
CameraRead ==
    /\ MainStep("checked", "read")
    /\ snap' = Merge(Empty, stored, area)
    /\ UNCHANGED <<area, shown>>

CameraShow ==
    /\ MainStep("read", "idle")
    /\ shown' \in Renewed(Merge(shown, snap, area))
    /\ area' = {} /\ snap' = Empty

-----------------------------------------------------------------------------
(* The process ends at any moment; a launch deletes the Realm file.        *)

Die ==
    /\ alive
    /\ alive' = FALSE
    /\ UNCHANGED <<serverVars, pc, reply, loopVars, reg, isLastOne, counterVars,
                   guardVars, storeVars, shown, cameraVars>>

Launch ==
    /\ ~alive
    /\ alive' = TRUE
    /\ pc' = [r \in Requests |-> IF pc[r] = "idle" THEN "idle" ELSE "ended"]
    /\ reply' = [r \in Requests |-> NoReply]
    /\ keysLeft' = [r \in Requests |-> {}]
    /\ rowsLeft' = [r \in Requests |-> {}]
    /\ type' = [r \in Requests |-> None]
    /\ row' = [r \in Requests |-> None]
    /\ reg' = [r \in Requests |-> 0]
    /\ isLastOne' = [r \in Requests |-> FALSE]
    /\ totalDownloadData' = 0 /\ downloadDataCounter' = 0
    /\ totalDownloadQuery' = 0 /\ downloadQueryCounter' = 0
    /\ isUpdating' = FALSE /\ updater' = None
    /\ lock' = None /\ stored' = Empty /\ shown' = Empty
    /\ camera' = "idle" /\ area' = {} /\ snap' = Empty
    /\ UNCHANGED serverVars

Loop(r) ==
    \/ SetTotal(r) \/ ZeroData(r)
    \/ NextKey(r) \/ NoKeyLeft(r) \/ StoreKey(r) \/ ZeroQuery(r)
    \/ NextRow(r) \/ NoRowLeft(r) \/ LoadRow(r) \/ StoreRow(r)

Transaction(r) ==
    \/ BeginWrite(r) \/ ReadIsLastOne(r) \/ Progress(r) \/ NoProgress(r)
    \/ FetchAll(r) \/ Commit(r)

Handler(r) ==
    \/ DropReply(r) \/ AcceptReply(r) \/ CrashOnFailure(r) \/ CrashOnRow(r)
    \/ Loop(r) \/ Transaction(r)

Main == CameraMove \/ CameraRead \/ CameraShow

Next ==
    \/ ServerAdvance
    \/ \E r \in Requests : Tick(r) \/ Answer(r) \/ Handler(r)
    \/ Main
    \/ Die
    \/ Launch

Spec == Init /\ [][Next]_vars

\* The URL loading system answers every request (a timeout is an answer), and
\* threads that can run are run.  Nothing makes the timer tick, the camera
\* move, or the user launch the app.
Fairness ==
    \A r \in Requests : WF_vars(Answer(r)) /\ WF_vars(Handler(r))

FairSpec == Spec /\ Fairness

-----------------------------------------------------------------------------
(* Properties.                                                             *)

TypeOK ==
    /\ alive \in BOOLEAN
    /\ serverVer \in 1 .. MaxVer
    /\ pc \in [Requests -> Labels]
    /\ reply \in [Requests -> Reply]
    /\ keysLeft \in [Requests -> SUBSET Types]
    /\ rowsLeft \in [Requests -> SUBSET Stations]
    /\ type \in [Requests -> Types \cup {None}]
    /\ row \in [Requests -> Stations \cup {None}]
    /\ reg \in [Requests -> Nat]
    /\ isLastOne \in [Requests -> BOOLEAN]
    /\ totalDownloadData \in 0 .. Cardinality(Types)
    /\ totalDownloadQuery \in 0 .. Cardinality(Stations)
    /\ downloadDataCounter \in Nat
    /\ downloadQueryCounter \in Nat
    /\ isUpdating \in BOOLEAN
    /\ updater \in Requests \cup {None}
    /\ lock \in Requests \cup {None}
    /\ stored \in Table /\ shown \in Table /\ snap \in Table
    /\ camera \in {"idle", "checked", "read"}
    /\ area \in SUBSET (Types \X Stations)

\* What a read inside the open transaction, if there is one, would see.
Visible == IF lock = None THEN stored ELSE InTxn(lock)

\* The typed rows of r's reply that r has not yet put into a transaction.
Pending(r) ==
    {p \in Types \X Stations :
        /\ Typed(r, p[1], p[2])
        /\ \/ p[1] \in keysLeft[r]
           \/ p[1] = type[r] /\ p[2] \in rowsLeft[r]
           \/ p = <<type[r], row[r]>> /\ pc[r] \in {"loadRow", "storeRow", "write"}}

\* While a handler still has rows to write, isUpdating is up, so that a camera
\* move is turned away (BikeModelManager.m:106 "return if data is being
\* changed").  It takes a second request in flight to break this: the handlers
\* share their counters and the flag.
GuardCoversPendingRows ==
    \A r \in Requests : alive /\ pc[r] \in Applying /\ Pending(r) # {} => isUpdating

\* Once isUpdating is down again, every typed row of the reply that raised it
\* is in the store (the last one perhaps only in the open transaction): the
\* counters announce the end of an update neither early nor for another one.
ReleasedMeansStored ==
    ~isUpdating /\ updater # None =>
        \A t \in Types, s \in Stations :
            Typed(updater, t, s) => Visible[t][s] = reply[updater].ver

\* The last table visited was empty, or its last row had no type: the progress
\* block did not run for the end of the reply.
DeafTail(r) == RowsOf(r, type[r]) = {} \/ ~Typed(r, type[r], row[r])

\* After an update isUpdating stays up, and every later camera move is turned
\* away, exactly when the reply ended in an empty table or an untyped row.
StuckExactlyOnDeafTail ==
    alive /\ updater # None /\ pc[updater] = "ended" =>
        (isUpdating <=> DeafTail(updater))

\* The fetch that ends an update shows every typed row of that update's reply,
\* in that reply's version, the row still uncommitted included, unless the main
\* thread is showing an older fetch at the same time.
CompletionShowsReply ==
    [][\A r \in Requests :
          pc[r] = "fetch" /\ pc'[r] = "commit" /\ ~Racing =>
              \A t \in Types, s \in Stations :
                  Typed(r, t, s) => shown'[t][s] = reply[r].ver]_vars

\* A fetch that isUpdating let through reads while no handler is at work
\* (BikeModelManager.m:106 "return if data is being changed").
CameraReadsQuietData ==
    [][camera = "checked" /\ camera' = "read" =>
          \A r \in Requests : pc[r] \notin Applying]_vars

\* Of every reply whose handler has ended each typed row is stored, in the
\* version of that reply or of another one that has the row: handlers that
\* overlap may overwrite each other's rows but lose none.
NoRowLost ==
    \A r \in Requests : pc[r] = "ended" /\ reply[r].kind = "rows" =>
        \A t \in Types, s \in Stations : Typed(r, t, s) =>
            \E q \in Requests : Typed(q, t, s) /\ Visible[t][s] = reply[q].ver

\* The map's models are of rows that are there, and, while requests do not
\* overlap, no newer than they are: the fetch that ends an update reads a row
\* that is not committed yet (RealmUtil.m:451), and a camera fetch shows rows read
\* before others were written.
ShownIsStored ==
    \A t \in Types, s \in Stations :
        /\ shown[t][s] # 0 => Visible[t][s] # 0
        /\ ~Overlap => shown[t][s] <= Visible[t][s]

\* How far a handler is from its end: the tables and rows it has still to visit,
\* and the statements of the row in hand.
Rank == [ended |-> 0, nextKey |-> 1, nextRow |-> 2, commit |-> 3, fetch |-> 4,
         argPercent |-> 5, argLast |-> 6, write |-> 7, storeRow |-> 8, loadRow |-> 9,
         zeroQuery |-> 3, storeKey |-> 4, zeroData |-> 2, setTotal |-> 3]
Work(r) == (10 * Cardinality(Stations) + 10) * Cardinality(keysLeft[r])
           + 10 * Cardinality(rowsLeft[r]) + Rank[pc[r]]

\* Each step of a handler brings it nearer to its end, whatever handlers that
\* overlap do to the counters: no table and no row is visited twice, and a
\* transaction (RealmUtil.m:441) is opened once per row.
HandlerAdvances ==
    [][\A r \in Requests :
          pc[r] \in Applying /\ pc'[r] # pc[r] => Work(r)' < Work(r)]_vars

\* Handlers that wait for each other's write transaction do not wait forever:
\* every request ends, unless the process does.
EveryRequestEnds ==
    \A r \in Requests : pc[r] = "sent" ~> (pc[r] = "ended" \/ ~alive)

\* A reply without empty tables and untyped rows, whose rows are about to be written
\* with isUpdating up (raised for it, or stuck since an earlier one), is itself the
\* one that brings the flag down: the process dies, or it comes to its completion
\* fetch with the flag down.
GoodReplyReleasesGuard ==
    \A r \in Requests :
        (/\ pc[r] = "setTotal" /\ isUpdating /\ reply[r].kind = "rows"
         /\ \A t \in Types : RowsOf(r, t) # {}
         /\ \A t \in Types, s \in Stations : s \in RowsOf(r, t) => Typed(r, t, s))
        ~> ((pc[r] = "fetch" /\ ~isUpdating) \/ ~alive)

\* No handler gets to its end over a failure or a date that the formatter cannot
\* read: wherever the row is in the reply, it is come upon, and not passed over.
UnreadableNeverEnds ==
    \A r \in Requests : pc[r] = "ended" =>
        /\ reply[r].kind # "failure"
        /\ \A t \in Types, s \in Stations : reply[r].tables[t][s] # "undated"

\* index.php's failure and a date that the formatter cannot read are not errors
\* to the handler (BikeModelManager.m:72 and RealmUtil.m:344): the exception they
\* raise, possibly many rows later, ends the process each time.
UnreadableReplyEndsProcess ==
    \A r \in Requests :
        (/\ pc[r] = "answered"
         /\ \/ reply[r].kind = "failure"
            \/ \E t \in Types, s \in Stations : reply[r].tables[t][s] = "undated")
        ~> ~alive

=============================================================================
