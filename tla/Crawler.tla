------------------------------ MODULE Crawler ------------------------------
(***************************************************************************)
(* How the stations get into MySQL (BikeSmart_Python).                     *)
(*                                                                         *)
(* A run of DBCreator.py visits four groups of feeds, one after the other: *)
(* JSON (UBike), JSON (TBike), XML, and web sites.  For a group it creates *)
(* the tables, and then reads feed by feed, station by station: it looks   *)
(* whether the station is in the table, on a connection of its own, and    *)
(* inserts or updates it, committed on another one.  Some web sites are    *)
(* bilingual: the Chinese page is recorded first and blanks the English    *)
(* columns, then the English page is recorded.  Two web sites give no      *)
(* station numbers: a table in the code gives them, and a station that the *)
(* table does not list is passed over in silence.  No exception is caught: *)
(* it ends the run where it is.  Nothing keeps two runs from overlapping.  *)
(*                                                                         *)
(* A row is abstracted to the version of the Chinese page it came from     *)
(* (0 when only the English page had the station: its "type" column is     *)
(* then NULL) and to whether its English columns have a text.              *)
(***************************************************************************)
EXTENDS Integers, FiniteSets

CONSTANTS
    Runs,       \* runs of DBCreator.py (a bound for TLC)
    Feeds,      \* the tables, one per feed
    Group,      \* the group of each feed
    LastGroup,  \* number of groups
    Bilingual,  \* the feeds with a Chinese and an English page
    Stations,   \* station numbers (stnNO)
    Listed,     \* the stations of a feed that its table in the code lists; all of
                \* them where there is none
    Pages,      \* the sets of stations that a page of a feed may list
    MaxVer,     \* bound on the versions of the pages
    Overlap,    \* may a run start while another one is under way?
    None        \* "no feed", "no station", "no row"

ASSUME GroupAssumption ==
    LastGroup \in Nat \ {0} /\ Group \in [Feeds -> 1 .. LastGroup]
ASSUME FeedsAssumption ==
    Bilingual \subseteq Feeds /\ Pages \in [Feeds -> SUBSET SUBSET Stations]
ASSUME ListedAssumption ==
    /\ Listed \in [Feeds -> SUBSET Stations]
    /\ \A f \in Bilingual : Listed[f] = Stations
ASSUME VersionAssumption == MaxVer \in Nat \ {0} /\ Overlap \in BOOLEAN
ASSUME NoneAssumption == None \notin Runs \cup Feeds \cup Stations \cup 0 .. MaxVer

VARIABLES
    now,       \* version of what the feeds publish
    created,   \* the tables that exist
    db,        \* the rows of the tables
    owner,     \* history: the run that last wrote a row's Chinese columns
    pc,        \* where each run is
    group,     \* the group it visits
    feedsLeft, \* the feeds of the group it has still to visit
    feed,      \* the feed in hand
    pass,      \* which page of the feed is in hand
    pages,     \* history: the pages it has read
    ver,       \* the version of the page in hand
    left,      \* the stations of the page it has still to record
    station,   \* the station in hand
    known      \* was the station in the table when the run looked?

tableVars == <<created, db, owner>>
placeVars == <<group, feedsLeft, feed, pass>>
pageVars  == <<pages, ver, left>>
checkVars == <<station, known>>
vars == <<now, tableVars, pc, placeVars, pageVars, checkVars>>

Passes == {"cn", "en"}
Row    == [cn : 0 .. MaxVer, en : {"blank", "text"}]
NoRow  == [cn |-> None, en |-> None]
Typed(row) == row.cn # 0

FeedsOf(g) == {f \in Feeds : Group[f] = g}
NoPages == [f \in Feeds |-> [p \in Passes |-> {}]]
Active(r) == pc[r] \notin {"idle", "done", "aborted"}
InTable(f, s) == db[f][s] # NoRow

Init ==
    /\ now = 1
    /\ created = {}
    /\ db = [f \in Feeds |-> [s \in Stations |-> NoRow]]
    /\ owner = [f \in Feeds |-> [s \in Stations |-> None]]
    /\ pc = [r \in Runs |-> "idle"]
    /\ group = [r \in Runs |-> 1]
    /\ feedsLeft = [r \in Runs |-> {}]
    /\ feed = [r \in Runs |-> None]
    /\ pass = [r \in Runs |-> "cn"]
    /\ pages = [r \in Runs |-> NoPages]
    /\ ver = [r \in Runs |-> 0]
    /\ left = [r \in Runs |-> {}]
    /\ station = [r \in Runs |-> None]
    /\ known = [r \in Runs |-> FALSE]

\* The world moves on: the feeds publish a new version.
Publish ==
    /\ now < MaxVer
    /\ now' = now + 1
    /\ UNCHANGED <<tableVars, pc, placeVars, pageVars, checkVars>>

Step(r, from, to) ==
    /\ pc[r] = from
    /\ pc' = [pc EXCEPT ![r] = to]
    /\ UNCHANGED now

Start(r) ==
    /\ Overlap \/ \A q \in Runs : ~Active(q)
    /\ Step(r, "idle", "create")
    /\ UNCHANGED <<tableVars, placeVars, pageVars, checkVars>>

\* Mutant of CreateTables: it drops the tables first.
CreateTablesDrops(r) ==
    /\ Step(r, "create", "pick")
    /\ created' = created \cup FeedsOf(group[r])
    /\ db' = [f \in Feeds |-> IF Group[f] = group[r] THEN [s \in Stations |-> NoRow]
                                                     ELSE db[f]]
    /\ feedsLeft' = [feedsLeft EXCEPT ![r] = FeedsOf(group[r])]
    /\ UNCHANGED <<owner, group, feed, pass, pageVars, checkVars>>

\* CREATE TABLE: an error, the table existing already or another one, is printed.
CreateTables(r) ==
    /\ Step(r, "create", "pick")
    /\ \E ok \in SUBSET FeedsOf(group[r]) : created' = created \cup ok
    /\ feedsLeft' = [feedsLeft EXCEPT ![r] = FeedsOf(group[r])]
    /\ UNCHANGED <<db, owner, group, feed, pass, pageVars, checkVars>>

\* iteritems has no order: any feed left may be next.
PickFeed(r) ==
    /\ Step(r, "pick", "fetch")
    /\ \E f \in feedsLeft[r] :
          /\ feed' = [feed EXCEPT ![r] = f]
          /\ feedsLeft' = [feedsLeft EXCEPT ![r] = @ \ {f}]
    /\ pass' = [pass EXCEPT ![r] = "cn"]
    /\ UNCHANGED <<tableVars, group, pageVars, checkVars>>

\* Mutant of NextGroup: one group too many.
NextGroupTooMany(r) ==
    /\ feedsLeft[r] = {}
    /\ Step(r, "pick", "create")
    /\ group' = [group EXCEPT ![r] = @ + 1]
    /\ UNCHANGED <<tableVars, feedsLeft, feed, pass, pageVars, checkVars>>

\* The group is through: on to the next one, or the run is done.
NextGroup(r) ==
    /\ feedsLeft[r] = {}
    /\ \/ /\ group[r] < LastGroup
          /\ Step(r, "pick", "create")
          /\ group' = [group EXCEPT ![r] = @ + 1]
       \/ /\ group[r] = LastGroup
          /\ Step(r, "pick", "done")
          /\ UNCHANGED group
    /\ UNCHANGED <<tableVars, feedsLeft, feed, pass, pageVars, checkVars>>

\* extractEBikeInfo and extractKBikeInfo keep the stations that their table lists;
\* the other decoders keep all.
ToRecordOf(f, page) == page \cap Listed[f]

\* Mutant of Fetch: a cache may answer with the first version.
FetchCached(r) ==
    /\ Step(r, "fetch", "record")
    /\ \E page \in Pages[feed[r]] :
          /\ pages' = [pages EXCEPT ![r][feed[r]][pass[r]] = page]
          /\ left' = [left EXCEPT ![r] = ToRecordOf(feed[r], page)]
    /\ \E v \in {1, now} : ver' = [ver EXCEPT ![r] = v]
    /\ UNCHANGED <<tableVars, placeVars, checkVars>>

\* The page is there and parses.
Fetch(r) ==
    /\ Step(r, "fetch", "record")
    /\ \E page \in Pages[feed[r]] :
          /\ pages' = [pages EXCEPT ![r][feed[r]][pass[r]] = page]
          /\ left' = [left EXCEPT ![r] = ToRecordOf(feed[r], page)]
    /\ ver' = [ver EXCEPT ![r] = now]
    /\ UNCHANGED <<tableVars, placeVars, checkVars>>

\* checkData: SELECT on a connection of its own.
Check(r) ==
    /\ Step(r, "record", "write")
    /\ feed[r] \in created
    /\ \E s \in left[r] :
          /\ left' = [left EXCEPT ![r] = @ \ {s}]
          /\ station' = [station EXCEPT ![r] = s]
          /\ known' = [known EXCEPT ![r] = InTable(feed[r], s)]
    /\ UNCHANGED <<tableVars, placeVars, pages, ver>>

\* What a Chinese page, or the page of a feed that has only one, makes of a row.
ChineseRow(r) ==
    [cn |-> ver[r], en |-> IF feed[r] \in Bilingual THEN "blank" ELSE "text"]

\* Mutant of Insert: a REPLACE, which needs no free key.
InsertReplaces(r) ==
    /\ ~known[r]
    /\ Step(r, "write", "record")
    /\ \/ /\ pass[r] = "cn"
          /\ db' = [db EXCEPT ![feed[r]][station[r]] = ChineseRow(r)]
          /\ owner' = [owner EXCEPT ![feed[r]][station[r]] = r]
       \/ /\ pass[r] = "en"
          /\ db' = [db EXCEPT ![feed[r]][station[r]] = [cn |-> 0, en |-> "text"]]
          /\ UNCHANGED owner
    /\ UNCHANGED <<created, placeVars, pageVars, checkVars>>

\* INSERT: the English page alone gives no type, nor the NOT NULL columns (where
\* MySQL is strict it refuses that: Fail).
Insert(r) ==
    /\ ~known[r]
    /\ Step(r, "write", "record")
    /\ ~InTable(feed[r], station[r])
    /\ \/ /\ pass[r] = "cn"
          /\ db' = [db EXCEPT ![feed[r]][station[r]] = ChineseRow(r)]
          /\ owner' = [owner EXCEPT ![feed[r]][station[r]] = r]
       \/ /\ pass[r] = "en"
          /\ db' = [db EXCEPT ![feed[r]][station[r]] = [cn |-> 0, en |-> "text"]]
          /\ UNCHANGED owner
    /\ UNCHANGED <<created, placeVars, pageVars, checkVars>>

\* Mutants of Update: the English page is recorded like a Chinese one, and with
\* a statement that sets every column.
UpdateIgnoresIsEn(r) ==
    /\ known[r]
    /\ Step(r, "write", "record")
    /\ db' = [db EXCEPT ![feed[r]][station[r]] = ChineseRow(r)]
    /\ owner' = [owner EXCEPT ![feed[r]][station[r]] = r]
    /\ UNCHANGED <<created, placeVars, pageVars, checkVars>>
UpdateReplaces(r) ==
    /\ known[r]
    /\ Step(r, "write", "record")
    /\ \/ /\ pass[r] = "cn"
          /\ db' = [db EXCEPT ![feed[r]][station[r]] = ChineseRow(r)]
          /\ owner' = [owner EXCEPT ![feed[r]][station[r]] = r]
       \/ /\ pass[r] = "en"
          /\ db' = [db EXCEPT ![feed[r]][station[r]] = [cn |-> 0, en |-> "text"]]
          /\ UNCHANGED owner
    /\ UNCHANGED <<created, placeVars, pageVars, checkVars>>

\* UPDATE: the English page sets only the English columns.
Update(r) ==
    /\ known[r]
    /\ Step(r, "write", "record")
    /\ \/ /\ pass[r] = "cn"
          /\ db' = [db EXCEPT ![feed[r]][station[r]] = ChineseRow(r)]
          /\ owner' = [owner EXCEPT ![feed[r]][station[r]] = r]
       \/ /\ pass[r] = "en"
          /\ db' = [db EXCEPT ![feed[r]][station[r]].en = "text"]
          /\ UNCHANGED owner
    /\ UNCHANGED <<created, placeVars, pageVars, checkVars>>

\* The variables of a run that an exception ends are gone.
Forget(r) ==
    /\ feedsLeft' = [feedsLeft EXCEPT ![r] = {}]
    /\ feed' = [feed EXCEPT ![r] = None]
    /\ pass' = [pass EXCEPT ![r] = "cn"]
    /\ ver' = [ver EXCEPT ![r] = 0]
    /\ left' = [left EXCEPT ![r] = {}]
    /\ station' = [station EXCEPT ![r] = None]
    /\ known' = [known EXCEPT ![r] = FALSE]

\* INSERT of a key that another run has inserted since the check.
Collide(r) ==
    /\ ~known[r]
    /\ Step(r, "write", "aborted")
    /\ InTable(feed[r], station[r])
    /\ Forget(r)
    /\ UNCHANGED <<tableVars, group, pages>>

\* The page is recorded: the English one is next, or the next feed.
EndPage(r) ==
    /\ left[r] = {}
    /\ \/ /\ feed[r] \in Bilingual /\ pass[r] = "cn"
          /\ Step(r, "record", "fetch")
          /\ pass' = [pass EXCEPT ![r] = "en"]
       \/ /\ feed[r] \notin Bilingual \/ pass[r] = "en"
          /\ Step(r, "record", "pick")
          /\ UNCHANGED pass
    /\ UNCHANGED <<tableVars, group, feedsLeft, feed, pageVars, checkVars>>

\* Mutant of Fail: the exception of a station is caught and the next one taken.
FailSkips(r) ==
    /\ Active(r)
    /\ Step(r, pc[r], IF pc[r] = "write" THEN "record" ELSE "aborted")
    /\ UNCHANGED <<tableVars, placeVars, pageVars, checkVars>>

\* An exception: no answer, an error status, an unexpected format, a table that
\* is missing, a connection or statement that MySQL refuses.
Fail(r) ==
    /\ Active(r)
    /\ Step(r, pc[r], "aborted")
    /\ Forget(r)
    /\ UNCHANGED <<tableVars, group, pages>>

Work(r) ==
    \/ CreateTables(r) \/ PickFeed(r) \/ NextGroup(r) \/ Fetch(r)
    \/ Check(r) \/ Insert(r) \/ Update(r) \/ Collide(r) \/ EndPage(r)

Next == Publish \/ \E r \in Runs : Start(r) \/ Work(r) \/ Fail(r)

Spec == Init /\ [][Next]_vars

-----------------------------------------------------------------------------
(***************************************************************************)
(* Properties.                                                             *)
(***************************************************************************)

\* The state keeps its types.
TypeOK ==
    /\ now \in 1 .. MaxVer
    /\ created \subseteq Feeds
    /\ db \in [Feeds -> [Stations -> Row \cup {NoRow}]]
    /\ owner \in [Feeds -> [Stations -> Runs \cup {None}]]
    /\ pc \in [Runs -> {"idle", "create", "pick", "fetch", "record", "write",
                        "done", "aborted"}]
    /\ group \in [Runs -> 1 .. LastGroup]
    /\ feedsLeft \in [Runs -> SUBSET Feeds]
    /\ feed \in [Runs -> Feeds \cup {None}]
    /\ pass \in [Runs -> Passes]
    /\ pages \in [Runs -> [Feeds -> [Passes -> SUBSET Stations]]]
    /\ ver \in [Runs -> 0 .. MaxVer]
    /\ left \in [Runs -> SUBSET Stations]
    /\ station \in [Runs -> Stations \cup {None}]
    /\ known \in [Runs -> BOOLEAN]

\* Between the SELECT of checkData and the UPDATE, on two connections, the row
\* cannot go away: an UPDATE always finds the row it was chosen for.
UpdateHitsRow ==
    \A r \in Runs :
        pc[r] = "write" /\ known[r] => InTable(feed[r], station[r])

\* A run that got to its end stored, with a type, of the stations that its Chinese
\* pages listed, those that the feed's table in the code lists, whatever other runs
\* did meanwhile; the others it left out, ending as if nothing had happened.
DoneMeansStored ==
    \A r \in Runs : pc[r] = "done" =>
        \A f \in Feeds : \A s \in pages[r][f]["cn"] :
            InTable(f, s) /\ Typed(db[f][s]) <=> s \in Listed[f]

\* The Chinese page blanks the English names of a row; a run that got to its end
\* has put back the names of every station of its English page, unless another
\* run has recorded the Chinese page of that station since.
DoneMeansTranslated ==
    \A r \in Runs : pc[r] = "done" =>
        \A f \in Feeds : \A s \in pages[r][f]["en"] :
            owner[f][s] = r => db[f][s].en = "text"

\* A row without a type (the row that the app skips) has one origin: the English
\* page of a run listed a station that the Chinese page of that run did not.
UntypedIsEnglishOnly ==
    \A f \in Feeds, s \in Stations :
        InTable(f, s) /\ ~Typed(db[f][s]) =>
            /\ f \in Bilingual
            /\ \E r \in Runs : s \in pages[r][f]["en"] \ pages[r][f]["cn"]

\* Between checkData and the write another run may store the station.  An INSERT
\* chosen before that never costs the row its type (without which the app skips
\* it), though that of the English page sets none: the key is taken by then, and
\* the run ends.
TypeNeverLost ==
    [][\A f \in Feeds, s \in Stations :
           InTable(f, s) /\ Typed(db[f][s]) => InTable(f, s)' /\ Typed(db'[f][s])]_vars

\* Runs that follow one another never put an older version over a newer one.
VersionsOnlyGrow ==
    [][~Overlap => \A f \in Feeds, s \in Stations :
           InTable(f, s) => db'[f][s].cn >= db[f][s].cn]_vars
=============================================================================
