------------------------ MODULE QueryServer_proofs ------------------------
(***************************************************************************)
(* For all feeds, types and selections: what index.php serves was crawled, *)
(* and, while runs of the crawler follow one another, is no newer than the *)
(* tables and no older than what it served before.  A row without a type   *)
(* is served only where the English page alone has the station.  The       *)
(* crawler does not notice the server: its own theorems hold beside it.    *)
(***************************************************************************)
EXTENDS QueryServerInv, Crawler_proofs

\* The server only reads: beside it the crawler does what it does alone.
THEOREM ServiceIsCrawler == ServiceSpec => Spec
<1>1. ServiceInit => Init
  BY DEF ServiceInit
<1>2. [ServiceNext]_<<vars, serverVars>> => [Next]_vars
  BY DEF ServiceNext
<1> QED
  BY <1>1, <1>2, PTL DEF ServiceSpec, Spec

-----------------------------------------------------------------------------
(***************************************************************************)
(* What a success is made of.                                              *)
(***************************************************************************)
LEMMA EmptyTable == NoTable \in Tables
BY DEF NoTable, Tables

\* The tables of the crawler have the types of those that are served.
LEMMA CrawledTable == ASSUME TypeOK, NEW f \in created PROVE Table(f) \in Tables /\ f \in Feeds
<1>1. f \in Feeds
  BY DEF TypeOK
<1>2. \A s \in Stations : db[f][s].cn \in 0 .. MaxVer \cup {None}
  BY <1>1 DEF TypeOK, Row, NoRow
<1> QED
  BY <1>1, <1>2 DEF Table, Tables

\* What is told is a table of some types; that of no type is one.
LEMMA SomeTables ==
    /\ \A t \in TablesOfSome : /\ DOMAIN t \subseteq Types
                               /\ \A f \in DOMAIN t : t[f] \in Tables
                               /\ t \in [DOMAIN t -> Tables]
    /\ \A D \in SUBSET Types : \A t \in [D -> Tables] : t \in TablesOfSome
    /\ Nothing \in TablesOfSome /\ DOMAIN Nothing = {}
<1>1. Nothing \in [{} -> Tables] /\ DOMAIN Nothing = {}
  BY DEF Nothing
<1>2. \A D \in SUBSET Types : \A t \in [D -> Tables] : t \in TablesOfSome
  BY DEF TablesOfSome
<1>3. \A t \in TablesOfSome : \E D \in SUBSET Types : t \in [D -> Tables]
  BY DEF TablesOfSome
<1> QED
  BY <1>1, <1>2, <1>3

LEMMA ServerInvInit == ServiceInit => ServerInv
<1> SUFFICES ASSUME ServiceInit PROVE ServerInv
  OBVIOUS
<1> QED
  BY EmptyTable, SomeTables
  DEF ServiceInit, ServerInit, ServerInv, ServerTypeOK, SelectedSoFar, ServedMeansCrawled,
      Running

\* A script that is not running has selected nothing.
LEMMA NothingYet ==
    ASSUME ServerInv, NEW q \in Scripts, ~Running(q)
    PROVE  DOMAIN body[q] = {}
BY DEF ServerInv, SelectedSoFar, Running

\* The end of a script leaves it as it was before it started.
LEMMA EndStep ==
    ASSUME TypeOK, ServerInv, NEW q \in Scripts, End(q), created' = created,
           latest' \in [Types -> Tables]
    PROVE  ServerInv'
<1>1. \A p \in Scripts :
          /\ asked'[p] = IF p = q THEN {} ELSE asked[p]
          /\ todo'[p] = IF p = q THEN {} ELSE todo[p]
          /\ body'[p] = IF p = q THEN Nothing ELSE body[p]
          /\ seen'[p] = IF p = q THEN Nothing ELSE seen[p]
  BY DEF End, ServerInv, ServerTypeOK
<1>2. ServerTypeOK'
  BY <1>1, SomeTables DEF End, ServerInv, ServerTypeOK
<1>3. SelectedSoFar' /\ ServedMeansCrawled'
  BY <1>1, SomeTables DEF ServerInv, SelectedSoFar, ServedMeansCrawled, Running
<1> QED
  BY <1>2, <1>3 DEF ServerInv

\* Every step keeps what is selected and what is served.
LEMMA ServerInvStep ==
    TypeOK /\ ServerInv /\ [ServiceNext]_<<vars, serverVars>> => ServerInv'
<1> SUFFICES ASSUME TypeOK, ServerInv, [ServiceNext]_<<vars, serverVars>>
             PROVE  ServerInv'
  OBVIOUS
<1>1. CASE Next /\ UNCHANGED serverVars
  <2>1. created \subseteq created'
    BY <1>1 DEF Next, Publish, Start, Work, CreateTables, PickFeed, NextGroup, Fetch,
                Check, Insert, Update, Collide, EndPage, Fail, Step, tableVars
  <2>2. UNCHANGED <<asked, todo, body, seen, latest>>
    BY <1>1 DEF serverVars, scriptVars
  <2> QED
    BY <2>1, <2>2 DEF ServerInv, ServerTypeOK, SelectedSoFar, ServedMeansCrawled, Running
<1>2. ASSUME NEW q \in Scripts, Ask(q), UNCHANGED vars PROVE ServerInv'
  <2> PICK types \in Asked :
          /\ asked' = [asked EXCEPT ![q] = types]
          /\ todo' = [todo EXCEPT ![q] = types]
          /\ seen' = [seen EXCEPT ![q] = [f \in types |-> latest[f]]]
    BY <1>2 DEF Ask
  <2>1. types \subseteq Types /\ types # {}
    BY TypesAssumption
  <2>2. [f \in types |-> latest[f]] \in [types -> Tables]
    BY <2>1 DEF ServerInv, ServerTypeOK
  <2>3. [f \in types |-> latest[f]] \in TablesOfSome
    BY <2>1, <2>2, SomeTables
  <2>4. UNCHANGED <<body, latest, created>> /\ DOMAIN body[q] = {}
    BY <1>2, NothingYet DEF Ask, vars, tableVars
  <2>5. ServerTypeOK'
    BY <2>1, <2>3, <2>4 DEF ServerInv, ServerTypeOK
  <2>6. SelectedSoFar' /\ ServedMeansCrawled'
    BY <2>1, <2>4
    DEF ServerInv, ServerTypeOK, SelectedSoFar, ServedMeansCrawled, Running
  <2> QED
    BY <2>5, <2>6 DEF ServerInv
<1>3. ASSUME NEW q \in Scripts, Select(q), UNCHANGED vars PROVE ServerInv'
  <2> PICK f \in todo[q] \cap created :
          /\ todo' = [todo EXCEPT ![q] = @ \ {f}]
          /\ body' = [body EXCEPT ![q] = With(@, f, Table(f))]
          /\ seen' = [seen EXCEPT ![q] = [g \in todo[q] \ {f} |-> seen[q][g]]]
    BY <1>3 DEF Select
  <2>1. UNCHANGED <<asked, latest, created>>
    BY <1>3 DEF Select, vars, tableVars
  <2>2. body[q] \in TablesOfSome /\ seen[q] \in TablesOfSome /\ f \in Types
        /\ todo[q] \subseteq asked[q] /\ asked[q] \subseteq Types /\ DOMAIN seen[q] = todo[q]
    BY DEF ServerInv, ServerTypeOK
  <2>3. DOMAIN With(body[q], f, Table(f)) = DOMAIN body[q] \cup {f}
    BY DEF With
  <2>4. With(body[q], f, Table(f)) \in [DOMAIN body[q] \cup {f} -> Tables]
    BY <2>2, CrawledTable, SomeTables DEF With
  <2>5. With(body[q], f, Table(f)) \in TablesOfSome
    BY <2>2, <2>4, SomeTables
  <2>6. [g \in todo[q] \ {f} |-> seen[q][g]] \in [todo[q] \ {f} -> Tables]
    BY <2>2, SomeTables
  <2>7. [g \in todo[q] \ {f} |-> seen[q][g]] \in TablesOfSome
    BY <2>2, <2>6, SomeTables
  <2>8. ServerTypeOK'
    BY <2>1, <2>2, <2>5, <2>7 DEF ServerInv, ServerTypeOK
  <2>9. SelectedSoFar'
    BY <2>1, <2>2, <2>3 DEF ServerInv, ServerTypeOK, SelectedSoFar
  <2>10. ServedMeansCrawled'
    BY <2>1, <2>9 DEF ServerInv, ServerTypeOK, SelectedSoFar, ServedMeansCrawled, Running,
                      TypeOK
  <2> QED
    BY <2>8, <2>9, <2>10 DEF ServerInv
<1>4. ASSUME NEW q \in Scripts, SelectFails(q) \/ Respond(q), UNCHANGED vars
      PROVE  ServerInv'
  <2>1. End(q) /\ created' = created
    BY <1>4 DEF SelectFails, Respond, vars, tableVars
  <2>2. body[q] \in TablesOfSome /\ latest \in [Types -> Tables]
    BY DEF ServerInv, ServerTypeOK
  <2>3. latest' \in [Types -> Tables]
    BY <1>4, <2>2, SomeTables DEF SelectFails, Respond, Latest
  <2> QED
    BY <2>1, <2>3, EndStep
<1>5. CASE UNCHANGED <<vars, serverVars>>
  BY <1>5 DEF vars, tableVars, serverVars, scriptVars, ServerInv, ServerTypeOK,
              SelectedSoFar, ServedMeansCrawled, Running
<1> QED
  BY <1>1, <1>2, <1>3, <1>4, <1>5 DEF ServiceNext, Serve

\* What the scripts have selected, and every success, comes from tables that exist.
THEOREM ServerInvariant == ServiceSpec => []ServerInv
<1>1. CrawlInv => TypeOK
  BY DEF CrawlInv
<1> QED
  BY <1>1, ServiceIsCrawler, CrawlInvariant, ServerInvInit, ServerInvStep, PTL
  DEF ServiceSpec

\* The server keeps its types.
THEOREM ServerTypeCorrect == ServiceSpec => []ServerTypeOK
<1>1. ServerInv => ServerTypeOK
  BY DEF ServerInv
<1> QED
  BY <1>1, ServerInvariant, PTL

\* A type that no feed fills, like UBike_TP, is never part of a success.
THEOREM ServedCrawled == ServiceSpec => []ServedMeansCrawled
<1>1. ServerInv => ServedMeansCrawled
  BY DEF ServerInv
<1> QED
  BY <1>1, ServerInvariant, PTL

-----------------------------------------------------------------------------
(***************************************************************************)
(* What the app was told before.                                           *)
(***************************************************************************)

\* Tables are ordered by what they have.
LEMMA NotOlderIsOrder ==
    ASSUME NEW t1 \in Tables, NEW t2 \in Tables, NEW t3 \in Tables
    PROVE  /\ NotOlder(t1, t1)
           /\ NotOlder(NoTable, t1)
           /\ NotOlder(t1, t2) /\ NotOlder(t2, t3) => NotOlder(t1, t3)
<1>1. \A t \in Tables, s \in Stations : Told(t, s) => t[s] \in Int
  BY VersionAssumption DEF Tables, Told
<1>2. \A s \in Stations : ~Told(NoTable, s)
  BY DEF Told, NoTable
<1> QED
  BY <1>1, <1>2 DEF NotOlder

\* A row is told if it is there.
LEMMA ToldIsThere ==
    ASSUME TypeOK, NEW f \in Feeds, NEW s \in Stations
    PROVE  /\ Told(Table(f), s) <=> InTable(f, s)
           /\ Table(f)[s] = db[f][s].cn
<1>1. Table(f)[s] = db[f][s].cn /\ db[f][s] \in Row \cup {NoRow}
  BY DEF Table, TypeOK
<1>2. \A row \in Row : row.cn # None /\ row # NoRow
  BY NoneAssumption, RowIsThere DEF Row
<1>3. NoRow.cn = None
  BY DEF NoRow
<1> QED
  BY <1>1, <1>2, <1>3 DEF Told, InTable

\* The crawler only adds to the tables.
LEMMA CrawlerAdds ==
    ASSUME CrawlSerialInv, [Next]_vars, ~Overlap, NEW f \in Feeds, NEW old \in Tables,
           NotOlder(old, Table(f))
    PROVE  NotOlder(old, Table(f)')
<1>1. TypeOK /\ TypeOK'
  BY SerialStep DEF CrawlSerialInv, CrawlInv
<1> SUFFICES ASSUME NEW s \in Stations, Told(old, s)
             PROVE  Table(f)'[s] # None /\ old[s] <= Table(f)'[s]
  BY DEF NotOlder, Told
<1>2. InTable(f, s) /\ old[s] <= db[f][s].cn
  BY <1>1, ToldIsThere DEF NotOlder
<1>3. InTable(f, s)'
  BY <1>2, RowsStay DEF CrawlSerialInv, CrawlInv
<1>4. db'[f][s].cn >= db[f][s].cn
  BY <1>2, VersionsStep
<1>5. db[f][s].cn \in Int /\ db'[f][s] \in Row /\ db'[f][s].cn \in 0 .. MaxVer /\ old[s] \in Int
  BY <1>1, <1>2, <1>3, VersionAssumption DEF TypeOK, InTable, Row, Tables, Told
<1>6. Table(f)'[s] = db'[f][s].cn
  BY DEF Table
<1> QED
  BY <1>2, <1>4, <1>5, <1>6, NoneAssumption, VersionAssumption

\* Nothing has been told yet.
LEMMA PastInit == ServiceInit => PastInv
BY TypesAssumption
DEF ServiceInit, ServerInit, PastInv, BodyIsPast, SeenIsPast, RepliesArePast, NotOlder,
    Nothing, NoTable, Told

\* The tables as they are have the types of those that were told.
LEMMA PastTypes ==
    ASSUME TypeOK, ServerInv
    PROVE  /\ \A f \in Feeds : Table(f) \in Tables /\ latest[f] \in Tables
           /\ \A q \in Scripts : /\ DOMAIN body[q] \subseteq Feeds
                                 /\ \A f \in DOMAIN body[q] : body[q][f] \in Tables
                                 /\ \A f \in todo[q] : seen[q][f] \in Tables
<1>1. \A f \in Feeds, s \in Stations : db[f][s].cn \in 0 .. MaxVer \cup {None}
  BY DEF TypeOK, Row, NoRow
<1>2. \A f \in Feeds : Table(f) \in Tables
  BY <1>1 DEF Table, Tables
<1>3. \A q \in Scripts : body[q] \in TablesOfSome /\ seen[q] \in TablesOfSome
                         /\ DOMAIN seen[q] = todo[q] /\ DOMAIN body[q] \subseteq created
  BY DEF ServerInv, ServerTypeOK, SelectedSoFar
<1> QED
  BY <1>2, <1>3, SomeTables, TypesAssumption DEF ServerInv, ServerTypeOK, TypeOK

\* The crawler takes nothing back, and a script takes what is there.
LEMMA PastStep ==
    CrawlSerialInv /\ ServerInv /\ PastInv /\ [ServiceNext]_<<vars, serverVars>>
        => PastInv'
<1> SUFFICES ASSUME CrawlSerialInv, ServerInv, PastInv,
                    [ServiceNext]_<<vars, serverVars>>, ~Overlap
             PROVE  BodyIsPast' /\ SeenIsPast' /\ \A f \in Feeds : NotOlder(latest[f], Table(f))'
  BY DEF PastInv, RepliesArePast
<1>0. TypeOK /\ BodyIsPast /\ SeenIsPast /\ \A f \in Feeds : NotOlder(latest[f], Table(f))
  BY DEF PastInv, RepliesArePast, CrawlSerialInv, CrawlInv
<1>1. /\ \A f \in Feeds : Table(f) \in Tables /\ latest[f] \in Tables
      /\ \A q \in Scripts : /\ DOMAIN body[q] \subseteq Feeds
                            /\ \A f \in DOMAIN body[q] : body[q][f] \in Tables
                            /\ \A f \in todo[q] : seen[q][f] \in Tables
  BY <1>0, PastTypes
<1>2. /\ asked \in [Scripts -> SUBSET Types] /\ todo \in [Scripts -> SUBSET Types]
      /\ body \in [Scripts -> TablesOfSome] /\ seen \in [Scripts -> TablesOfSome]
  BY DEF ServerInv, ServerTypeOK
<1>3. ASSUME db' = db, NEW q \in Scripts,
             \A p \in Scripts \ {q} : body'[p] = body[p] /\ seen'[p] = seen[p] /\ todo'[p] = todo[p],
             \A f \in DOMAIN body'[q] : NotOlder(body'[q][f], Table(f)),
             \A f \in todo'[q] \cap Feeds : NotOlder(seen'[q][f], Table(f)),
             \A f \in Feeds : NotOlder(latest'[f], Table(f))
      PROVE  BodyIsPast' /\ SeenIsPast' /\ \A f \in Feeds : NotOlder(latest[f], Table(f))'
  <2>1. \A f \in Feeds \cup Types : Table(f)' = Table(f)
    BY <1>3 DEF Table
  <2>2. ASSUME NEW p \in Scripts, NEW f \in DOMAIN body'[p]
        PROVE  NotOlder(body'[p][f], Table(f)')
    <3>1. Table(f)' = Table(f)
      BY <1>3 DEF Table
    <3>2. NotOlder(body'[p][f], Table(f))
      BY <1>0, <1>3 DEF BodyIsPast
    <3> QED
      BY <3>1, <3>2
  <2>3. ASSUME NEW p \in Scripts, NEW f \in todo'[p] \cap Feeds
        PROVE  NotOlder(seen'[p][f], Table(f)')
    BY <1>0, <1>3, <2>1 DEF SeenIsPast
  <2> QED
    BY <1>3, <2>1, <2>2, <2>3 DEF BodyIsPast, SeenIsPast, NotOlder
<1>4. CASE Next /\ UNCHANGED serverVars
  <2>1. UNCHANGED <<todo, body, seen, latest>> /\ [Next]_vars
    BY <1>4 DEF serverVars, scriptVars
  <2>2. \A f \in Feeds, old \in Tables : NotOlder(old, Table(f)) => NotOlder(old, Table(f)')
    BY <2>1, CrawlerAdds
  <2>3. BodyIsPast'
    BY <1>0, <1>1, <2>1, <2>2 DEF BodyIsPast, NotOlder
  <2>4. SeenIsPast'
    BY <1>0, <1>1, <2>1, <2>2 DEF SeenIsPast, NotOlder
  <2>5. \A f \in Feeds : NotOlder(latest[f], Table(f))'
    BY <1>0, <1>1, <2>1, <2>2 DEF NotOlder
  <2> QED
    BY <2>3, <2>4, <2>5
<1>5. ASSUME NEW q \in Scripts, Ask(q), UNCHANGED vars
      PROVE  BodyIsPast' /\ SeenIsPast' /\ \A f \in Feeds : NotOlder(latest[f], Table(f))'
  <2>1. PICK types \in Asked :
            /\ todo' = [todo EXCEPT ![q] = types]
            /\ seen' = [seen EXCEPT ![q] = [f \in types |-> latest[f]]]
    BY <1>5 DEF Ask
  <2>2. UNCHANGED <<db, body, latest>>
    BY <1>5 DEF Ask, vars, tableVars
  <2>3. \A f \in todo'[q] \cap Feeds : NotOlder(seen'[q][f], Table(f))
    BY <1>0, <1>2, <2>1
  <2> QED
    BY <1>0, <1>2, <1>3, <2>1, <2>2, <2>3 DEF BodyIsPast
<1>6. ASSUME NEW q \in Scripts, Select(q), UNCHANGED vars
      PROVE  BodyIsPast' /\ SeenIsPast' /\ \A f \in Feeds : NotOlder(latest[f], Table(f))'
  <2>1. PICK f \in todo[q] \cap created :
            /\ todo' = [todo EXCEPT ![q] = @ \ {f}]
            /\ body' = [body EXCEPT ![q] = With(@, f, Table(f))]
            /\ seen' = [seen EXCEPT ![q] = [g \in todo[q] \ {f} |-> seen[q][g]]]
    BY <1>6 DEF Select
  <2>2. UNCHANGED <<db, latest>> /\ f \in Feeds
    BY <1>0, <1>6 DEF Select, vars, tableVars, TypeOK
  <2>3. NotOlder(Table(f), Table(f))
    BY <1>1, <2>2, NotOlderIsOrder
  <2>4. \A g \in DOMAIN body'[q] : NotOlder(body'[q][g], Table(g))
    BY <1>0, <1>2, <2>1, <2>3 DEF With, BodyIsPast
  <2>5. \A g \in todo'[q] \cap Feeds : NotOlder(seen'[q][g], Table(g))
    BY <1>0, <1>2, <2>1 DEF SeenIsPast
  <2> QED
    BY <1>0, <1>2, <1>3, <2>1, <2>2, <2>4, <2>5
<1>7. ASSUME NEW q \in Scripts, SelectFails(q) \/ Respond(q), UNCHANGED vars
      PROVE  BodyIsPast' /\ SeenIsPast' /\ \A f \in Feeds : NotOlder(latest[f], Table(f))'
  <2>1. End(q) /\ db' = db
    BY <1>7 DEF SelectFails, Respond, vars, tableVars
  <2>2. \A f \in Feeds : NotOlder(latest'[f], Table(f))
    BY <1>0, <1>7, TypesAssumption DEF SelectFails, Respond, Latest, BodyIsPast
  <2>3. DOMAIN body'[q] = {} /\ todo'[q] = {}
    BY <1>2, <2>1, SomeTables DEF End
  <2>4. \A p \in Scripts \ {q} : body'[p] = body[p] /\ seen'[p] = seen[p] /\ todo'[p] = todo[p]
    BY <1>2, <2>1 DEF End
  <2> QED
    BY <1>3, <2>1, <2>2, <2>3, <2>4
<1>8. CASE UNCHANGED <<vars, serverVars>>
  <2>1. UNCHANGED <<db, body, todo, seen, latest>>
    BY <1>8 DEF vars, tableVars, serverVars, scriptVars
  <2> QED
    BY <1>0, <2>1 DEF BodyIsPast, SeenIsPast, NotOlder, Table
<1> QED
  BY <1>4, <1>5, <1>6, <1>7, <1>8 DEF ServiceNext, Serve

\* What is being selected, and what the app was told, is past.
THEOREM PastInvariant == ServiceSpec => []PastInv
<1> QED
  BY ServiceIsCrawler, CrawlSerialInvariant, ServerInvariant, PastInit, PastStep, PTL
  DEF ServiceSpec

\* What the app was last told is no newer than what the crawler has stored.
THEOREM ServedPast == ServiceSpec => []RepliesArePast
<1>1. PastInv => RepliesArePast
  BY DEF PastInv, RepliesArePast
<1> QED
  BY <1>1, PastInvariant, PTL

\* A table that goes into a reply has what the app had been told of it when it asked.
THEOREM ServedGrows == ServiceSpec => RepliesOnlyGrow
<1> DEFINE Grow == ~Overlap => \A q \in Scripts : Select(q) =>
                       \A f \in todo[q] \ todo'[q] : NotOlder(seen[q][f], body'[q][f])
<1>1. CrawlSerialInv /\ ServerInv /\ PastInv => Grow
  <2> SUFFICES ASSUME CrawlSerialInv, ServerInv, PastInv, ~Overlap, NEW q \in Scripts, Select(q),
                      NEW f \in todo[q] \ todo'[q]
               PROVE  NotOlder(seen[q][f], body'[q][f])
    OBVIOUS
  <2>1. PICK g \in todo[q] \cap created :
            /\ todo' = [todo EXCEPT ![q] = @ \ {g}]
            /\ body' = [body EXCEPT ![q] = With(@, g, Table(g))]
    BY DEF Select
  <2>2. g = f /\ f \in Feeds /\ body'[q][f] = Table(f)
    BY <2>1 DEF ServerInv, ServerTypeOK, CrawlSerialInv, CrawlInv, TypeOK, With
  <2> QED
    BY <2>2 DEF PastInv, SeenIsPast
<1> QED
  BY <1>1, ServiceIsCrawler, CrawlSerialInvariant, ServerInvariant, PastInvariant, PTL
  DEF ServiceSpec, RepliesOnlyGrow

-----------------------------------------------------------------------------
(***************************************************************************)
(* Rows without a type.                                                    *)
(***************************************************************************)

\* Some run found the station on the English page of the feed, and not on the
\* Chinese one.
EnglishOnly(f, s) ==
    /\ f \in Bilingual
    /\ \E r \in Runs : s \in pages[r][f]["en"] \ pages[r][f]["cn"]

UntypedIn(table, f) ==
    \A s \in Stations : table[s] = 0 => EnglishOnly(f, s)

UntypedInv ==
    /\ \A q \in Scripts : \A f \in DOMAIN body[q] : UntypedIn(body[q][f], f)
    /\ \A f \in Types : UntypedIn(latest[f], f)

\* A page that was read is never read again: what it showed stays true.
LEMMA EnglishOnlyStays ==
    ASSUME CrawlInv, [Next]_vars, NEW f, NEW s \in Stations, EnglishOnly(f, s)
    PROVE  EnglishOnly(f, s)'
<1>0. f \in Feeds
  BY FeedsAssumption DEF EnglishOnly
<1>1. PICK q \in Runs : s \in pages[q][f]["en"] \ pages[q][f]["cn"]
  BY DEF EnglishOnly
<1>2. CASE UNCHANGED pages
  BY <1>2 DEF EnglishOnly
<1>3. ASSUME NEW r \in Runs, NEW page \in SUBSET Stations, Reads(r, page)
      PROVE  EnglishOnly(f, s)'
  <2>1. ~(q = r /\ f = feed[r])
    BY <1>1, <1>3 DEF CrawlInv, Reads, PlaceInv, FeedInHand, InFeed
  <2>2. s \in pages'[q][f]["en"] \ pages'[q][f]["cn"]
    BY <1>0, <1>1, <1>3, <2>1 DEF Reads, InHandIs, Passes
  <2> QED
    BY <2>2 DEF EnglishOnly
<1> QED
  BY <1>2, <1>3, ThreeSteps DEF CrawlInv, Quiet, Records

\* A table of the crawler has an untyped row only where the invariant allows it.
LEMMA TablesUntyped ==
    ASSUME CrawlInv, NEW f \in created
    PROVE  UntypedIn(Table(f), f)
<1> SUFFICES ASSUME NEW s \in Stations, Table(f)[s] = 0 PROVE EnglishOnly(f, s)
  BY DEF UntypedIn
<1>1. f \in Feeds /\ db[f][s].cn = 0
  BY DEF CrawlInv, TypeOK, Table
<1>2. InTable(f, s)
  BY <1>1, NoneAssumption, VersionAssumption DEF InTable, NoRow
<1> QED
  BY <1>1, <1>2 DEF CrawlInv, UntypedIsEnglishOnly, EnglishOnly, Typed

LEMMA UntypedInit == ServiceInit => UntypedInv
<1>1. None # 0
  BY NoneAssumption, VersionAssumption
<1> QED
  BY <1>1 DEF ServiceInit, ServerInit, UntypedInv, UntypedIn, Nothing, NoTable

\* A script serves what the crawler has stored.
LEMMA UntypedServedStep ==
    CrawlInv /\ ServerInv /\ UntypedInv /\ [ServiceNext]_<<vars, serverVars>>
        => UntypedInv'
<1> SUFFICES ASSUME CrawlInv, ServerInv, UntypedInv, [ServiceNext]_<<vars, serverVars>>
             PROVE  UntypedInv'
  OBVIOUS
<1>0. /\ todo \in [Scripts -> SUBSET Types] /\ body \in [Scripts -> TablesOfSome]
  BY DEF ServerInv, ServerTypeOK
<1>1. CASE Next /\ UNCHANGED serverVars
  <2>1. \A f, s : s \in Stations /\ EnglishOnly(f, s) => EnglishOnly(f, s)'
    BY <1>1, EnglishOnlyStays
  <2>2. body' = body /\ latest' = latest
    BY <1>1 DEF serverVars, scriptVars
  <2> QED
    BY <2>1, <2>2 DEF UntypedInv, UntypedIn
<1>2. ASSUME pages' = pages,
             \A q \in Scripts : \A f \in DOMAIN body'[q] : UntypedIn(body'[q][f], f),
             \A f \in Types : UntypedIn(latest'[f], f)
      PROVE  UntypedInv'
  BY <1>2 DEF UntypedInv, UntypedIn, EnglishOnly
<1>3. ASSUME NEW q \in Scripts, UNCHANGED vars,
             Ask(q) \/ Select(q) \/ SelectFails(q) \/ Respond(q)
      PROVE  UntypedInv'
  <2>1. pages' = pages
    BY <1>3 DEF vars, pageVars
  <2>2. CASE Ask(q)
    BY <1>2, <2>1, <2>2 DEF Ask, UntypedInv
  <2>3. CASE Select(q)
    <3>1. PICK f \in todo[q] \cap created : body' = [body EXCEPT ![q] = With(@, f, Table(f))]
      BY <2>3 DEF Select
    <3>2. \A p \in Scripts : \A g \in DOMAIN body'[p] : UntypedIn(body'[p][g], g)
      BY <1>0, <3>1, TablesUntyped DEF With, UntypedInv
    <3> QED
      BY <1>2, <2>1, <2>3, <3>2 DEF Select, UntypedInv
  <2>4. CASE SelectFails(q) \/ Respond(q)
    <3>1. \A p \in Scripts : body'[p] = IF p = q THEN Nothing ELSE body[p]
      BY <1>0, <2>4 DEF SelectFails, Respond, End
    <3>2. \A p \in Scripts : \A g \in DOMAIN body'[p] : UntypedIn(body'[p][g], g)
      BY <3>1, SomeTables DEF UntypedInv
    <3>3. \A f \in Types : UntypedIn(latest'[f], f)
      BY <2>4 DEF SelectFails, Respond, Latest, UntypedInv
    <3> QED
      BY <1>2, <2>1, <3>2, <3>3
  <2> QED
    BY <1>3, <2>2, <2>3, <2>4
<1>4. CASE UNCHANGED <<vars, serverVars>>
  BY <1>4 DEF vars, pageVars, serverVars, scriptVars, UntypedInv, UntypedIn, EnglishOnly
<1> QED
  BY <1>1, <1>3, <1>4 DEF ServiceNext, Serve

\* A row without a type is served only for a station that the English page of
\* some run had, and the Chinese one had not.
THEOREM ServedUntyped == ServiceSpec => []UntypedToldIsEnglishOnly
<1>1. UntypedInv => UntypedToldIsEnglishOnly
  BY DEF UntypedInv, UntypedIn, EnglishOnly, UntypedToldIsEnglishOnly
<1> QED
  BY <1>1, ServiceIsCrawler, CrawlInvariant, ServerInvariant, UntypedInit,
     UntypedServedStep, PTL DEF ServiceSpec
=============================================================================
