-------------------------- MODULE Crawler_proofs --------------------------
(***************************************************************************)
(* For all runs, feeds, stations and pages, and however the runs overlap:  *)
(* a run that ends has stored and translated what it read, and a row       *)
(* without a type has one origin; no step takes a type away.  When runs    *)
(* follow one another, versions only grow.                                 *)
(***************************************************************************)
EXTENDS CrawlerInv, TLAPS

-----------------------------------------------------------------------------
(***************************************************************************)
(* Types.                                                                  *)
(***************************************************************************)

\* A row is not the absence of a row, and neither is what an update makes of it.
LEMMA RowIsThere ==
    /\ NoRow \notin Row
    /\ \A row \in Row : row # NoRow
    /\ \A c \in 0 .. MaxVer, e \in {"blank", "text"} : [cn |-> c, en |-> e] # NoRow
BY NoneAssumption DEF NoRow, Row

\* The feed, the page and the station in hand exist.
LEMMA InHand ==
    ASSUME TypeOK, PlaceInv, NEW r \in Runs
    PROVE  /\ InFeed(r) => feed[r] \in Feeds
           /\ pc[r] = "write" => station[r] \in Stations /\ ver[r] \in 1 .. MaxVer
<1>1. InFeed(r) => feed[r] \in Feeds
  BY DEF PlaceInv, FeedInHand
<1>2. ASSUME pc[r] = "write" PROVE station[r] \in Stations /\ ver[r] \in 1 .. MaxVer
  <2>1. feed[r] \in Feeds
    BY <1>1, <1>2 DEF InFeed
  <2>2. pages[r][feed[r]][pass[r]] \subseteq Stations
    BY <2>1 DEF TypeOK
  <2>3. station[r] \in pages[r][feed[r]][pass[r]] /\ ver[r] # 0
    BY <1>2 DEF PlaceInv, PageInHand, PageOf, ToRecordOf, Recording
  <2>4. ver[r] \in 0 .. MaxVer /\ MaxVer \in Nat
    BY VersionAssumption DEF TypeOK
  <2> QED
    BY <2>2, <2>3, <2>4
<1> QED
  BY <1>1, <1>2

\* What recording a station does: a Chinese page sets the version and makes the
\* run the owner; an English page sets the text and keeps the version.
Recorded(r, row) ==
    /\ db' = [db EXCEPT ![feed[r]][station[r]] = row]
    /\ \/ /\ pass[r] = "cn"
          /\ row.cn = ver[r]
          /\ owner' = [owner EXCEPT ![feed[r]][station[r]] = r]
       \/ /\ pass[r] = "en"
          /\ row.en = "text"
          /\ row.cn = IF InTable(feed[r], station[r])
                      THEN db[feed[r]][station[r]].cn ELSE 0
          /\ owner' = owner
    /\ pc[r] = "write"
    /\ pc' = [pc EXCEPT ![r] = "record"]
    /\ UNCHANGED <<now, created, group, feedsLeft, feed, pass, pages, ver, left,
                   station, known>>

\* Insert and Update, whichever page is in hand.
LEMMA WriteStep ==
    ASSUME TypeOK, PlaceInv, UpdateHitsRow, NEW r \in Runs, Insert(r) \/ Update(r)
    PROVE  \E row \in Row : Recorded(r, row)
<1> DEFINE f == feed[r]
           s == station[r]
<1> USE DEF placeVars, pageVars, checkVars
<1>1. pc[r] = "write" /\ f \in Feeds /\ s \in Stations /\ ver[r] \in 1 .. MaxVer
  BY InHand DEF Insert, Update, Step, InFeed
<1>2. ChineseRow(r) \in Row /\ ChineseRow(r).cn = ver[r]
  BY <1>1 DEF ChineseRow, Row
<1>3. CASE pass[r] = "cn"
  <2>1. Recorded(r, ChineseRow(r))
    BY <1>1, <1>2, <1>3 DEF Insert, Update, Step, Recorded
  <2> QED
    BY <1>2, <2>1
<1>4. CASE pass[r] = "en" /\ Insert(r)
  <2> DEFINE new == [cn |-> 0, en |-> "text"]
  <2>1. new \in Row
    BY VersionAssumption DEF Row
  <2>2. Recorded(r, new)
    BY <1>1, <1>4 DEF Insert, Step, Recorded
  <2> QED
    BY <2>1, <2>2
<1>5. CASE pass[r] = "en" /\ Update(r)
  <2> DEFINE new == [db[f][s] EXCEPT !.en = "text"]
  <2>1. InTable(f, s) /\ db[f][s] \in Row
    BY <1>1, <1>5 DEF Update, UpdateHitsRow, InTable, TypeOK
  <2>2. new \in Row /\ new.en = "text" /\ new.cn = db[f][s].cn
    BY <2>1 DEF Row
  <2>3. db' = [db EXCEPT ![f][s] = new]
    BY <1>1, <1>5 DEF Update, TypeOK
  <2>4. Recorded(r, new)
    BY <1>1, <1>5, <2>1, <2>2, <2>3 DEF Update, Step, Recorded
  <2> QED
    BY <2>2, <2>4
<1> QED
  BY <1>3, <1>4, <1>5 DEF TypeOK, Passes

\* The state keeps its types, step by step.
LEMMA TypeInit == Init => TypeOK
BY GroupAssumption, VersionAssumption DEF Init, TypeOK, NoPages, Passes, NoRow

\* Every step keeps the types.
LEMMA TypeStep == TypeOK /\ PlaceInv /\ UpdateHitsRow /\ [Next]_vars => TypeOK'
<1> SUFFICES ASSUME TypeOK, PlaceInv, UpdateHitsRow, [Next]_vars PROVE TypeOK'
  OBVIOUS
<1> USE DEF tableVars, placeVars, pageVars, checkVars
<1>1. CASE UNCHANGED vars
  BY <1>1 DEF vars, TypeOK
<1>2. CASE Publish
  BY <1>2, VersionAssumption DEF Publish, TypeOK
<1>3. ASSUME NEW r \in Runs, Start(r) PROVE TypeOK'
  BY <1>3 DEF Start, Step, TypeOK
<1>4. ASSUME NEW r \in Runs, CreateTables(r) PROVE TypeOK'
  BY <1>4 DEF CreateTables, Step, TypeOK, FeedsOf
<1>5. ASSUME NEW r \in Runs, PickFeed(r) PROVE TypeOK'
  BY <1>5 DEF PickFeed, Step, TypeOK, Passes
<1>6. ASSUME NEW r \in Runs, NextGroup(r) PROVE TypeOK'
  <2>1. group' \in [Runs -> 1 .. LastGroup]
    <3>1. CASE group[r] < LastGroup /\ group' = [group EXCEPT ![r] = @ + 1]
      <4>1. group[r] \in 1 .. LastGroup /\ LastGroup \in Nat
        BY GroupAssumption DEF TypeOK
      <4>2. group[r] + 1 \in 1 .. LastGroup
        BY <4>1, <3>1
      <4> QED
        BY <3>1, <4>2 DEF TypeOK
    <3>2. CASE UNCHANGED group
      BY <3>2 DEF TypeOK
    <3> QED
      BY <1>6, <3>1, <3>2 DEF NextGroup
  <2>2. pc' \in [Runs -> {"idle", "create", "pick", "fetch", "record", "write",
                          "done", "aborted"}]
    BY <1>6 DEF NextGroup, Step, TypeOK
  <2> QED
    BY <1>6, <2>1, <2>2 DEF NextGroup, Step, TypeOK
<1>7. ASSUME NEW r \in Runs, Fetch(r) PROVE TypeOK'
  <2>0. feed[r] \in Feeds
    BY <1>7, InHand DEF Fetch, Step, InFeed
  <2>1. PICK page \in Pages[feed[r]] :
            /\ pages' = [pages EXCEPT ![r][feed[r]][pass[r]] = page]
            /\ left' = [left EXCEPT ![r] = ToRecordOf(feed[r], page)]
    BY <1>7 DEF Fetch
  <2>2. page \in SUBSET Stations /\ ToRecordOf(feed[r], page) \in SUBSET Stations
    BY <2>0, FeedsAssumption DEF ToRecordOf
  <2>3. pages' \in [Runs -> [Feeds -> [Passes -> SUBSET Stations]]]
    <3> DEFINE pair == [pages[r][feed[r]] EXCEPT ![pass[r]] = page]
               read == [pages[r] EXCEPT ![feed[r]] = pair]
    <3>2. pair \in [Passes -> SUBSET Stations]
      BY <2>2, <2>0 DEF TypeOK
    <3> HIDE DEF pair
    <3>3. read \in [Feeds -> [Passes -> SUBSET Stations]]
      BY <3>2 DEF TypeOK
    <3>4. pages' = [pages EXCEPT ![r] = read]
      BY <2>1 DEF pair
    <3> HIDE DEF read
    <3> QED
      BY <3>3, <3>4 DEF TypeOK
  <2>4. left' \in [Runs -> SUBSET Stations]
    BY <2>1, <2>2 DEF TypeOK
  <2>5. now \in 0 .. MaxVer
    BY VersionAssumption DEF TypeOK
  <2>6. ver' \in [Runs -> 0 .. MaxVer]
    BY <1>7, <2>5 DEF Fetch, TypeOK
  <2> QED
    BY <1>7, <2>3, <2>4, <2>6 DEF Fetch, Step, TypeOK
<1>8. ASSUME NEW r \in Runs, Check(r) PROVE TypeOK'
  BY <1>8 DEF Check, Step, TypeOK, InTable
<1>9. ASSUME NEW r \in Runs, Insert(r) \/ Update(r) PROVE TypeOK'
  <2>1. PICK row \in Row : Recorded(r, row)
    BY <1>9, WriteStep
  <2>2. db' \in [Feeds -> [Stations -> Row \cup {NoRow}]]
    BY <2>1 DEF Recorded, TypeOK
  <2>3. owner' \in [Feeds -> [Stations -> Runs \cup {None}]]
    <3>1. CASE owner' = [owner EXCEPT ![feed[r]][station[r]] = r]
      BY <3>1 DEF TypeOK
    <3>2. CASE owner' = owner
      BY <3>2 DEF TypeOK
    <3> QED
      BY <2>1, <3>1, <3>2 DEF Recorded
  <2>4. pc' \in [Runs -> {"idle", "create", "pick", "fetch", "record", "write",
                          "done", "aborted"}]
    BY <2>1 DEF Recorded, TypeOK
  <2> QED
    BY <2>1, <2>2, <2>3, <2>4 DEF Recorded, TypeOK
<1>10. ASSUME NEW r \in Runs, Collide(r) \/ Fail(r) PROVE TypeOK'
  <2>1. /\ pc' = [pc EXCEPT ![r] = "aborted"]
        /\ Forget(r)
        /\ UNCHANGED <<now, created, db, owner, group, pages>>
    BY <1>10 DEF Collide, Fail, Step
  <2>2. 0 \in 0 .. MaxVer
    BY VersionAssumption
  <2>3. ver' \in [Runs -> 0 .. MaxVer]
    BY <2>1, <2>2 DEF Forget, TypeOK
  <2> QED
    BY <2>1, <2>3 DEF Forget, TypeOK, Passes
<1>11. ASSUME NEW r \in Runs, EndPage(r) PROVE TypeOK'
  BY <1>11 DEF EndPage, Step, TypeOK, Passes
<1> QED
  BY <1>1, <1>2, <1>3, <1>4, <1>5, <1>6, <1>7, <1>8, <1>9, <1>10, <1>11
  DEF Next, Work

-----------------------------------------------------------------------------
(***************************************************************************)
(* Where the runs are.                                                     *)
(***************************************************************************)

\* Reading a page changes one entry of pages.
LEMMA ReadPage ==
    ASSUME TypeOK, PlaceInv, NEW r \in Runs, Fetch(r)
    PROVE  \E page \in SUBSET Stations :
               /\ left' = [left EXCEPT ![r] = ToRecordOf(feed[r], page)]
               /\ \A q \in Runs, f \in Feeds, p \in Passes :
                      pages'[q][f][p] = IF q = r /\ f = feed[r] /\ p = pass[r]
                                        THEN page ELSE pages[q][f][p]
<1>1. PICK page \in Pages[feed[r]] :
          /\ pages' = [pages EXCEPT ![r][feed[r]][pass[r]] = page]
          /\ left' = [left EXCEPT ![r] = ToRecordOf(feed[r], page)]
  BY DEF Fetch
<1>2. feed[r] \in Feeds /\ pass[r] \in Passes
  BY InHand DEF Fetch, Step, InFeed, TypeOK
<1>3. page \in SUBSET Stations
  BY <1>2, FeedsAssumption
<1>4. ASSUME NEW q \in Runs, NEW f \in Feeds, NEW p \in Passes
      PROVE  pages'[q][f][p] = IF q = r /\ f = feed[r] /\ p = pass[r]
                               THEN page ELSE pages[q][f][p]
  BY <1>1, <1>2 DEF TypeOK
<1> QED
  BY <1>1, <1>3, <1>4

\* The feed and the page in hand, and the feeds still unread, step by step.
LEMMA PlaceInit == Init => PlaceInv
BY DEF Init, PlaceInv, FeedInHand, PageInHand, Unread, InFeed, Recording, NoPages, Passes

\* Every step keeps the places: the feed and page in hand, and what is unread.
LEMMA PlaceStep == TypeOK /\ PlaceInv /\ [Next]_vars => PlaceInv'
<1> SUFFICES ASSUME TypeOK, PlaceInv, [Next]_vars PROVE PlaceInv'
  OBVIOUS
<1> USE DEF tableVars, placeVars, pageVars, checkVars, PlaceInv, FeedInHand,
            PageInHand, PageOf, Unread, InFeed, Recording, NotVisited
<1>1. CASE UNCHANGED vars
  BY <1>1 DEF vars
<1>2. CASE Publish
  BY <1>2 DEF Publish
<1>3. ASSUME NEW r \in Runs, Start(r) PROVE PlaceInv'
  BY <1>3 DEF Start, Step, TypeOK
<1>4. ASSUME NEW r \in Runs, CreateTables(r) PROVE PlaceInv'
  BY <1>4 DEF CreateTables, Step, TypeOK, FeedsOf
<1>5. ASSUME NEW r \in Runs, PickFeed(r) PROVE PlaceInv'
  BY <1>5 DEF PickFeed, Step, TypeOK, Passes
<1>6. ASSUME NEW r \in Runs, NextGroup(r) PROVE PlaceInv'
  <2>1. CASE group[r] < LastGroup /\ Step(r, "pick", "create")
             /\ group' = [group EXCEPT ![r] = @ + 1]
    <3>1. \A f \in Feeds : Group[f] \in Int /\ \A q \in Runs : group[q] \in Int
      BY GroupAssumption DEF TypeOK
    <3>2. \A f \in Feeds, q \in Runs : NotVisited(q, f)' => NotVisited(q, f)
      BY <1>6, <2>1, <3>1 DEF NextGroup, Step, TypeOK
    <3> QED
      BY <1>6, <2>1, <3>2 DEF NextGroup, Step, TypeOK
  <2>2. CASE Step(r, "pick", "done") /\ UNCHANGED group
    BY <1>6, <2>2 DEF NextGroup, Step, TypeOK
  <2> QED
    BY <1>6, <2>1, <2>2 DEF NextGroup
<1>7. ASSUME NEW r \in Runs, Fetch(r) PROVE PlaceInv'
  <2>1. PICK page \in SUBSET Stations :
            /\ left' = [left EXCEPT ![r] = ToRecordOf(feed[r], page)]
            /\ \A q \in Runs, f \in Feeds, p \in Passes :
                   pages'[q][f][p] = IF q = r /\ f = feed[r] /\ p = pass[r]
                                     THEN page ELSE pages[q][f][p]
    BY <1>7, ReadPage
  <2>2. FeedInHand'
    BY <1>7, <2>1 DEF Fetch, Step, TypeOK, Passes
  <2>3. PageInHand'
    BY <1>7, <2>1, VersionAssumption DEF Fetch, Step, TypeOK, Passes
  <2>4. Unread'
    BY <1>7, <2>1, GroupAssumption DEF Fetch, Step, TypeOK, Passes
  <2> QED
    BY <2>2, <2>3, <2>4
<1>8. ASSUME NEW r \in Runs, Check(r) PROVE PlaceInv'
  BY <1>8 DEF Check, Step, TypeOK, Passes
<1>9. ASSUME NEW r \in Runs, Insert(r) \/ Update(r) PROVE PlaceInv'
  <2>1. /\ UNCHANGED <<placeVars, pageVars, checkVars>>
        /\ pc[r] = "write" /\ pc' = [pc EXCEPT ![r] = "record"]
    BY <1>9 DEF Insert, Update, Step
  <2>2. \A q \in Runs : /\ InFeed(q)' => InFeed(q)
                        /\ Recording(q)' => Recording(q)
                        /\ pc'[q] = "write" => pc[q] = "write"
                        /\ pc'[q] = "fetch" => pc[q] = "fetch"
                        /\ pc'[q] \in {"idle", "create"} => pc'[q] = pc[q]
    BY <2>1 DEF TypeOK
  <2>3. FeedInHand'
    BY <2>1, <2>2
  <2>4. PageInHand'
    BY <2>1, <2>2
  <2>5. Unread'
    BY <2>1, <2>2
  <2> QED
    BY <2>3, <2>4, <2>5
<1>10. ASSUME NEW r \in Runs, EndPage(r) PROVE PlaceInv'
  <2>1. CASE /\ feed[r] \in Bilingual /\ pass[r] = "cn"
             /\ Step(r, "record", "fetch")
             /\ pass' = [pass EXCEPT ![r] = "en"]
    BY <1>10, <2>1 DEF EndPage, Step, TypeOK, Passes
  <2>2. CASE Step(r, "record", "pick") /\ UNCHANGED pass
    BY <1>10, <2>2 DEF EndPage, Step, TypeOK, Passes
  <2> QED
    BY <1>10, <2>1, <2>2 DEF EndPage
<1>11. ASSUME NEW r \in Runs, Collide(r) \/ Fail(r) PROVE PlaceInv'
  <2>1. /\ pc' = [pc EXCEPT ![r] = "aborted"] /\ pc[r] \notin {"idle", "aborted"}
        /\ feedsLeft' = [feedsLeft EXCEPT ![r] = {}]
        /\ feed' = [feed EXCEPT ![r] = None] /\ pass' = [pass EXCEPT ![r] = "cn"]
        /\ ver' = [ver EXCEPT ![r] = 0] /\ left' = [left EXCEPT ![r] = {}]
        /\ station' = [station EXCEPT ![r] = None]
        /\ UNCHANGED <<group, pages>>
    BY <1>11 DEF Collide, Fail, Active, Forget, Step
  <2>2. FeedInHand'
    BY <2>1 DEF TypeOK
  <2>3. PageInHand'
    BY <2>1 DEF TypeOK
  <2>4. Unread'
    BY <2>1 DEF TypeOK
  <2> QED
    BY <2>2, <2>3, <2>4
<1> QED
  BY <1>1, <1>2, <1>3, <1>4, <1>5, <1>6, <1>7, <1>8, <1>9, <1>10, <1>11
  DEF Next, Work

-----------------------------------------------------------------------------
(***************************************************************************)
(* Three kinds of steps: quiet ones, which change neither the tables nor   *)
(* the pages, the reading of a page, and the recording of a station.       *)
(***************************************************************************)
Quiet ==
    /\ UNCHANGED <<db, owner, pages>>
    /\ \A r \in Runs : pc'[r] # "aborted" =>
          /\ pc[r] # "aborted"
          /\ \A f \in Feeds, p \in Passes : ToRecord(r, f, p)' = ToRecord(r, f, p)

InHandIs(r, f, p) == f = feed[r] /\ p = pass[r]

\* r reads a page.
Reads(r, page) ==
    /\ UNCHANGED <<db, owner>>
    /\ pc[r] = "fetch"
    /\ \A q \in Runs : pc'[q] = "aborted" <=> pc[q] = "aborted"
    /\ \A q \in Runs, f \in Feeds, p \in Passes :
          IF q = r /\ InHandIs(r, f, p)
          THEN pages'[q][f][p] = page /\ ToRecord(q, f, p)' = ToRecordOf(f, page)
          ELSE pages'[q][f][p] = pages[q][f][p] /\ ToRecord(q, f, p)' = ToRecord(q, f, p)

\* r records the station in hand as the row given.
Records(r, row) ==
    /\ UNCHANGED <<now, pages, ver>>
    /\ pc[r] = "write"
    /\ \A q \in Runs : Recording(q)' => Recording(q)
    /\ feed[r] \in Feeds /\ station[r] \in Stations
    /\ \A q \in Runs : pc'[q] = "aborted" <=> pc[q] = "aborted"
    /\ \A f \in Feeds, s \in Stations :
          IF f = feed[r] /\ s = station[r]
          THEN /\ db'[f][s] = row
               /\ pass[r] = "cn" => row.cn = ver[r] /\ ver[r] # 0 /\ owner'[f][s] = r
               /\ pass[r] = "en" =>
                      /\ owner'[f][s] = owner[f][s] /\ row.en = "text"
                      /\ row.cn = IF InTable(f, s) THEN db[f][s].cn ELSE 0
          ELSE db'[f][s] = db[f][s] /\ owner'[f][s] = owner[f][s]
    /\ \A q \in Runs, f \in Feeds, p \in Passes, s \in Stations :
          s \in ToRecord(q, f, p) =>
              \/ s \in ToRecord(q, f, p)'
              \/ q = r /\ InHandIs(r, f, p) /\ s = station[r]

\* Fetch reads a page, and has all of it that is listed still to record.
LEMMA FetchReads ==
    ASSUME TypeOK, PlaceInv, NEW r \in Runs, Fetch(r)
    PROVE  \E page \in SUBSET Stations : Reads(r, page)
<1>1. PICK page \in SUBSET Stations :
          /\ left' = [left EXCEPT ![r] = ToRecordOf(feed[r], page)]
          /\ \A q \in Runs, f \in Feeds, p \in Passes :
                 pages'[q][f][p] = IF q = r /\ f = feed[r] /\ p = pass[r]
                                   THEN page ELSE pages[q][f][p]
  BY ReadPage
<1>2. /\ pc[r] = "fetch" /\ pc' = [pc EXCEPT ![r] = "record"]
      /\ UNCHANGED <<db, owner, feed, pass, station>>
  BY DEF Fetch, Step, tableVars, placeVars, checkVars
<1>3. \A q \in Runs : pc'[q] = IF q = r THEN "record" ELSE pc[q]
  BY <1>2 DEF TypeOK
<1>4. ASSUME NEW q \in Runs, NEW f \in Feeds, NEW p \in Passes
      PROVE  ToRecord(q, f, p)' = IF q = r /\ InHandIs(r, f, p)
                                  THEN ToRecordOf(f, page) ELSE ToRecord(q, f, p)
  BY <1>1, <1>2, <1>3 DEF ToRecord, Pending, Recording, InHandIs, TypeOK
<1>5. Reads(r, page)
  BY <1>1, <1>2, <1>3, <1>4 DEF Reads, InHandIs
<1> QED
  BY <1>5

\* Insert and Update record the station in hand, and nothing else.
LEMMA WriteRecords ==
    ASSUME TypeOK, PlaceInv, UpdateHitsRow, NEW r \in Runs, Insert(r) \/ Update(r)
    PROVE  \E row \in Row : Records(r, row)
<1>1. PICK row \in Row : Recorded(r, row)
  BY WriteStep
<1>2. feed[r] \in Feeds /\ station[r] \in Stations /\ ver[r] # 0 /\ pass[r] \in Passes
  BY <1>1, InHand DEF Recorded, InFeed, TypeOK
<1>3. \A q \in Runs : pc'[q] = IF q = r THEN "record" ELSE pc[q]
  BY <1>1 DEF TypeOK, Recorded
<1>4. ASSUME NEW q \in Runs, NEW f \in Feeds, NEW p \in Passes, NEW s \in Stations,
             s \in ToRecord(q, f, p)
      PROVE  \/ s \in ToRecord(q, f, p)'
             \/ q = r /\ InHandIs(r, f, p) /\ s = station[r]
  BY <1>1, <1>3, <1>4 DEF ToRecord, Pending, Recording, Recorded, InHandIs
<1>5. ASSUME NEW f \in Feeds, NEW s \in Stations
      PROVE  IF f = feed[r] /\ s = station[r]
             THEN /\ db'[f][s] = row
                  /\ pass[r] = "cn" => row.cn = ver[r] /\ ver[r] # 0 /\ owner'[f][s] = r
                  /\ pass[r] = "en" =>
                         /\ owner'[f][s] = owner[f][s] /\ row.en = "text"
                         /\ row.cn = IF InTable(f, s) THEN db[f][s].cn ELSE 0
             ELSE db'[f][s] = db[f][s] /\ owner'[f][s] = owner[f][s]
  BY <1>1, <1>2 DEF Recorded, TypeOK, Passes
<1>6. Records(r, row)
  BY <1>1, <1>2, <1>3, <1>4, <1>5 DEF Records, Recorded, InHandIs, Recording
<1> QED
  BY <1>6

\* A run that has nothing to record, or ends here, moves quietly.
LEMMA MoveQuiet ==
    ASSUME TypeOK, NEW r \in Runs, NEW to,
           UNCHANGED <<db, owner, pages>>,
           pc' = [pc EXCEPT ![r] = to], to \notin {"record", "write"},
           \A q \in Runs \ {r} : /\ feed'[q] = feed[q] /\ pass'[q] = pass[q]
                                 /\ left'[q] = left[q] /\ station'[q] = station[q],
           \/ to = "aborted"
           \/ pc[r] # "aborted" /\ \A f \in Feeds, p \in Passes : ToRecord(r, f, p) = {}
    PROVE  Quiet
<1>1. \A q \in Runs : pc'[q] = IF q = r THEN to ELSE pc[q]
  BY DEF TypeOK
<1>2. \A q \in Runs \ {r}, f \in Feeds, p \in Passes :
          ToRecord(q, f, p)' = ToRecord(q, f, p)
  BY <1>1 DEF ToRecord, Pending, Recording
<1>3. \A f \in Feeds, p \in Passes : ToRecord(r, f, p)' = {}
  BY <1>1 DEF ToRecord, Recording
<1> QED
  BY <1>1, <1>2, <1>3 DEF Quiet

\* All other steps are quiet: tables and pages stay, and so does what is to record.
LEMMA OtherQuiet ==
    ASSUME TypeOK, PlaceInv, [Next]_vars,
           \A r \in Runs : ~Fetch(r) /\ ~Insert(r) /\ ~Update(r)
    PROVE  Quiet
<1> USE DEF tableVars, placeVars, pageVars, checkVars
<1>a. \A r \in Runs, f \in Feeds, p \in Passes :
          \/ ~Recording(r)
          \/ pc[r] = "record" /\ left[r] = {}
          => ToRecord(r, f, p) = {}
  BY DEF ToRecord, Pending, Recording
<1>1. CASE UNCHANGED vars
  BY <1>1 DEF vars, Quiet, ToRecord, Pending, Recording
<1>2. CASE Publish
  BY <1>2 DEF Publish, Quiet, ToRecord, Pending, Recording
<1>3. ASSUME NEW r \in Runs, Start(r) \/ CreateTables(r) PROVE Quiet
  <2>1. PICK to \in {"create", "pick"} : pc' = [pc EXCEPT ![r] = to]
    BY <1>3 DEF Start, CreateTables, Step
  <2> QED
    BY <1>3, <1>a, <2>1, MoveQuiet DEF Start, CreateTables, Step, Recording
<1>4. ASSUME NEW r \in Runs, PickFeed(r) PROVE Quiet
  <2>1. \A q \in Runs \ {r} : feed'[q] = feed[q] /\ pass'[q] = pass[q]
    BY <1>4 DEF PickFeed, TypeOK
  <2> QED
    BY <1>4, <1>a, <2>1, MoveQuiet DEF PickFeed, Step, Recording
<1>5. ASSUME NEW r \in Runs, NextGroup(r) PROVE Quiet
  <2>1. PICK to \in {"create", "done"} : Step(r, "pick", to)
    BY <1>5 DEF NextGroup
  <2> QED
    BY <1>5, <1>a, <2>1, MoveQuiet DEF NextGroup, Step, Recording
<1>6. ASSUME NEW r \in Runs, Check(r) PROVE Quiet
  <2>1. PICK s \in left[r] : /\ left' = [left EXCEPT ![r] = @ \ {s}]
                             /\ station' = [station EXCEPT ![r] = s]
    BY <1>6 DEF Check
  <2>2. /\ pc[r] = "record" /\ pc' = [pc EXCEPT ![r] = "write"]
        /\ UNCHANGED <<db, owner, pages, feed, pass>>
    BY <1>6 DEF Check, Step
  <2>3. ASSUME NEW q \in Runs, NEW f \in Feeds, NEW p \in Passes
        PROVE  ToRecord(q, f, p)' = ToRecord(q, f, p)
    BY <2>1, <2>2 DEF TypeOK, ToRecord, Pending, Recording
  <2> QED
    BY <2>2, <2>3 DEF TypeOK, Quiet
<1>7. ASSUME NEW r \in Runs, EndPage(r) PROVE Quiet
  <2>1. PICK to \in {"fetch", "pick"} : Step(r, "record", to)
    BY <1>7 DEF EndPage
  <2>2. \A q \in Runs \ {r} : feed'[q] = feed[q] /\ pass'[q] = pass[q]
    BY <1>7 DEF EndPage, TypeOK
  <2> QED
    BY <1>7, <1>a, <2>1, <2>2, MoveQuiet DEF EndPage, Step
<1>8. ASSUME NEW r \in Runs, Collide(r) \/ Fail(r) PROVE Quiet
  <2>1. \A q \in Runs \ {r} : /\ feed'[q] = feed[q] /\ pass'[q] = pass[q]
                              /\ left'[q] = left[q] /\ station'[q] = station[q]
    BY <1>8 DEF Collide, Fail, Forget, TypeOK
  <2> QED
    BY <1>8, <2>1, MoveQuiet DEF Collide, Fail, Step
<1> QED
  BY <1>1, <1>2, <1>3, <1>4, <1>5, <1>6, <1>7, <1>8 DEF Next, Work

\* Every step is quiet, reads a page or records a station.
LEMMA ThreeSteps ==
    ASSUME TypeOK, PlaceInv, UpdateHitsRow, [Next]_vars
    PROVE  \/ Quiet
           \/ \E r \in Runs, page \in SUBSET Stations : Reads(r, page)
           \/ \E r \in Runs, row \in Row : Records(r, row)
BY FetchReads, WriteRecords, OtherQuiet

-----------------------------------------------------------------------------
(***************************************************************************)
(* The invariant, part by part.                                            *)
(***************************************************************************)

\* Rows never go away.
LEMMA RowsStay ==
    ASSUME TypeOK, PlaceInv, UpdateHitsRow, [Next]_vars,
           NEW f \in Feeds, NEW s \in Stations, InTable(f, s)
    PROVE  InTable(f, s)'
<1>1. CASE UNCHANGED db
  BY <1>1 DEF InTable
<1>2. ASSUME NEW r \in Runs, NEW row \in Row, Records(r, row) PROVE InTable(f, s)'
  BY <1>2, RowIsThere DEF Records, InTable
<1> QED
  BY <1>1, <1>2, ThreeSteps DEF Quiet, Reads

\* The row an UPDATE was chosen for is still there (checkData, updateData).
LEMMA HitsStep == TypeOK /\ PlaceInv /\ UpdateHitsRow /\ [Next]_vars => UpdateHitsRow'
<1> SUFFICES ASSUME TypeOK, PlaceInv, UpdateHitsRow, [Next]_vars,
                    NEW r \in Runs, pc'[r] = "write", known'[r]
             PROVE  InTable(feed[r], station[r])'
  BY DEF UpdateHitsRow
<1>1. CASE pc[r] = "write" /\ UNCHANGED <<known[r], feed[r], station[r]>>
  <2>1. feed[r] \in Feeds /\ station[r] \in Stations
    BY <1>1, InHand DEF InFeed
  <2>2. InTable(feed[r], station[r])
    BY <1>1 DEF UpdateHitsRow
  <2>3. \A f \in Feeds, s \in Stations : InTable(f, s) => InTable(f, s)'
    BY RowsStay
  <2> QED
    BY <1>1, <2>1, <2>2, <2>3 DEF InTable
<1>2. CASE Check(r)
  BY <1>2 DEF Check, InTable, TypeOK, tableVars, placeVars
<1>3. \/ Check(r)
      \/ pc[r] = "write" /\ UNCHANGED <<known[r], feed[r], station[r]>>
  <2> USE DEF tableVars, placeVars, pageVars, checkVars
  <2>1. CASE UNCHANGED vars \/ Publish
    BY <2>1 DEF vars, Publish
  <2>2. ASSUME NEW q \in Runs, Start(q) \/ CreateTables(q) \/ PickFeed(q) \/ NextGroup(q)
        PROVE  pc[r] = "write" /\ UNCHANGED <<known[r], feed[r], station[r]>>
    BY <2>2 DEF Start, CreateTables, PickFeed, NextGroup, Step, TypeOK
  <2>3. ASSUME NEW q \in Runs, Fetch(q) \/ Insert(q) \/ Update(q) \/ Collide(q)
                               \/ EndPage(q) \/ Fail(q)
        PROVE  pc[r] = "write" /\ UNCHANGED <<known[r], feed[r], station[r]>>
    BY <2>3 DEF Fetch, Insert, Update, Collide, EndPage, Fail, Forget, Step, TypeOK
  <2>4. ASSUME NEW q \in Runs, Check(q), q # r
        PROVE  pc[r] = "write" /\ UNCHANGED <<known[r], feed[r], station[r]>>
    BY <2>4 DEF Check, Step, TypeOK
  <2> QED
    BY <2>1, <2>2, <2>3, <2>4 DEF Next, Work
<1> QED
  BY <1>1, <1>2, <1>3

\* What a run has recorded from its Chinese pages stays stored and typed.
LEMMA StoredStep ==
    TypeOK /\ PlaceInv /\ UpdateHitsRow /\ StoredSoFar /\ [Next]_vars => StoredSoFar'
<1> SUFFICES ASSUME TypeOK, PlaceInv, UpdateHitsRow, StoredSoFar, [Next]_vars,
                    NEW q \in Runs, pc'[q] # "aborted",
                    NEW f \in Feeds, NEW s \in Stations,
                    s \in pages'[q][f]["cn"], s \in Listed[f],
                    s \notin ToRecord(q, f, "cn")'
             PROVE  (InTable(f, s) /\ Typed(db[f][s]))'
  BY DEF StoredSoFar
<1>1. CASE Quiet
  BY <1>1 DEF Quiet, StoredSoFar, Passes, InTable, Typed
<1>2. ASSUME NEW r \in Runs, NEW page \in SUBSET Stations, Reads(r, page)
      PROVE  (InTable(f, s) /\ Typed(db[f][s]))'
  BY <1>2 DEF Reads, StoredSoFar, Passes, InTable, Typed, ToRecordOf
<1>3. ASSUME NEW r \in Runs, NEW row \in Row, Records(r, row)
      PROVE  (InTable(f, s) /\ Typed(db[f][s]))'
  <2>1. pc[q] # "aborted" /\ s \in pages[q][f]["cn"]
    BY <1>3 DEF Records
  <2>2. CASE s \in ToRecord(q, f, "cn")
    <3>1. q = r /\ f = feed[r] /\ pass[r] = "cn" /\ s = station[r]
      BY <1>3, <2>2 DEF Records, InHandIs, Passes
    <3>2. db'[f][s] = row /\ row.cn # 0
      BY <1>3, <3>1 DEF Records
    <3> QED
      BY <3>2, RowIsThere DEF InTable, Typed
  <2>3. CASE s \notin ToRecord(q, f, "cn")
    <3>1. InTable(f, s) /\ Typed(db[f][s])
      BY <2>1, <2>3 DEF StoredSoFar
    <3>2. CASE f = feed[r] /\ s = station[r]
      <4>1. db'[f][s] = row /\ row.cn # 0
        BY <1>3, <3>1, <3>2 DEF Records, Typed, TypeOK, Passes
      <4> QED
        BY <4>1, RowIsThere DEF InTable, Typed
    <3>3. CASE ~(f = feed[r] /\ s = station[r])
      BY <1>3, <3>1, <3>3 DEF Records, InTable, Typed
    <3> QED
      BY <3>2, <3>3
  <2> QED
    BY <2>2, <2>3
<1> QED
  BY <1>1, <1>2, <1>3, ThreeSteps

\* What a run has recorded from its English pages stays translated, while it owns the row.
LEMMA TranslatedStep ==
    TypeOK /\ PlaceInv /\ UpdateHitsRow /\ TranslatedSoFar /\ [Next]_vars
        => TranslatedSoFar'
<1> SUFFICES ASSUME TypeOK, PlaceInv, UpdateHitsRow, TranslatedSoFar, [Next]_vars,
                    NEW q \in Runs, pc'[q] # "aborted",
                    NEW f \in Feeds, NEW s \in Stations,
                    s \in pages'[q][f]["en"], s \notin ToRecord(q, f, "en")',
                    owner'[f][s] = q
             PROVE  db'[f][s].en = "text"
  BY DEF TranslatedSoFar
<1>1. CASE Quiet
  BY <1>1 DEF Quiet, TranslatedSoFar, Passes
<1>2. ASSUME NEW r \in Runs, NEW page \in SUBSET Stations, Reads(r, page)
      PROVE  db'[f][s].en = "text"
  <2>1. CASE q = r /\ InHandIs(r, f, "en")
    <3>1. ToRecord(q, f, "en")' = page /\ s \in page
      <4>1. f \in Bilingual
        BY <1>2, <2>1 DEF Reads, InHandIs, PlaceInv, FeedInHand, InFeed
      <4> QED
        BY <1>2, <2>1, <4>1, ListedAssumption DEF Reads, ToRecordOf, Passes
    <3> QED
      BY <3>1
  <2>2. CASE ~(q = r /\ InHandIs(r, f, "en"))
    BY <1>2, <2>2 DEF Reads, TranslatedSoFar, Passes
  <2> QED
    BY <2>1, <2>2
<1>3. ASSUME NEW r \in Runs, NEW row \in Row, Records(r, row)
      PROVE  db'[f][s].en = "text"
  <2>1. pc[q] # "aborted" /\ s \in pages[q][f]["en"]
    BY <1>3 DEF Records
  <2>2. CASE f = feed[r] /\ s = station[r] /\ pass[r] = "cn"
    <3>1. q = r
      BY <1>3, <2>2 DEF Records
    <3>2. pages[r][f]["en"] = {}
      BY <1>3, <2>2 DEF Records, PlaceInv, FeedInHand, InFeed
    <3> QED
      BY <2>1, <3>1, <3>2
  <2>3. CASE f = feed[r] /\ s = station[r] /\ pass[r] = "en"
    BY <1>3, <2>3 DEF Records
  <2>4. CASE ~(f = feed[r] /\ s = station[r])
    <3>1. s \notin ToRecord(q, f, "en")
      BY <1>3, <2>4 DEF Records, InHandIs, Passes
    <3>2. db'[f][s] = db[f][s] /\ owner[f][s] = q
      BY <1>3, <2>4 DEF Records
    <3> QED
      BY <2>1, <3>1, <3>2 DEF TranslatedSoFar
  <2> QED
    BY <2>2, <2>3, <2>4 DEF TypeOK, Passes
<1> QED
  BY <1>1, <1>2, <1>3, ThreeSteps

\* Only stations that are listed are recorded.
LEMMA ListedStep ==
    TypeOK /\ PlaceInv /\ UpdateHitsRow /\ RowsAreListed /\ [Next]_vars => RowsAreListed'
<1> SUFFICES ASSUME TypeOK, PlaceInv, UpdateHitsRow, RowsAreListed, [Next]_vars,
                    NEW f \in Feeds, NEW s \in Stations, InTable(f, s)'
             PROVE  s \in Listed[f]
  BY DEF RowsAreListed
<1>1. CASE db'[f][s] = db[f][s]
  BY <1>1 DEF RowsAreListed, InTable
<1>2. ASSUME NEW r \in Runs, NEW row \in Row, Records(r, row), f = feed[r], s = station[r]
      PROVE  s \in Listed[f]
  BY <1>2 DEF Records, PlaceInv, PageInHand, PageOf, ToRecordOf
<1> QED
  BY <1>1, <1>2, ThreeSteps DEF Quiet, Reads, Records

\* Only the INSERT of an English page makes a row without a type.
LEMMA UntypedStep ==
    TypeOK /\ PlaceInv /\ UpdateHitsRow /\ StoredSoFar /\ UntypedIsEnglishOnly
    /\ [Next]_vars => UntypedIsEnglishOnly'
<1> SUFFICES ASSUME TypeOK, PlaceInv, UpdateHitsRow, StoredSoFar, UntypedIsEnglishOnly,
                    [Next]_vars, NEW f \in Feeds, NEW s \in Stations,
                    InTable(f, s)', ~Typed(db'[f][s])
             PROVE  f \in Bilingual /\ \E r \in Runs :
                        s \in pages'[r][f]["en"] \ pages'[r][f]["cn"]
  BY DEF UntypedIsEnglishOnly
<1>1. CASE Quiet
  BY <1>1 DEF Quiet, UntypedIsEnglishOnly, InTable, Typed
<1>2. ASSUME NEW r \in Runs, NEW page \in SUBSET Stations, Reads(r, page)
      PROVE  f \in Bilingual /\ \E q \in Runs :
                 s \in pages'[q][f]["en"] \ pages'[q][f]["cn"]
  <2>1. InTable(f, s) /\ ~Typed(db[f][s])
    BY <1>2 DEF Reads, InTable, Typed
  <2>2. PICK q \in Runs : s \in pages[q][f]["en"] \ pages[q][f]["cn"]
    BY <2>1 DEF UntypedIsEnglishOnly
  <2>3. ~(q = r /\ f = feed[r])
    BY <1>2, <2>2 DEF Reads, PlaceInv, FeedInHand, InFeed
  <2>4. s \in pages'[q][f]["en"] \ pages'[q][f]["cn"]
    BY <1>2, <2>2, <2>3 DEF Reads, InHandIs, Passes
  <2> QED
    BY <2>1, <2>4 DEF UntypedIsEnglishOnly
<1>3. ASSUME NEW r \in Runs, NEW row \in Row, Records(r, row)
      PROVE  f \in Bilingual /\ \E q \in Runs :
                 s \in pages'[q][f]["en"] \ pages'[q][f]["cn"]
  <2>1. CASE InTable(f, s)
    <3>1. ~Typed(db[f][s])
      <4>1. CASE f = feed[r] /\ s = station[r]
        <5>1. pass[r] # "cn"
          BY <1>3, <4>1 DEF Records, Typed
        <5>2. pass[r] = "en"
          BY <5>1 DEF TypeOK, Passes
        <5> QED
          BY <1>3, <2>1, <4>1, <5>2 DEF Records, Typed
      <4>2. CASE ~(f = feed[r] /\ s = station[r])
        BY <1>3, <4>2 DEF Records, Typed
      <4> QED
        BY <4>1, <4>2
    <3> QED
      BY <1>3, <2>1, <3>1 DEF Records, UntypedIsEnglishOnly
  <2>2. CASE ~InTable(f, s)
    <3>1. f = feed[r] /\ s = station[r]
      BY <1>3, <2>2 DEF Records, InTable
    <3>2. pass[r] = "en"
      BY <1>3, <3>1 DEF Records, Typed, TypeOK, Passes
    <3>3. f \in Bilingual /\ s \in pages[r][f]["en"]
      BY <1>3, <3>1, <3>2
      DEF Records, PlaceInv, FeedInHand, PageInHand, PageOf, ToRecordOf, InFeed
    <3>4. ToRecord(r, f, "cn") = {}
      BY <3>2 DEF ToRecord
    <3>5. s \notin pages[r][f]["cn"]
      BY <1>3, <2>2, <3>3, <3>4, ListedAssumption DEF Records, StoredSoFar
    <3> QED
      BY <1>3, <3>3, <3>5 DEF Records
  <2> QED
    BY <2>1, <2>2
<1> QED
  BY <1>1, <1>2, <1>3, ThreeSteps

\* The invariant holds before the first run and is kept by every step.
LEMMA CrawlInit == Init => CrawlInv
<1> SUFFICES ASSUME Init PROVE CrawlInv
  OBVIOUS
<1>1. TypeOK /\ PlaceInv
  BY TypeInit, PlaceInit
<1>2. UpdateHitsRow
  BY DEF Init, UpdateHitsRow
<1>3. \A r \in Runs, f \in Feeds, p \in Passes : pages[r][f][p] = {}
  BY DEF Init, NoPages
<1>4. StoredSoFar /\ TranslatedSoFar
  BY <1>3 DEF StoredSoFar, TranslatedSoFar, Passes
<1>5. UntypedIsEnglishOnly
  BY DEF Init, UntypedIsEnglishOnly, InTable
<1>6. RowsAreListed
  BY DEF Init, RowsAreListed, InTable
<1> QED
  BY <1>1, <1>2, <1>4, <1>5, <1>6 DEF CrawlInv

\* Every step keeps the invariant.
LEMMA CrawlStep == CrawlInv /\ [Next]_vars => CrawlInv'
BY TypeStep, PlaceStep, HitsStep, StoredStep, ListedStep, TranslatedStep, UntypedStep
DEF CrawlInv

-----------------------------------------------------------------------------
(***************************************************************************)
(* Theorems.                                                               *)
(***************************************************************************)

\* However the runs of DBCreator.py overlap and fail, the invariant holds.
THEOREM CrawlInvariant == Spec => []CrawlInv
<1>1. CrawlInv /\ UNCHANGED vars => CrawlInv'
  BY CrawlStep
<1> QED
  BY CrawlInit, CrawlStep, PTL DEF Spec

\* Of the stations it read on Chinese pages, a run that got to its end stored, with
\* a type, those that the feed's table in the code lists, and no other.
THEOREM CrawlStored == Spec => []DoneMeansStored
<1>1. CrawlInv => DoneMeansStored
  <2> SUFFICES ASSUME CrawlInv, NEW r \in Runs, pc[r] = "done", NEW f \in Feeds,
                      NEW s \in pages[r][f]["cn"]
               PROVE  InTable(f, s) /\ Typed(db[f][s]) <=> s \in Listed[f]
    BY DEF DoneMeansStored
  <2>1. s \in Stations /\ ToRecord(r, f, "cn") = {}
    BY DEF CrawlInv, TypeOK, Passes, ToRecord, Recording
  <2> QED
    BY <2>1 DEF CrawlInv, StoredSoFar, RowsAreListed
<1> QED
  BY <1>1, CrawlInvariant, PTL

\* A run that got to its end put back the English names it blanked.
THEOREM CrawlTranslated == Spec => []DoneMeansTranslated
<1>1. CrawlInv => DoneMeansTranslated
  <2> SUFFICES ASSUME CrawlInv, NEW r \in Runs, pc[r] = "done", NEW f \in Feeds,
                      NEW s \in pages[r][f]["en"], owner[f][s] = r
               PROVE  db[f][s].en = "text"
    BY DEF DoneMeansTranslated
  <2>1. s \in Stations /\ ToRecord(r, f, "en") = {}
    BY DEF CrawlInv, TypeOK, Passes, ToRecord, Recording
  <2> QED
    BY <2>1 DEF CrawlInv, TranslatedSoFar
<1> QED
  BY <1>1, CrawlInvariant, PTL

\* The state of the crawler keeps its types, however its runs overlap and stop.
THEOREM CrawlTypeCorrect == Spec => []TypeOK
<1>1. CrawlInv => TypeOK
  BY DEF CrawlInv
<1> QED
  BY <1>1, CrawlInvariant, PTL

\* checkData found a row, and it is still there when writeDB updates it.
THEOREM CrawlUpdateHits == Spec => []UpdateHitsRow
<1>1. CrawlInv => UpdateHitsRow
  BY DEF CrawlInv
<1> QED
  BY <1>1, CrawlInvariant, PTL

\* However runs overlap, a row that has a type keeps it, whichever write comes next.
LEMMA TypeStays ==
    ASSUME CrawlInv, [Next]_vars,
           NEW f \in Feeds, NEW s \in Stations, InTable(f, s), Typed(db[f][s])
    PROVE  InTable(f, s)' /\ Typed(db'[f][s])
<1>1. InTable(f, s)'
  BY RowsStay DEF CrawlInv
<1>2. CASE db'[f][s] = db[f][s]
  BY <1>1, <1>2
<1>3. ASSUME NEW r \in Runs, NEW row \in Row, Records(r, row), f = feed[r], s = station[r]
      PROVE  Typed(db'[f][s])
  BY <1>3 DEF Records, Typed, CrawlInv, TypeOK, Passes
<1> QED
  BY <1>1, <1>2, <1>3, ThreeSteps DEF Quiet, Reads, Records, CrawlInv

\* However runs overlap, no step takes a row or its type away: an INSERT that comes
\* after that of another run ends its own (Collide).
THEOREM CrawlTypeNeverLost == Spec => TypeNeverLost
<1>1. CrawlInv /\ [Next]_vars =>
          \A f \in Feeds, s \in Stations :
              InTable(f, s) /\ Typed(db[f][s]) => InTable(f, s)' /\ Typed(db'[f][s])
  BY TypeStays
<1> QED
  BY <1>1, CrawlInvariant, PTL DEF Spec, TypeNeverLost

\* A row without a type comes from an English page whose Chinese page lacked it.
THEOREM CrawlUntyped == Spec => []UntypedIsEnglishOnly
<1>1. CrawlInv => UntypedIsEnglishOnly
  BY DEF CrawlInv
<1> QED
  BY <1>1, CrawlInvariant, PTL

-----------------------------------------------------------------------------
(***************************************************************************)
(* Runs that follow one another.                                           *)
(***************************************************************************)

\* A step of a run is taken by an active one, or starts it.
LEMMA OneRunStep == TypeOK /\ OneRun /\ [Next]_vars => OneRun'
<1> SUFFICES ASSUME TypeOK, OneRun, [Next]_vars, ~Overlap PROVE OneRun'
  BY DEF OneRun
<1>1. CASE UNCHANGED vars \/ Publish
  BY <1>1 DEF vars, Publish, OneRun, Active
<1>2. ASSUME NEW r \in Runs, Start(r) PROVE OneRun'
  BY <1>2 DEF Start, Step, OneRun, Active, TypeOK
<1>3. ASSUME NEW r \in Runs, Work(r) \/ Fail(r) PROVE OneRun'
  <2>1. Active(r) /\ \A q \in Runs \ {r} : pc'[q] = pc[q]
    BY <1>3 DEF Work, CreateTables, PickFeed, NextGroup, Fetch, Check, Insert, Update,
                Collide, EndPage, Fail, Step, Active, TypeOK
  <2> QED
    BY <2>1 DEF OneRun, Active
<1> QED
  BY <1>1, <1>2, <1>3 DEF Next

\* A page in hand is at most as new as what the feeds publish.
LEMMA PageIsOldStep ==
    TypeOK /\ PageIsOld /\ [Next]_vars => PageIsOld' /\ now <= now'
<1> SUFFICES ASSUME TypeOK, PageIsOld, [Next]_vars PROVE PageIsOld' /\ now <= now'
  OBVIOUS
<1> USE DEF tableVars, placeVars, pageVars, checkVars, PageIsOld
<1>1. now \in Int /\ \A r \in Runs : ver[r] \in Int
  BY VersionAssumption DEF TypeOK
<1>2. CASE Publish
  BY <1>1, <1>2 DEF Publish
<1>3. ASSUME NEW r \in Runs, Fetch(r) PROVE PageIsOld' /\ now <= now'
  BY <1>1, <1>3 DEF Fetch, Step, TypeOK
<1>4. ASSUME NEW r \in Runs, Collide(r) \/ Fail(r) PROVE PageIsOld' /\ now <= now'
  <2>1. now' = now /\ ver' = [ver EXCEPT ![r] = 0] /\ 0 <= now
    BY <1>4 DEF Collide, Fail, Forget, Step, TypeOK
  <2> QED
    BY <1>1, <2>1 DEF TypeOK
<1>5. CASE UNCHANGED <<now, ver>>
  BY <1>1, <1>5
<1> QED
  BY <1>2, <1>3, <1>4, <1>5 DEF Next, Work, vars, Start, CreateTables, PickFeed,
     NextGroup, Check, Insert, Update, EndPage, Step

\* A run that records did so before, on the same page, or has just read one.
LEMMA RecordingStep ==
    ASSUME TypeOK, [Next]_vars, NEW q \in Runs, Recording(q)'
    PROVE  ver'[q] = now' \/ (Recording(q) /\ ver'[q] = ver[q])
<1> USE DEF tableVars, placeVars, pageVars, checkVars, Recording
<1>1. CASE UNCHANGED vars \/ Publish
  BY <1>1 DEF vars, Publish
<1>2. ASSUME NEW r \in Runs, Start(r) \/ CreateTables(r) \/ PickFeed(r) \/ NextGroup(r)
      PROVE  Recording(q) /\ ver'[q] = ver[q]
  BY <1>2 DEF Start, CreateTables, PickFeed, NextGroup, Step, TypeOK
<1>3. ASSUME NEW r \in Runs, Fetch(r)
      PROVE  ver'[q] = now' \/ (Recording(q) /\ ver'[q] = ver[q])
  BY <1>3 DEF Fetch, Step, TypeOK
<1>4. ASSUME NEW r \in Runs, Check(r) \/ Insert(r) \/ Update(r) \/ EndPage(r)
      PROVE  Recording(q) /\ ver'[q] = ver[q]
  BY <1>4 DEF Check, Insert, Update, EndPage, Step, TypeOK
<1>5. ASSUME NEW r \in Runs, Collide(r) \/ Fail(r)
      PROVE  Recording(q) /\ ver'[q] = ver[q]
  BY <1>5 DEF Collide, Fail, Forget, Step, TypeOK
<1> QED
  BY <1>1, <1>2, <1>3, <1>4, <1>5 DEF Next, Work

\* The one run that records has the newest page so far.
LEMMA RowsAreOldStep ==
    TypeOK /\ PlaceInv /\ UpdateHitsRow /\ OneRun /\ RowsAreOld /\ PageIsOld
    /\ [Next]_vars => RowsAreOld'
<1> SUFFICES ASSUME TypeOK, PlaceInv, UpdateHitsRow, OneRun, RowsAreOld, PageIsOld,
                    [Next]_vars, ~Overlap, NEW f \in Feeds, NEW s \in Stations,
                    InTable(f, s)'
             PROVE  /\ db'[f][s].cn <= now'
                    /\ \A r \in Runs : Recording(r)' => db'[f][s].cn <= ver'[r]
  BY DEF RowsAreOld
<1>1. /\ now \in Int /\ now' \in Int /\ now <= now'
      /\ \A r \in Runs : ver[r] \in Int /\ ver'[r] \in Int
      /\ db'[f][s] \in Row /\ db'[f][s].cn \in Int
  <2>1. TypeOK' /\ now <= now'
    BY TypeStep, PageIsOldStep
  <2> QED
    BY <2>1, VersionAssumption DEF TypeOK, InTable, Row
<1>2. ASSUME NEW r \in Runs, NEW row \in Row, Records(r, row),
             f = feed[r] /\ s = station[r]
      PROVE  /\ db'[f][s].cn <= now'
             /\ \A q \in Runs : Recording(q)' => db'[f][s].cn <= ver'[q]
  <2>1. db'[f][s] = row /\ row.cn <= ver[r]
    <3>1. CASE pass[r] = "cn"
      BY <1>1, <1>2, <3>1 DEF Records
    <3>2. CASE pass[r] = "en" /\ InTable(f, s)
      BY <1>1, <1>2, <3>2 DEF Records, RowsAreOld, Recording
    <3>3. CASE pass[r] = "en" /\ ~InTable(f, s)
      <4>1. row.cn = 0 /\ db'[f][s] = row /\ ver[r] \in 0 .. MaxVer
        BY <1>2, <3>3 DEF Records, TypeOK
      <4> QED
        BY <4>1
    <3> QED
      BY <3>1, <3>2, <3>3 DEF TypeOK, Passes
  <2>2. ver[r] <= now
    BY DEF PageIsOld
  <2>3. \A q \in Runs : Recording(q)' => q = r
    BY <1>2 DEF Records, OneRun, Active, Recording, TypeOK
  <2>4. ver'[r] = ver[r]
    BY <1>2 DEF Records
  <2> QED
    BY <1>1, <2>1, <2>2, <2>3, <2>4
<1>3. CASE InTable(f, s) /\ db'[f][s] = db[f][s]
  <2>1. ASSUME NEW q \in Runs, Recording(q)'
        PROVE  ver'[q] = now' \/ (Recording(q) /\ ver'[q] = ver[q])
    BY <2>1, RecordingStep
  <2> QED
    BY <1>1, <1>3, <2>1 DEF RowsAreOld
<1>4. \/ \E r \in Runs, row \in Row : Records(r, row) /\ f = feed[r] /\ s = station[r]
      \/ db'[f][s] = db[f][s]
  BY ThreeSteps DEF Quiet, Reads, Records
<1> QED
  BY <1>2, <1>3, <1>4 DEF InTable

\* The serial invariant holds before the first run and is kept by every step.
LEMMA SerialInit == Init => CrawlSerialInv
<1> SUFFICES ASSUME Init PROVE CrawlSerialInv
  OBVIOUS
<1>1. OneRun
  BY DEF Init, OneRun, Active
<1>2. RowsAreOld /\ PageIsOld
  BY DEF Init, RowsAreOld, PageIsOld, InTable, Recording
<1> QED
  BY <1>1, <1>2, CrawlInit DEF CrawlSerialInv

\* Every step keeps the serial invariant.
LEMMA SerialStep == CrawlSerialInv /\ [Next]_vars => CrawlSerialInv'
BY CrawlStep, OneRunStep, RowsAreOldStep, PageIsOldStep
DEF CrawlSerialInv, CrawlInv

\* The invariant of runs that do not overlap.
THEOREM CrawlSerialInvariant == Spec => []CrawlSerialInv
<1>1. CrawlSerialInv /\ UNCHANGED vars => CrawlSerialInv'
  BY SerialStep
<1> QED
  BY SerialInit, SerialStep, PTL DEF Spec

\* A step of runs that follow one another puts no older version over a newer one.
LEMMA VersionsStep ==
    ASSUME CrawlSerialInv, [Next]_vars, ~Overlap,
           NEW f \in Feeds, NEW s \in Stations, InTable(f, s)
    PROVE  db'[f][s].cn >= db[f][s].cn
<1>1. db[f][s] \in Row /\ db[f][s].cn \in Int
  BY VersionAssumption DEF CrawlSerialInv, CrawlInv, TypeOK, InTable, Row
<1>2. CASE db'[f][s] = db[f][s]
  BY <1>1, <1>2
<1>3. ASSUME NEW r \in Runs, NEW row \in Row, Records(r, row),
             f = feed[r] /\ s = station[r]
      PROVE  db'[f][s].cn >= db[f][s].cn
  <2>1. CASE pass[r] = "cn"
    <3>1. db'[f][s].cn = ver[r] /\ db[f][s].cn <= ver[r] /\ ver[r] \in Int
      BY <1>3, <2>1, VersionAssumption
      DEF Records, CrawlSerialInv, CrawlInv, RowsAreOld, Recording, TypeOK
    <3> QED
      BY <1>1, <3>1
  <2>2. CASE pass[r] = "en"
    BY <1>1, <1>3, <2>2 DEF Records
  <2> QED
    BY <2>1, <2>2 DEF CrawlSerialInv, CrawlInv, TypeOK, Passes
<1> QED
  BY <1>2, <1>3, ThreeSteps DEF CrawlSerialInv, CrawlInv, Quiet, Reads, Records

\* Runs that follow one another never put an older version over a newer one.
THEOREM CrawlVersions == Spec => VersionsOnlyGrow
<1>1. CrawlSerialInv /\ [Next]_vars =>
          (~Overlap => \A f \in Feeds, s \in Stations :
              InTable(f, s) => db'[f][s].cn >= db[f][s].cn)
  BY VersionsStep
<1> QED
  BY <1>1, CrawlSerialInvariant, PTL DEF Spec, VersionsOnlyGrow
=============================================================================
