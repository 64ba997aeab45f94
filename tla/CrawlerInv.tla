---------------------------- MODULE CrawlerInv ----------------------------
(***************************************************************************)
(* The inductive invariant of Crawler.  What a run has promised so far is  *)
(* what it promises at its end, less the stations it has still to record.  *)
(***************************************************************************)
EXTENDS Crawler

InFeed(r)    == pc[r] \in {"fetch", "record", "write"}
Recording(r) == pc[r] \in {"record", "write"}

\* The stations of a page that the run has still to record.
Pending(r) == left[r] \cup {s \in Stations : pc[r] = "write" /\ s = station[r]}
ToRecord(r, f, p) ==
    IF Recording(r) /\ feed[r] = f /\ pass[r] = p THEN Pending(r) ELSE {}

\* A feed that the run has not picked yet.
NotVisited(r, f) ==
    \/ Group[f] > group[r]
    \/ Group[f] = group[r] /\ pc[r] \in {"idle", "create"}
    \/ f \in feedsLeft[r]

\* The feed in hand is one of the group, picked once; its English page is read
\* last, and only if there is one.
FeedInHand ==
    \A r \in Runs :
        /\ \A f \in feedsLeft[r] : Group[f] = group[r]
        /\ InFeed(r) =>
              /\ feed[r] \in Feeds
              /\ feed[r] \notin feedsLeft[r]
              /\ Group[feed[r]] = group[r]
              /\ pass[r] = "en" => feed[r] \in Bilingual
              /\ pc[r] = "fetch" \/ pass[r] = "cn" => pages[r][feed[r]]["en"] = {}

\* The stations to record are stations of the page in hand, which has a version.
PageOf(r) == ToRecordOf(feed[r], pages[r][feed[r]][pass[r]])
PageInHand ==
    \A r \in Runs :
        /\ Recording(r) => left[r] \subseteq PageOf(r) /\ ver[r] # 0
        /\ pc[r] = "write" => station[r] \in PageOf(r)

\* No page of a feed has been read before the feed is picked.
Unread ==
    \A r \in Runs, f \in Feeds : NotVisited(r, f) =>
        \A p \in Passes : pages[r][f][p] = {}

PlaceInv == FeedInHand /\ PageInHand /\ Unread

\* DoneMeansStored, on the way.
StoredSoFar ==
    \A r \in Runs : pc[r] # "aborted" =>
        \A f \in Feeds, s \in Stations :
            s \in pages[r][f]["cn"] \cap Listed[f] /\ s \notin ToRecord(r, f, "cn")
                => InTable(f, s) /\ Typed(db[f][s])

\* No row is of a station that was left out.
RowsAreListed ==
    \A f \in Feeds, s \in Stations : InTable(f, s) => s \in Listed[f]

\* DoneMeansTranslated, on the way.
TranslatedSoFar ==
    \A r \in Runs : pc[r] # "aborted" =>
        \A f \in Feeds, s \in Stations :
            /\ s \in pages[r][f]["en"] /\ s \notin ToRecord(r, f, "en")
            /\ owner[f][s] = r
            => db[f][s].en = "text"

CrawlInv ==
    /\ TypeOK /\ PlaceInv /\ UpdateHitsRow
    /\ StoredSoFar /\ RowsAreListed /\ TranslatedSoFar /\ UntypedIsEnglishOnly

\* Runs that follow one another: one is active, and nothing is newer than what it
\* records.
OneRun ==
    ~Overlap => \A r, q \in Runs : Active(r) /\ Active(q) => r = q
RowsAreOld ==
    ~Overlap => \A f \in Feeds, s \in Stations : InTable(f, s) =>
        /\ db[f][s].cn <= now
        /\ \A r \in Runs : Recording(r) => db[f][s].cn <= ver[r]
PageIsOld == \A r \in Runs : ver[r] <= now

CrawlSerialInv ==
    CrawlInv /\ OneRun /\ RowsAreOld /\ PageIsOld
=============================================================================
