---------------------------- MODULE QueryServer ----------------------------
(***************************************************************************)
(* What the app is told about the tables: index.php beside the crawler.    *)
(*                                                                         *)
(* A request names types, and a run of index.php of its own serves it,     *)
(* beside those of other requests.  It selects everything from the table   *)
(* of each type, one statement after the other, while the crawler goes on  *)
(* writing.  A statement that fails (no such table) prints the failure     *)
(* reply and then calls fetchAll on FALSE, which ends the script: no       *)
(* success is sent after the failure.  A type has the name of its table.   *)
(***************************************************************************)
EXTENDS Crawler

CONSTANTS
    Types,   \* the types the app knows; not all of them have a feed
    Asked,   \* the selections of types that the app may ask for (one without a type is
             \* answered at once with a failure)
    Scripts  \* runs of index.php that may be under way at once (a bound for TLC)

ASSUME TypesAssumption ==
    Feeds \subseteq Types /\ Asked \subseteq (SUBSET Types) \ {{}}

VARIABLES
    asked,  \* the types of the request that a script serves; {}: it is not running
    todo,   \* its types whose table it has still to select from
    body,   \* its $finalData: the tables selected so far
    seen,   \* history: what the app had been told of these when it asked
    latest  \* history: what the app has last been told of each table

scriptVars == <<asked, todo, body, seen>>
serverVars == <<scriptVars, latest>>

Nothing == [x \in {} |-> None]
NoTable == [s \in Stations |-> None]
Table(f) == [s \in Stations |-> db[f][s].cn]
With(tables, f, table) ==
    [g \in DOMAIN tables \cup {f} |-> IF g = f THEN table ELSE tables[g]]
Latest(tables) ==
    [f \in Types |-> IF f \in DOMAIN tables THEN tables[f] ELSE latest[f]]
Running(q) == asked[q] # {}

ServerInit ==
    /\ asked = [q \in Scripts |-> {}]
    /\ todo = [q \in Scripts |-> {}]
    /\ body = [q \in Scripts |-> Nothing]
    /\ seen = [q \in Scripts |-> Nothing]
    /\ latest = [f \in Types |-> NoTable]

\* The POST of fetchBikeData, whatever scripts are running.
Ask(q) ==
    /\ ~Running(q)
    /\ \E types \in Asked :
          /\ asked' = [asked EXCEPT ![q] = types]
          /\ todo' = [todo EXCEPT ![q] = types]
          /\ seen' = [seen EXCEPT ![q] = [f \in types |-> latest[f]]]
    /\ UNCHANGED <<body, latest>>

\* Mutant of Select: fetch in place of fetchAll.
SelectFirstRow(q) ==
    /\ \E f \in todo[q] \cap created, s \in Stations :
          /\ todo' = [todo EXCEPT ![q] = @ \ {f}]
          /\ body' = [body EXCEPT ![q] = With(@, f, db[f][s].cn)]
    /\ UNCHANGED <<asked, seen, latest>>

\* SELECT * FROM $type: one consistent look at one table.
Select(q) ==
    /\ \E f \in todo[q] \cap created :
          /\ todo' = [todo EXCEPT ![q] = @ \ {f}]
          /\ body' = [body EXCEPT ![q] = With(@, f, Table(f))]
          /\ seen' = [seen EXCEPT ![q] = [g \in todo[q] \ {f} |-> seen[q][g]]]
    /\ UNCHANGED <<asked, latest>>

\* The script ends; its variables are gone.
End(q) ==
    /\ asked' = [asked EXCEPT ![q] = {}]
    /\ todo' = [todo EXCEPT ![q] = {}]
    /\ body' = [body EXCEPT ![q] = Nothing]
    /\ seen' = [seen EXCEPT ![q] = Nothing]

\* Mutant of SelectFails: it goes on with the next type.
SelectFailsGoesOn(q) ==
    /\ \E f \in todo[q] \ created : todo' = [todo EXCEPT ![q] = @ \ {f}]
    /\ UNCHANGED <<asked, body, seen, latest>>

\* The table is not there: the app gets a failure.
SelectFails(q) ==
    /\ todo[q] \ created # {}
    /\ End(q)
    /\ UNCHANGED latest

\* All tables have been selected from.
Respond(q) ==
    /\ Running(q)
    /\ todo[q] = {}
    /\ End(q)
    /\ latest' = Latest(body[q])

Serve == \E q \in Scripts : Ask(q) \/ Select(q) \/ SelectFails(q) \/ Respond(q)

ServiceInit == Init /\ ServerInit
ServiceNext ==
    \/ Next /\ UNCHANGED serverVars
    \/ Serve /\ UNCHANGED vars
ServiceSpec == ServiceInit /\ [][ServiceNext]_<<vars, serverVars>>

-----------------------------------------------------------------------------
(***************************************************************************)
(* Properties.                                                             *)
(***************************************************************************)
Tables == [Stations -> 0 .. MaxVer \cup {None}]
TablesOfSome == UNION {[D -> Tables] : D \in SUBSET Types}
Told(table, s) == table[s] # None

\* The new table has all that the old one has, and nothing that is older.
NotOlder(old, new) ==
    \A s \in Stations : Told(old, s) => Told(new, s) /\ old[s] <= new[s]

\* The state of the server keeps its types.
ServerTypeOK ==
    /\ asked \in [Scripts -> SUBSET Types] /\ todo \in [Scripts -> SUBSET Types]
    /\ body \in [Scripts -> TablesOfSome] /\ seen \in [Scripts -> TablesOfSome]
    /\ \A q \in Scripts : todo[q] \subseteq asked[q] /\ DOMAIN seen[q] = todo[q]
    /\ latest \in [Types -> Tables]

\* A script that is about to send a success has a table for each type that was asked
\* for, and each of them has a feed: a selection with a type that is never crawled,
\* like UBike_TP of the app's default selection, is never served.
ServedMeansCrawled ==
    \A q \in Scripts :
        Running(q) /\ todo[q] = {} => DOMAIN body[q] = asked[q] /\ asked[q] \subseteq Feeds

\* While runs of the crawler do not overlap, what the app was last told, though
\* selected at different moments and by scripts that overtake one another, is no
\* newer than the tables are, and all stations told are still there.
RepliesArePast ==
    ~Overlap => \A f \in Feeds : NotOlder(latest[f], Table(f))

\* ... and no table goes into a reply that takes back what the app had been told of it
\* when it asked.  (Of two requests that overlap, the later reply may be the older one.)
RepliesOnlyGrow ==
    [][~Overlap => \A q \in Scripts : Select(q) =>
           \A f \in todo[q] \ todo'[q] : NotOlder(seen[q][f], body'[q][f])]_<<vars, serverVars>>

\* A row without a type reaches the app only from a page that the English site
\* has and the Chinese one has not, whatever was recorded since.
UntypedToldIsEnglishOnly ==
    \A f \in Types, s \in Stations :
        latest[f][s] = 0 =>
            /\ f \in Bilingual
            /\ \E r \in Runs : s \in pages[r][f]["en"] \ pages[r][f]["cn"]
=============================================================================
