-------------------------- MODULE RefreshContract --------------------------
(***************************************************************************)
(* What the periodic refresh promises to those who read the stored rows,   *)
(* as long as one refresh ends before the next begins: a reply is taken up *)
(* whole, its rows are written one by one while the app says it is busy,   *)
(* and the app says so no longer only when none of them is left.  The      *)
(* process may end in between; a launch starts from nothing.               *)
(*                                                                         *)
(* Rows are versions, 0 for "no row".  Nothing is said of threads,         *)
(* counters, loops or transactions: BikeRefreshContract shows that those   *)
(* of BikeRefresh keep the promise.                                        *)
(***************************************************************************)
EXTENDS Integers

CONSTANTS
    Types,     \* the bike types
    Stations,  \* station numbers
    MaxVer     \* bound on the versions

VARIABLES
    alive,    \* the process runs
    busy,     \* a refresh is said to be under way
    pending,  \* the rows of the reply in hand that are still to be written
    data      \* what a reader of the store sees

contractVars == <<alive, busy, pending, data>>

Table   == [Types -> [Stations -> 0 .. MaxVer]]
NoRows  == [t \in Types |-> [s \in Stations |-> 0]]

\* No row of the reply is older than the one it is to replace.
IsNews(reply) ==
    \A t \in Types, s \in Stations : reply[t][s] # 0 => data[t][s] <= reply[t][s]

Init == alive = TRUE /\ busy = FALSE /\ pending = NoRows /\ data = NoRows

\* A reply is taken up: its rows are pending.
Begin ==
    /\ alive
    /\ pending = NoRows
    /\ busy' = TRUE
    /\ pending' \in {reply \in Table : IsNews(reply)}
    /\ UNCHANGED <<alive, data>>

\* One of its rows replaces what is stored.
Write ==
    /\ alive
    /\ busy
    /\ \E t \in Types, s \in Stations :
          /\ pending[t][s] # 0
          /\ pending' = [pending EXCEPT ![t][s] = 0]
          /\ data' = [data EXCEPT ![t][s] = pending[t][s]]
    /\ UNCHANGED <<alive, busy>>

\* The end of a refresh: whoever sees it finds every row of the reply.
Release ==
    /\ alive
    /\ pending = NoRows
    /\ busy' = FALSE
    /\ UNCHANGED <<alive, pending, data>>

Crash == alive' = FALSE /\ UNCHANGED <<busy, pending, data>>

Launch ==
    /\ ~alive
    /\ alive' = TRUE /\ busy' = FALSE /\ pending' = NoRows /\ data' = NoRows

Next == Begin \/ Write \/ Release \/ Crash \/ Launch

Spec == Init /\ [][Next]_contractVars

\* A refresh once begun goes on; that it is ever said to have ended is not
\* promised (a reply may end in a row that the app passes over).
FairSpec == Spec /\ WF_contractVars(Write)

-----------------------------------------------------------------------------
(* What follows from the promise.                                          *)

\* Rows are left to write only while the app says it is busy, and none of them
\* is older than what is stored.
PendingIsNews == (pending # NoRows => busy) /\ IsNews(pending)

\* Within the life of a process no stored row goes back to an older version or
\* away.
RowsOnlyGrow ==
    [][alive => \A t \in Types, s \in Stations : data[t][s] <= data'[t][s]]_contractVars
=============================================================================
