-------------------------- MODULE QueryServerInv --------------------------
(***************************************************************************)
(* The inductive invariants of QueryServer: what a script has selected so  *)
(* far comes from tables that exist, is no newer than they are, and no     *)
(* older than what the app had been told when it asked.                    *)
(***************************************************************************)
EXTENDS QueryServer

\* The statements of a request are answered one by one, from tables that exist.
SelectedSoFar ==
    \A q \in Scripts :
        DOMAIN body[q] \subseteq created /\ DOMAIN body[q] = asked[q] \ todo[q]

ServerInv == ServerTypeOK /\ SelectedSoFar /\ ServedMeansCrawled

BodyIsPast ==
    \A q \in Scripts : \A f \in DOMAIN body[q] : NotOlder(body[q][f], Table(f))
SeenIsPast ==
    \A q \in Scripts : \A f \in todo[q] \cap Feeds : NotOlder(seen[q][f], Table(f))
PastInv == ~Overlap => BodyIsPast /\ SeenIsPast /\ RepliesArePast
=============================================================================
