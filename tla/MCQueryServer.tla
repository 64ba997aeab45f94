--------------------------- MODULE MCQueryServer ---------------------------
(***************************************************************************)
(* A small instance of the crawler and index.php: two feeds of one         *)
(* station, which comes and goes on the pages of the second, and Taipei,   *)
(* which the app asks for by default and no feed fills; two scripts at a   *)
(* time.                                                                   *)
(***************************************************************************)
EXTENDS QueryServerInv, CrawlerInv, TLC

CONSTANTS r1, r2, q1, q2, plain, twoPages, taipei, s1

\* The JSON and XML feeds of one page come before the bilingual web sites.
PlainThenWeb == (plain :> 1) @@ (twoPages :> 2)
AllKnown == [f \in {plain, twoPages} |-> {s1}]
SomePages == (plain :> {{s1}}) @@ (twoPages :> SUBSET {s1})

\* What the app may ask for: types that are filled, one that is not.
Selections == {{plain, twoPages}, {taipei}}

Symmetry == Permutations({r1, r2}) \cup Permutations({q1, q2})
=============================================================================
