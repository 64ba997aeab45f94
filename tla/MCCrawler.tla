---------------------------- MODULE MCCrawler ----------------------------
(***************************************************************************)
(* A small instance of the crawler: a bilingual web site, and one whose    *)
(* table in the code lists only the first of the two stations.             *)
(***************************************************************************)
EXTENDS CrawlerInv, TLC

CONSTANTS r1, r2, twoPages, byTable, s1, s2

WebOnly  == (twoPages :> 1) @@ (byTable :> 1)
OneKnown == (twoPages :> {s1, s2}) @@ (byTable :> {s1})

\* Two stations that come and go on the pages of the one, and stay on the other.
SomePages == (twoPages :> {{s1}, {s2}, {s1, s2}}) @@ (byTable :> {{s1, s2}})

RunSymmetry == Permutations({r1, r2})
=============================================================================
