---------------------------- MODULE SortedPagesMC ----------------------------
(***************************************************************************)
(* Three documents with scores of their own.                               *)
(***************************************************************************)
EXTENDS SortedPages, TLC

CONSTANTS d1, d2, d3, novalue, nodoc, nocursor

MCScore == d1 :> 1 @@ d2 :> 3 @@ d3 :> 2
=============================================================================
