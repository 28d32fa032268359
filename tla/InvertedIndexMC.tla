--------------------------- MODULE InvertedIndexMC ---------------------------
(***************************************************************************)
(* Two documents, two terms.  A text is empty (stop words only) or holds   *)
(* both terms; AddRaw gives the single ones.  Two tokens fill the buffer,  *)
(* the timer may flush less, and every second segment starts a merge.      *)
(***************************************************************************)
EXTENDS InvertedIndex, TLC

CONSTANTS d1, d2, t1, t2

MCTexts == {<<>>, <<t1, t2>>}
=============================================================================
