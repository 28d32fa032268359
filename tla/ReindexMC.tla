------------------------------ MODULE ReindexMC ------------------------------
(***************************************************************************)
(* - Three documents, a Reindex with one or two workers, and three calls of *)
(*   the live engine at any time.  Three documents are the most that one    *)
(*   worker and its channel can take: the channel is full while there is a  *)
(*   document left to send.                                                 *)
(* - Four documents, one worker and one call: more than they can take.      *)
(***************************************************************************)
EXTENDS Reindex, TLC

CONSTANTS d1, d2, d3, d4, c1, c2, absent, none, w1, w2, live
=============================================================================
