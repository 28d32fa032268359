----------------------------- MODULE DurabilityMC -----------------------------
(***************************************************************************)
(* Two documents and two contents, a log of three entries, and two faults  *)
(* besides any number of crashes.                                          *)
(***************************************************************************)
EXTENDS Durability, TLC

CONSTANTS d1, d2, c1, c2, absent, none, partial, broken

Symmetry == Permutations({d1, d2}) \cup Permutations({c1, c2})
=============================================================================
