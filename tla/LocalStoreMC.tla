----------------------------- MODULE LocalStoreMC -----------------------------
(***************************************************************************)
(* Two keys and two values of different length, a log long enough for      *)
(* three records and a torn one.                                           *)
(***************************************************************************)
EXTENDS LocalStore

CONSTANTS nil, unknown

MCValues == {<<2>>, <<1, 1>>}
=============================================================================
