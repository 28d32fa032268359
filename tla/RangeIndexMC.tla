---------------------------- MODULE RangeIndexMC ----------------------------
(***************************************************************************)
(* Queries with every lower and upper bound on one field, inclusive or     *)
(* exclusive, and with a bound on each of two fields.                      *)
(***************************************************************************)
EXTENDS RangeIndex, TLC

CONSTANTS d1, d2, f1, f2, nobound, novalue, noentry, nofield, noop

Limits == Values \cup {nobound}

OneField == {{b} : b \in [field : {f1}, gte : Limits, lte : Limits, gt : {nobound}, lt : {nobound}]
                    \cup [field : {f1}, gte : {nobound}, lte : {nobound}, gt : Limits, lt : Limits]}

TwoFields ==
    {{[field |-> f1, gte |-> v, lte |-> nobound, gt |-> nobound, lt |-> nobound],
      [field |-> f2, gte |-> nobound, lte |-> w, gt |-> nobound, lt |-> nobound]} :
         v \in Values, w \in Values}

MCQueries == OneField \cup TwoFields
MCSymmetry == Permutations(Docs)
=============================================================================
