------------------------------- MODULE KVStore -------------------------------
(***************************************************************************)
(* What the Storage interface (storage/storage.go) promises of the data it *)
(* keeps: a map in which each key holds what its last completed Put or     *)
(* Delete left there.  A write that was cut short makes its own key        *)
(* uncertain, no other.  Nothing is promised of a damaged store, one that  *)
(* went on writing behind a record it had not written completely.          *)
(***************************************************************************)
CONSTANTS Keys, Values, NoValue, Unknown

VARIABLES
    map,      \* what a restart would find
    written,  \* what the last Put or Delete of each key wrote
    damaged

Agrees == LET found == map
          IN  \A k \in Keys : IF written[k] = Unknown
                              THEN found[k] \in Values \cup {NoValue}
                              ELSE found[k] = written[k]

Init == /\ written = [k \in Keys |-> NoValue]
        /\ Agrees
        /\ damaged = FALSE

Put(k)    == \E v \in Values : written' = [written EXCEPT ![k] = v]
Delete(k) == written' = [written EXCEPT ![k] = NoValue]
Cut(k)    == written' = [written EXCEPT ![k] = Unknown]

\* Nothing is written; an uncertain key may turn out to hold another value.
Settle == UNCHANGED written

Step == /\ Agrees'
        /\ Settle \/ \E k \in Keys : Put(k) \/ Delete(k) \/ Cut(k)

Next == damaged \/ damaged' \/ Step

Spec == Init /\ [][Next]_<<map, written, damaged>>
=============================================================================
