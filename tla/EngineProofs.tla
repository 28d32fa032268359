----------------------------- MODULE EngineProofs -----------------------------
(***************************************************************************)
(* Theorems about the engine: what its calls may do to each other          *)
(* (EngineLocks), and what they leave of a document (FieldTypes).          *)
(*                                                                         *)
(* The first part holds for any number of goroutines and any calls that    *)
(* keep the discipline (Ordered, Guarded), which TLC evaluates for the     *)
(* calls of go-search.                                                     *)
(*                                                                         *)
(* The second part holds for any documents, values, inferred types, words  *)
(* and mappings.  The argument.  Terms that a document is found by are     *)
(* taken away only by an update or a deletion of that document; so memory  *)
(* finds the last value of each document not lost (FoundAll), and a        *)
(* snapshot finds the values of the last Save (SnapTells).  The log has    *)
(* the last value of every document changed since (LogTells), and replay   *)
(* leaves of each document what its last entry says (ReplayedSoFar, by     *)
(* induction over the log), so a restart finds the last values again.  A   *)
(* rebuild goes over the store, which has the last values (Stored), and    *)
(* indexes each document once (RebuiltSoFar and AlikeSoFar, by induction   *)
(* over the documents).  The schema has one type for all values if all     *)
(* were of one type (Kinds), before and after.                             *)
(***************************************************************************)
EXTENDS EngineLocks, FieldTypes, SequenceFacts, TLAPS

-----------------------------------------------------------------------------
(* The locks.                                                              *)

\* What the locks guarantee, whatever the calls do.
LockTypes ==
    /\ call \in [Procs -> Calls \cup {Idle}]
    /\ pc \in [Procs -> Nat]
    /\ \A p \in Procs : Busy(p) => pc[p] \in 1..Len(Script[call[p]])
    /\ writer \in [Locks -> Procs \cup {Nobody}]
    /\ parked \in [Locks -> SUBSET Procs]

WriterAtIt ==
    \A l \in Locks : writer[l] # Nobody =>
        <<"W", l>> \in Held(writer[l]) \/ (At(writer[l], "Lock") /\ StepOf(writer[l]).on = l)

ParkedAtIt ==
    \A l \in Locks : \A p \in parked[l] :
        At(p, "RLock") /\ StepOf(p).on = l /\ writer[l] # Nobody

\* Whoever writes is alone.
Exclusive ==
    \A p \in Procs : \A l \in Locks :
        <<"W", l>> \in Held(p) => writer[l] = p /\ Reading(l) = {}

LocksOK == LockTypes /\ WriterAtIt /\ ParkedAtIt /\ Exclusive

-----------------------------------------------------------------------------
\* Where a goroutine that is in a call stands.
LEMMA StepHere ==
    ASSUME LockTypes, NEW p \in Procs, Busy(p)
    PROVE  /\ call[p] \in Calls
           /\ pc[p] \in 1..Len(Script[call[p]])
           /\ Script[call[p]] \in Seq(Steps)
           /\ StepOf(p) \in Steps
           /\ Held(p) = StepOf(p).held
           /\ Held(p) \in SUBSET (Modes \X Locks)
<1>1. call[p] \in Calls /\ pc[p] \in 1..Len(Script[call[p]])
  BY DEF LockTypes, Busy
<1>2. Script[call[p]] \in Seq(Steps)
  BY <1>1, ScriptAssumption
<1>3. StepOf(p) \in Steps
  <2>. DEFINE s == Script[call[p]]
  <2>1. s \in Seq(Steps) /\ pc[p] \in 1..Len(s)
    BY <1>1, <1>2
  <2>2. s[pc[p]] \in Steps
    <3>. HIDE DEF s
    <3>. QED  BY <2>1
  <2>. QED  BY <2>2 DEF StepOf
<1>4. StepOf(p).held \in SUBSET (Modes \X Locks)
  BY <1>3 DEF Steps
<1>. QED  BY <1>1, <1>2, <1>3, <1>4 DEF Held

\* A step at a lock names a lock, any other a datum.
LEMMA StepAtLock ==
    ASSUME LockTypes, NEW p \in Procs, Busy(p)
    PROVE  StepOf(p).do \in {"RLock", "Lock", "RUnlock", "Unlock"} => StepOf(p).on \in Locks
<1>1. StepOf(p) \in Steps  BY StepHere
<1>. QED  BY <1>1 DEF Steps

\* What a goroutine holds that has passed its step, and one that has not.
LEMMA PassHolds ==
    ASSUME LockTypes, NEW S \in SUBSET Procs, Pass(S), \A p \in S : Busy(p)
    PROVE  /\ LockTypes' \/ ~(writer' \in [Locks -> Procs \cup {Nobody}] /\ parked' \in [Locks -> SUBSET Procs])
           /\ \A p \in Procs \ S : Busy(p)' = Busy(p) /\ (Busy(p) => StepOf(p)' = StepOf(p)) /\ Held(p)' = Held(p)
           /\ \A p \in S :
                /\ StepOf(p).do = "RUnlock" => Held(p)' \in {Held(p), Held(p) \ {<<"R", StepOf(p).on>>}}
                /\ StepOf(p).do = "Unlock" => <<"W", StepOf(p).on>> \in Held(p) /\ Held(p)' = Held(p) \ {<<"W", StepOf(p).on>>}
                /\ StepOf(p).do \notin {"RUnlock", "Unlock"} => Held(p)' = Held(p) \cup Gain(StepOf(p))
<1>1. \A p \in Procs \ S : call'[p] = call[p] /\ pc'[p] = pc[p]
  BY DEF Pass, LockTypes
<1>2. \A p \in Procs \ S : Busy(p)' = Busy(p) /\ (Busy(p) => StepOf(p)' = StepOf(p)) /\ Held(p)' = Held(p)
  BY <1>1 DEF Busy, StepOf, Held
<1>3. ASSUME NEW p \in S
      PROVE  /\ call'[p] \in Calls \cup {Idle} /\ pc'[p] \in Nat
             /\ Busy(p)' => pc'[p] \in 1..Len(Script[call'[p]])
             /\ Held(p)' = Left(call[p], pc[p])
  <2>1. Busy(p) /\ p \in Procs  OBVIOUS
  <2>2. /\ call[p] \in Calls /\ pc[p] \in 1..Len(Script[call[p]]) /\ Script[call[p]] \in Seq(Steps)
        /\ call[p] # Idle
    BY <2>1, StepHere, ProcsAssumption
  <2>3. call'[p] = (IF Ends(p) THEN Idle ELSE call[p]) /\ pc'[p] = (IF Ends(p) THEN 0 ELSE pc[p] + 1)
    BY <2>1 DEF Pass, LockTypes
  <2>4. Len(Script[call[p]]) \in Nat  BY <2>2
  <2>. QED  BY <2>2, <2>3, <2>4 DEF Ends, Busy, Held, StepOf, Left
<1>4. ASSUME NEW p \in S
      PROVE  /\ StepOf(p).do = "RUnlock" => Held(p)' \in {Held(p), Held(p) \ {<<"R", StepOf(p).on>>}}
             /\ StepOf(p).do = "Unlock" => <<"W", StepOf(p).on>> \in Held(p) /\ Held(p)' = Held(p) \ {<<"W", StepOf(p).on>>}
             /\ StepOf(p).do \notin {"RUnlock", "Unlock"} => Held(p)' = Held(p) \cup Gain(StepOf(p))
  <2>1. call[p] \in Calls /\ pc[p] \in 1..Len(Script[call[p]]) /\ Held(p) = StepOf(p).held
    BY StepHere
  <2>2. Held(p)' = Left(call[p], pc[p])
    BY <1>3
  <2>3. /\ StepOf(p).do = "RUnlock" => Left(call[p], pc[p]) \in {StepOf(p).held, StepOf(p).held \ {<<"R", StepOf(p).on>>}}
        /\ StepOf(p).do = "Unlock" => <<"W", StepOf(p).on>> \in StepOf(p).held /\ Left(call[p], pc[p]) = StepOf(p).held \ {<<"W", StepOf(p).on>>}
        /\ StepOf(p).do \notin {"RUnlock", "Unlock"} => Left(call[p], pc[p]) = StepOf(p).held \cup Gain(StepOf(p))
    BY <2>1, ScriptAssumption DEF StepOf
  <2>. QED  BY <2>1, <2>2, <2>3
<1>5. call' \in [Procs -> Calls \cup {Idle}] /\ pc' \in [Procs -> Nat]
  <2>1. \A p \in Procs : call'[p] \in Calls \cup {Idle} /\ pc'[p] \in Nat
    BY <1>1, <1>3 DEF LockTypes
  <2>. QED  BY <2>1 DEF Pass
<1>6. \A p \in Procs : Busy(p)' => pc'[p] \in 1..Len(Script[call'[p]])
  BY <1>1, <1>2, <1>3 DEF LockTypes, Busy
<1>. QED  BY <1>2, <1>4, <1>5, <1>6 DEF LockTypes

\* A step that passes leaves the types.
LEMMA PassTypes ==
    ASSUME LockTypes, NEW S \in SUBSET Procs, Pass(S), \A p \in S : Busy(p),
           writer' \in [Locks -> Procs \cup {Nobody}], parked' \in [Locks -> SUBSET Procs]
    PROVE  LockTypes'
BY PassHolds

-----------------------------------------------------------------------------
LEMMA InitOK == LocksInit => LocksOK
BY ProcsAssumption DEF LocksInit, LocksOK, LockTypes, WriterAtIt, ParkedAtIt, Exclusive, Busy, Held

LEMMA BeginOK ==
    ASSUME LocksOK, NEW p \in Procs, NEW c \in Calls, Begin(p, c)
    PROVE  LocksOK'
<1>. USE DEF LocksOK
<1>1. c \in Calls /\ c # Idle /\ Script[c] \in Seq(Steps) /\ Script[c] # <<>> /\ Script[c][1].held = {}
  BY ProcsAssumption, ScriptAssumption
<1>2. 1 \in 1..Len(Script[c])
  BY <1>1
<1>3. \A q \in Procs : q # p => call'[q] = call[q] /\ pc'[q] = pc[q]
  BY DEF Begin, LockTypes
<1>4. call'[p] = c /\ pc'[p] = 1 /\ ~Busy(p)
  BY DEF Begin, LockTypes
<1>5. \A q \in Procs : Held(q)' = Held(q) /\ (Busy(q) => Busy(q)' /\ StepOf(q)' = StepOf(q))
  BY <1>1, <1>3, <1>4 DEF Held, Busy, StepOf
<1>6. LockTypes'
  BY <1>1, <1>2, <1>3, <1>4 DEF LockTypes, Begin, Busy
<1>7. \A l \in Locks : Reading(l)' = Reading(l)
  BY <1>5 DEF Reading
<1>8. WriterAtIt'
  BY <1>5, ProcsAssumption DEF WriterAtIt, Begin, At, LockTypes
<1>9. ParkedAtIt'
  BY <1>5 DEF ParkedAtIt, Begin, At, LockTypes
<1>10. Exclusive'
  BY <1>5, <1>7 DEF Exclusive, Begin
<1>. QED  BY <1>6, <1>8, <1>9, <1>10

LEMMA StillOK ==
    ASSUME LocksOK, NEW p \in Procs, Park(p) \/ Announce(p)
    PROVE  LocksOK'
<1>. USE DEF LocksOK
<1>1. Busy(p) /\ StepOf(p).do \in {"RLock", "Lock"} /\ StepOf(p).on \in Locks
  BY StepAtLock DEF Park, Announce, At
<1>2. \A q \in Procs : Held(q)' = Held(q) /\ Busy(q)' = Busy(q) /\ StepOf(q)' = StepOf(q)
  BY DEF Park, Announce, Held, Busy, StepOf
<1>3. \A l \in Locks : Reading(l)' = Reading(l)
  BY <1>2 DEF Reading
<1>4. LockTypes'
  BY <1>1, <1>2 DEF LockTypes, Park, Announce
<1>5. WriterAtIt'
  BY <1>1, <1>2, ProcsAssumption DEF WriterAtIt, LockTypes, Park, Announce, At
<1>6. ParkedAtIt'
  BY <1>1, <1>2, ProcsAssumption DEF ParkedAtIt, LockTypes, Park, Announce, At
<1>7. Exclusive'
  BY <1>1, <1>2, <1>3, ProcsAssumption DEF Exclusive, LockTypes, Park, Announce, At
<1>. QED  BY <1>4, <1>5, <1>6, <1>7

\* Steps that pass and take no write lock and give none back.
LEMMA PassOK ==
    ASSUME LocksOK, NEW p \in Procs, RLock(p) \/ RUnlock(p) \/ Access(p)
    PROVE  LocksOK'
<1>. USE DEF LocksOK
<1>1. Busy(p) /\ Pass({p}) /\ UNCHANGED <<writer, parked>> /\ {p} \in SUBSET Procs
  BY DEF RLock, RUnlock, Access, At
<1>2. StepOf(p).do \in {"RLock", "RUnlock", "get", "set"}
  BY DEF RLock, RUnlock, Access, At
<1>3. LockTypes'
  BY <1>1, PassTypes DEF LockTypes
<1>4. \A q \in Procs : q # p => Busy(q)' = Busy(q) /\ (Busy(q) => StepOf(q)' = StepOf(q)) /\ Held(q)' = Held(q)
  BY <1>1, PassHolds
<1>5. /\ \A l \in Locks : <<"W", l>> \in Held(p)' <=> <<"W", l>> \in Held(p)
      /\ \A l \in Locks : <<"R", l>> \in Held(p)' => <<"R", l>> \in Held(p) \/ (StepOf(p).do = "RLock" /\ l = StepOf(p).on)
  <2>1. \/ StepOf(p).do = "RUnlock" /\ Held(p)' \in {Held(p), Held(p) \ {<<"R", StepOf(p).on>>}}
        \/ StepOf(p).do # "RUnlock" /\ Held(p)' = Held(p) \cup Gain(StepOf(p))
    BY <1>1, <1>2, PassHolds
  <2>2. Gain(StepOf(p)) = IF StepOf(p).do = "RLock" THEN {<<"R", StepOf(p).on>>} ELSE {}
    BY <1>2 DEF Gain
  <2>. QED  BY <2>1, <2>2
<1>6. \A l \in Locks : p \in parked[l] => FALSE
  BY <1>2 DEF ParkedAtIt, At, RLock, RUnlock, Access
<1>7. WriterAtIt'
  BY <1>1, <1>2, <1>4, <1>5, ProcsAssumption DEF WriterAtIt, At, LockTypes
<1>8. ParkedAtIt'
  BY <1>1, <1>4, <1>6 DEF ParkedAtIt, At, LockTypes
<1>9. Exclusive'
  <2>1. \A q \in Procs, l \in Locks : <<"W", l>> \in Held(q)' => <<"W", l>> \in Held(q)
    BY <1>4, <1>5
  <2>2. ASSUME NEW q \in Procs, NEW l \in Locks, <<"W", l>> \in Held(q)
        PROVE  Reading(l)' = {}
    <3>1. writer[l] = q /\ Reading(l) = {}
      BY <2>2 DEF Exclusive
    <3>2. ~(StepOf(p).do = "RLock" /\ l = StepOf(p).on)
      BY <1>2, <3>1, ProcsAssumption DEF RLock, RUnlock, Access, At
    <3>. QED  BY <1>4, <1>5, <3>1, <3>2 DEF Reading
  <2>. QED  BY <1>1, <2>1, <2>2 DEF Exclusive
<1>. QED  BY <1>3, <1>7, <1>8, <1>9

LEMMA LockOK ==
    ASSUME LocksOK, NEW p \in Procs, Lock(p)
    PROVE  LocksOK'
<1>. USE DEF LocksOK
<1>. DEFINE k == StepOf(p).on
<1>1. Busy(p) /\ Pass({p}) /\ UNCHANGED <<writer, parked>> /\ {p} \in SUBSET Procs /\ StepOf(p).do = "Lock"
      /\ k \in Locks /\ writer[k] = p /\ Reading(k) = {}
  BY StepAtLock DEF Lock, At
<1>2. LockTypes'
  BY <1>1, PassTypes DEF LockTypes
<1>3. \A q \in Procs : q # p => Busy(q)' = Busy(q) /\ (Busy(q) => StepOf(q)' = StepOf(q)) /\ Held(q)' = Held(q)
  BY <1>1, PassHolds
<1>4. Held(p)' = Held(p) \cup {<<"W", k>>}
  BY <1>1, PassHolds DEF Gain
<1>5. \A l \in Locks : Reading(l)' = Reading(l)
  BY <1>3, <1>4 DEF Reading
<1>6. WriterAtIt'
  BY <1>1, <1>3, <1>4, ProcsAssumption DEF WriterAtIt, At, LockTypes
<1>7. ParkedAtIt'
  BY <1>1, <1>3 DEF ParkedAtIt, At, LockTypes
<1>8. Exclusive'
  BY <1>1, <1>3, <1>4, <1>5 DEF Exclusive
<1>. QED  BY <1>2, <1>6, <1>7, <1>8

LEMMA UnlockOK ==
    ASSUME LocksOK, NEW p \in Procs, Unlock(p)
    PROVE  LocksOK'
<1>. USE DEF LocksOK
<1>. DEFINE k == StepOf(p).on
            S == {p} \cup parked[k]
<1>1. Busy(p) /\ Pass(S) /\ k \in Locks /\ StepOf(p).do = "Unlock"
      /\ writer' = [writer EXCEPT ![k] = Nobody] /\ parked' = [parked EXCEPT ![k] = {}]
  BY StepAtLock DEF Unlock, At
<1>2. S \in SUBSET Procs /\ \A q \in S : Busy(q) /\ StepOf(q).on = k /\ StepOf(q).do \in {"Unlock", "RLock"}
                              /\ (q # p => StepOf(q).do = "RLock")
  BY <1>1 DEF LockTypes, ParkedAtIt, At
<1>3. LockTypes'
  BY <1>1, <1>2, PassTypes DEF LockTypes
<1>4. \A q \in Procs \ S : Busy(q)' = Busy(q) /\ (Busy(q) => StepOf(q)' = StepOf(q)) /\ Held(q)' = Held(q)
  BY <1>1, <1>2, PassHolds
<1>5. <<"W", k>> \in Held(p) /\ Held(p)' = Held(p) \ {<<"W", k>>}
  BY <1>1, <1>2, PassHolds
<1>6. \A q \in S : q # p => Held(q)' = Held(q) \cup {<<"R", k>>}
  <2>. SUFFICES ASSUME NEW q \in S, q # p PROVE Held(q)' = Held(q) \cup {<<"R", k>>}
    OBVIOUS
  <2>1. StepOf(q).do = "RLock" /\ StepOf(q).on = k
    BY <1>2
  <2>2. Held(q)' = Held(q) \cup Gain(StepOf(q))
    BY <1>1, <1>2, <2>1, PassHolds
  <2>. QED  BY <2>1, <2>2 DEF Gain
<1>7. writer[k] = p /\ Reading(k) = {}
  BY <1>1, <1>5 DEF Exclusive
<1>8. \A q \in Procs : \A l \in Locks : <<"W", l>> \in Held(q)' => <<"W", l>> \in Held(q) /\ l # k
  <2>1. \A q \in Procs : <<"W", k>> \in Held(q) => q = p
    BY <1>1, <1>7 DEF Exclusive
  <2>. QED  BY <1>4, <1>5, <1>6, <2>1
<1>9. \A l \in Locks : l # k => Reading(l)' = Reading(l)
  BY <1>4, <1>5, <1>6 DEF Reading
<1>10. \A l \in Locks : writer'[l] # Nobody => l # k /\ writer'[l] = writer[l] /\ writer[l] \in Procs
  BY <1>1 DEF LockTypes
<1>11. WriterAtIt'
  <2>. SUFFICES ASSUME NEW l \in Locks, NEW q \in Procs, writer'[l] = q, writer[l] = q, l # k
                PROVE  <<"W", l>> \in Held(q)' \/ (At(q, "Lock")' /\ StepOf(q)'.on = l)
    BY <1>10 DEF WriterAtIt, At
  <2>2. <<"W", l>> \in Held(q) \/ (At(q, "Lock") /\ StepOf(q).on = l)
    BY ProcsAssumption DEF WriterAtIt
  <2>3. CASE <<"W", l>> \in Held(q)
    BY <2>3, <1>4, <1>5, <1>6
  <2>4. CASE At(q, "Lock") /\ StepOf(q).on = l
    <3>1. q \notin S
      BY <1>2, <2>4 DEF At
    <3>. QED  BY <1>4, <2>4, <3>1 DEF At
  <2>. QED  BY <2>2, <2>3, <2>4
<1>12. ParkedAtIt'
  <2>. SUFFICES ASSUME NEW l \in Locks, NEW q \in parked'[l]
                PROVE  At(q, "RLock")' /\ StepOf(q)'.on = l /\ writer'[l] # Nobody
    BY DEF ParkedAtIt
  <2>1. l # k /\ q \in parked[l] /\ q \in Procs
    BY <1>1 DEF LockTypes
  <2>2. At(q, "RLock") /\ StepOf(q).on = l /\ writer[l] # Nobody
    BY <2>1 DEF ParkedAtIt
  <2>3. q \notin S
    BY <1>2, <2>1, <2>2
  <2>. QED  BY <1>1, <1>4, <2>1, <2>2, <2>3 DEF At, LockTypes
<1>13. Exclusive'
  BY <1>1, <1>8, <1>9 DEF Exclusive, LockTypes
<1>. QED  BY <1>3, <1>11, <1>12, <1>13

-----------------------------------------------------------------------------
(***************************************************************************)
(* The locks exclude: whoever writes is alone, and a goroutine is parked   *)
(* only behind a writer (sync.RWMutex as the calls of the engine use it).  *)
(***************************************************************************)
THEOREM LocksCorrect == LocksSpec => []LocksOK
<1>1. ASSUME LocksOK, [LocksNext]_lockVars PROVE LocksOK'
  <2>1. CASE UNCHANGED lockVars
    <3>1. call' = call /\ pc' = pc /\ writer' = writer /\ parked' = parked
      BY <2>1 DEF lockVars
    <3>2. LockTypes'
      BY <1>1, <3>1 DEF LocksOK, LockTypes, Busy
    <3>3. WriterAtIt'
      BY <1>1, <3>1 DEF LocksOK, WriterAtIt, Held, Busy, StepOf, At
    <3>4. ParkedAtIt'
      BY <1>1, <3>1 DEF LocksOK, ParkedAtIt, Busy, StepOf, At
    <3>5. Exclusive'
      BY <1>1, <3>1 DEF LocksOK, Exclusive, Reading, Held, Busy, StepOf
    <3> QED
      BY <3>2, <3>3, <3>4, <3>5 DEF LocksOK
  <2>2. ASSUME NEW p \in Procs, NEW c \in Calls, Begin(p, c) PROVE LocksOK'
    BY <1>1, <2>2, BeginOK
  <2>3. ASSUME NEW p \in Procs, Park(p) \/ Announce(p) PROVE LocksOK'
    BY <1>1, <2>3, StillOK
  <2>4. ASSUME NEW p \in Procs, RLock(p) \/ RUnlock(p) \/ Access(p) PROVE LocksOK'
    BY <1>1, <2>4, PassOK
  <2>5. ASSUME NEW p \in Procs, Lock(p) PROVE LocksOK'
    BY <1>1, <2>5, LockOK
  <2>6. ASSUME NEW p \in Procs, Unlock(p) PROVE LocksOK'
    BY <1>1, <2>6, UnlockOK
  <2>. QED  BY <1>1, <2>1, <2>2, <2>3, <2>4, <2>5, <2>6 DEF LocksNext, Go
<1>. QED  BY <1>1, InitOK, PTL DEF LocksSpec

(***************************************************************************)
(* TypeOK, for calls that keep the discipline.                             *)
(***************************************************************************)
THEOREM TypeCorrect == Ordered /\ Guarded => (LocksSpec => []TypeOK)
<1>. SUFFICES ASSUME Ordered, Guarded PROVE LocksSpec => []TypeOK
  OBVIOUS
<1>1. LocksOK => TypeOK
  BY DEF LocksOK, LockTypes, WriterAtIt, ParkedAtIt, TypeOK
<1>. QED  BY <1>1, LocksCorrect, PTL

-----------------------------------------------------------------------------
\* Whoever waits for a lock, and not for himself, waits for one that somebody has.
LEMMA SomebodyHasIt ==
    ASSUME LocksOK, NEW p \in Procs, Stuck(p), ~OnItself(p),
           \A q \in Procs : Busy(q) => Stuck(q)
    PROVE  \E q \in Procs, m \in Modes : <<m, StepOf(p).on>> \in Held(q)
<1>. USE DEF LocksOK
<1>. DEFINE l == StepOf(p).on
<1>1. Busy(p) /\ StepOf(p).do \in {"RLock", "Lock"} /\ l \in Locks
  BY StepAtLock DEF Stuck, CanGo
<1>2. writer[l] # Nobody
  BY <1>1 DEF Stuck, CanGo, ParkedAtIt
<1>. DEFINE w == writer[l]
<1>3. w \in Procs
  BY <1>1, <1>2 DEF LockTypes
<1>4. CASE <<"W", l>> \in Held(w)
  BY <1>3, <1>4 DEF Modes
<1>5. CASE <<"W", l>> \notin Held(w)
  <2>1. At(w, "Lock") /\ StepOf(w).on = l
    BY <1>1, <1>2, <1>5 DEF WriterAtIt
  <2>2. Stuck(w)
    BY <1>3, <2>1 DEF At
  <2>3. Reading(l) # {}
    BY <1>5, <2>1, <2>2 DEF Stuck, CanGo, At
  <2>. QED  BY <2>3 DEF Reading, Modes
<1>. QED  BY <1>4, <1>5

\* The one who has it waits for a lock further in.
LEMMA FurtherIn ==
    ASSUME LocksOK, Ordered, NEW q \in Procs, NEW l \in Locks, NEW m \in Modes,
           <<m, l>> \in Held(q), Stuck(q), ~OnItself(q)
    PROVE  StepOf(q).on \in Locks /\ Rank[l] < Rank[StepOf(q).on]
<1>1. Busy(q) /\ StepOf(q).do \in {"RLock", "Lock"} /\ StepOf(q).on \in Locks
  BY StepAtLock DEF Stuck, CanGo, LocksOK
<1>2. Held(q) = StepOf(q).held /\ call[q] \in Calls /\ pc[q] \in 1..Len(Script[call[q]])
  BY <1>1, StepHere DEF LocksOK
<1>3. l = StepOf(q).on \/ Rank[l] < Rank[StepOf(q).on]
  <2>1. \A h \in StepOf(q).held : h[2] = StepOf(q).on \/ Rank[h[2]] < Rank[StepOf(q).on]
    BY <1>1, <1>2 DEF Ordered, StepOf
  <2>. QED  BY <1>2, <2>1
<1>. QED  BY <1>1, <1>3 DEF OnItself

(***************************************************************************)
(* StuckOnlyOnItself: with locks taken outermost first, calls never all    *)
(* wait, but for one that asks again for a lock it has (HybridSearch,      *)
(* TermCount).                                                             *)
(***************************************************************************)
THEOREM StuckCorrect == Ordered => (LocksSpec => []StuckOnlyOnItself)
<1>. SUFFICES ASSUME Ordered PROVE LocksSpec => []StuckOnlyOnItself
  OBVIOUS
<1>1. ASSUME LocksOK PROVE StuckOnlyOnItself
  <2>. SUFFICES ASSUME NEW p \in Procs, Busy(p),
                       \A q \in Procs : Busy(q) => Stuck(q) /\ ~OnItself(q)
                PROVE  FALSE
    BY DEF StuckOnlyOnItself, Stuck, OnItself
  <2>1. ASSUME NEW q \in Procs, Busy(q)
        PROVE  /\ StepOf(q).on \in Locks
               /\ \E r \in Procs : Busy(r) /\ StepOf(r).on \in Locks /\ Rank[StepOf(q).on] < Rank[StepOf(r).on]
    <3>1. StepOf(q).on \in Locks
      BY <1>1, <2>1, StepAtLock DEF Stuck, CanGo, LocksOK
    <3>2. PICK r \in Procs, m \in Modes : <<m, StepOf(q).on>> \in Held(r)
      BY <1>1, <2>1, SomebodyHasIt
    <3>3. Busy(r)
      BY <3>2 DEF Held
    <3>. QED  BY <1>1, <3>1, <3>2, <3>3, FurtherIn
  <2>2. PICK q1 \in Procs : Busy(q1) /\ StepOf(q1).on \in Locks /\ Rank[StepOf(p).on] < Rank[StepOf(q1).on]
    BY <2>1
  <2>3. PICK q2 \in Procs : Busy(q2) /\ StepOf(q2).on \in Locks /\ Rank[StepOf(q1).on] < Rank[StepOf(q2).on]
    BY <2>1, <2>2
  <2>4. PICK q3 \in Procs : Busy(q3) /\ StepOf(q3).on \in Locks /\ Rank[StepOf(q2).on] < Rank[StepOf(q3).on]
    BY <2>1, <2>3
  <2>5. /\ Rank[StepOf(p).on] \in 1..3 /\ Rank[StepOf(q1).on] \in 1..3
        /\ Rank[StepOf(q2).on] \in 1..3 /\ Rank[StepOf(q3).on] \in 1..3
    BY <2>1, <2>2, <2>3, <2>4, DataAssumption
  <2>. QED  BY <2>2, <2>3, <2>4, <2>5
<1>. QED  BY <1>1, LocksCorrect, PTL

(***************************************************************************)
(* RacesKnown: calls that use data under their locks do not race with each *)
(* other; every race is with a careless call (PrefixSearch, Save, Reindex).*)
(***************************************************************************)
THEOREM RacesCorrect == Guarded => (LocksSpec => []RacesKnown)
<1>. SUFFICES ASSUME Guarded PROVE LocksSpec => []RacesKnown
  OBVIOUS
<1>1. ASSUME LocksOK PROVE RacesKnown
  <2>. SUFFICES ASSUME NEW p \in Procs, NEW q \in Procs, NEW x \in Data, p # q, Conflict(p, q, x),
                       <<call[p], x>> \notin Careless, <<call[q], x>> \notin Careless
                PROVE  FALSE
    BY DEF RacesKnown
  <2>1. \A r \in {p, q} :
            /\ call[r] \in Calls /\ pc[r] \in 1..Len(Script[call[r]])
            /\ Held(r) = StepOf(r).held /\ StepOf(r).on = x
    BY <1>1, StepHere DEF Conflict, LocksOK
  <2>2. \A l \in Guard[x] : <<"W", l>> \in Held(p)
    BY <2>1 DEF Guarded, Conflict, StepOf
  <2>3. \E l \in Guard[x], m \in Modes : <<m, l>> \in Held(q)
    <3>1. Guard[x] # {}
      BY DataAssumption
    <3>2. \/ \A l \in Guard[x] : <<"W", l>> \in Held(q)
          \/ \E l \in Guard[x], m \in Modes : <<m, l>> \in Held(q)
      <4>. DEFINE s == Script[call[q]][pc[q]]
      <4>1. s.do \in {"get", "set"} /\ s.on = x /\ Held(q) = s.held
        BY <2>1 DEF Conflict, StepOf
      <4>2. \/ \A l \in Guard[s.on] : <<"W", l>> \in s.held
            \/ \E l \in Guard[s.on], m \in Modes : <<m, l>> \in s.held
        BY <2>1, <4>1 DEF Guarded
      <4>. QED  BY <4>1, <4>2
    <3>. QED  BY <3>1, <3>2 DEF Modes
  <2>4. PICK l \in Guard[x], m \in Modes : <<m, l>> \in Held(q)
    BY <2>3
  <2>5. l \in Locks
    BY DataAssumption
  <2>6. writer[l] = p /\ Reading(l) = {}
    BY <1>1, <2>2, <2>5 DEF LocksOK, Exclusive
  <2>7. m = "W" \/ m = "R"
    BY DEF Modes
  <2>. QED  BY <1>1, <2>4, <2>5, <2>6, <2>7 DEF LocksOK, Exclusive, Reading
<1>. QED  BY <1>1, LocksCorrect, PTL

-----------------------------------------------------------------------------
(* States of the engine.                                                   *)

\* What may be in the document store.
Stores == [Docs -> Values \cup {NoDoc, NoValue}]

\* Memory and store, as the operations pass them on.
States == [mem : Memory, store : Stores]

\* Values of one type only, as far as K says.
OneKind(K) == \A a, b \in K : a = b

\* The schema is the mapping given, or was inferred of values of the types K.
SchemaFits(sc, K) ==
    /\ given # None => sc = given
    /\ given = None /\ sc # None => /\ sc.Index /\ sc.Type # "skip"
                                    /\ OneKind(K) => sc.Type \in K

\* The values of a field are all indexed in the same way.
Uniform(K) == logging /\ (given # None \/ OneKind(K))

\* That way, for the value v.
TypeFor(v) == IF given # None THEN given.Type ELSE Infer[v]

\* The index finds d by the value v, and in that way if values are uniform.
FoundAs(m, d, v, K) ==
    \E type \in Types : /\ TermsOf(type, v) \subseteq Visible(m, d)
                        /\ Uniform(K) => type = TypeFor(v)

\* The mapping given, if there is one, is one of an indexed field.
Indexable == given # None => given.Index /\ given.Type # "skip"

\* What a value has: a number of words, terms of each type, an inferred type.
LEMMA ValueFacts ==
    ASSUME NEW v \in Values
    PROVE  /\ Len(Tokens[v]) \in Nat
           /\ \A type \in Types : TermsOf(type, v) \in SUBSET Terms
           /\ ToSet(Tokens[v]) \in SUBSET Terms
           /\ Infer[v] \in Types \ {"skip"}
           /\ v # NoDoc /\ v # NoValue
<1>1. Len(Tokens[v]) \in Nat
  <2>1. PICK S : Tokens[v] \in Seq(S)
    BY TokensAssumption
  <2> QED
    BY <2>1, LenProperties
<1>2. ToSet(Tokens[v]) \cup {Raw[v]} \in SUBSET Terms
  BY DEF Terms
<1>3. \A type \in Types : TermsOf(type, v) \in SUBSET Terms
  BY <1>2 DEF TermsOf
<1> QED
  BY <1>1, <1>2, <1>3, InferAssumption, ValuesAssumption

\* What Resolve makes of a schema that fits.
LEMMA ResolveFacts ==
    ASSUME given \in Mappings, NEW sc \in FieldMapping \cup {None}, NEW v \in Values, NEW K,
           K \subseteq Types, SchemaFits(sc, K), Infer[v] \in K
    PROVE  /\ Resolve(sc, v) \in FieldMapping
           /\ SchemaFits(Resolve(sc, v), K)
           /\ Uniform(K) => Resolve(sc, v).Type = TypeFor(v)
           /\ Indexable => Resolve(sc, v).Index /\ Resolve(sc, v).Type # "skip"
           /\ sc # None /\ sc.Explicit => Resolve(sc, v) = sc
<1> DEFINE r == Resolve(sc, v)
<1>1. Infer[v] \in Types \ {"skip"}
  BY ValueFacts
<1>2. None \notin FieldMapping
  BY NoneAssumption
<1>3. given # None => given \in FieldMapping /\ given.Explicit
  BY MappingsAssumption
<1>4. CASE sc # None /\ (sc.Explicit \/ sc.Type = Infer[v])
  <2>1. r = sc
    BY <1>4 DEF Resolve
  <2>2. r \in FieldMapping
    BY <1>4, <2>1
  <2> HIDE DEF r
  <2> QED
    BY <1>1, <1>4, <2>1, <2>2 DEF SchemaFits, Uniform, TypeFor, Indexable, OneKind, r
<1>5. CASE ~ (sc # None /\ (sc.Explicit \/ sc.Type = Infer[v]))
  <2>1. given = None
    BY <1>3, <1>5 DEF SchemaFits
  <2>2. r = [Type |-> IF sc = None THEN Infer[v] ELSE "text",
             Index |-> TRUE, Store |-> TRUE, Explicit |-> FALSE]
    BY <1>5 DEF Resolve
  <2>3. r \in FieldMapping
    BY <1>1, <2>2 DEF FieldMapping, Types
  <2>4. r.Index = TRUE /\ r.Type = IF sc = None THEN Infer[v] ELSE "text"
    BY <2>2
  <2>5. r.Type # "skip"
    BY <1>1, <2>4
  <2>6. OneKind(K) => r.Type = Infer[v]
    BY <1>5, <2>1, <2>4 DEF SchemaFits, OneKind
  <2> HIDE DEF r
  <2>7. SchemaFits(r, K)
    BY <2>1, <2>4, <2>5, <2>6 DEF SchemaFits
  <2> QED
    BY <1>5, <2>1, <2>3, <2>4, <2>5, <2>6, <2>7 DEF Uniform, TypeFor, Indexable, r
<1> QED
  BY <1>4, <1>5

\* Add and AddRaw: the document is found by the terms, the others as before.
LEMMA AddTermsFacts ==
    ASSUME NEW m \in Memory, NEW d \in Docs, NEW terms \in SUBSET Terms
    PROVE  /\ AddTerms(m, d, terms) \in Memory
           /\ AddTerms(m, d, terms).schema = m.schema
           /\ AddTerms(m, d, terms).flushed = m.flushed
           /\ Visible(AddTerms(m, d, terms), d) = terms \cup Visible(m, d)
                                                   \cup (IF d \in m.hidden THEN m.flushed[d] ELSE {})
           /\ \A x \in Docs \ {d} : Visible(AddTerms(m, d, terms), x) = Visible(m, x)
           /\ AddTerms(m, d, terms).number = m.number
           /\ AddTerms(m, d, terms).lengths = m.lengths
<1> DEFINE old == IF d \in m.hidden THEN {} ELSE m.buffer[d]
           a == AddTerms(m, d, terms)
<1>1. a = [m EXCEPT !.buffer = [m.buffer EXCEPT ![d] = terms \cup old],
                    !.bufferDocs = m.bufferDocs \cup {d},
                    !.hidden = m.hidden \ {d}, !.count = m.count + 1]
  BY DEF AddTerms, Memory
<1>2. m.buffer \in [Docs -> SUBSET Terms] /\ m.hidden \in SUBSET Docs /\ m.count \in Int
      /\ m.bufferDocs \cup {d} \in SUBSET Docs
      /\ m.flushed \in [Docs -> SUBSET Terms]
  BY DEF Memory
<1>3. [m.buffer EXCEPT ![d] = terms \cup old] \in [Docs -> SUBSET Terms]
  BY <1>2
<1>4. a \in Memory
  <2>1. PICK b : b = [m.buffer EXCEPT ![d] = terms \cup old]
    OBVIOUS
  <2>2. b \in [Docs -> SUBSET Terms] /\ m.hidden \ {d} \in SUBSET Docs /\ m.count + 1 \in Int
    BY <1>2, <1>3, <2>1
  <2>3. a = [m EXCEPT !.buffer = b, !.bufferDocs = m.bufferDocs \cup {d},
                      !.hidden = m.hidden \ {d}, !.count = m.count + 1]
    BY <1>1, <2>1
  <2> HIDE DEF a
  <2> QED
    BY <1>2, <2>2, <2>3 DEF Memory
<1>5. /\ a.buffer = [m.buffer EXCEPT ![d] = terms \cup old]
      /\ a.hidden = m.hidden \ {d} /\ a.flushed = m.flushed
      /\ a.schema = m.schema /\ a.number = m.number /\ a.lengths = m.lengths
  BY <1>1 DEF Memory
<1> HIDE DEF a
<1>6. Visible(a, d) = terms \cup Visible(m, d) \cup (IF d \in m.hidden THEN m.flushed[d] ELSE {})
  BY <1>2, <1>5 DEF Visible
<1>7. \A x \in Docs \ {d} : Visible(a, x) = Visible(m, x)
  BY <1>2, <1>5 DEF Visible
<1> QED
  BY <1>4, <1>5, <1>6, <1>7 DEF a

\* One operation has changed this document, and of the others nothing that a search
\* or a read shows.
OnlyOf(d, r, s) ==
    \A x \in Docs \ {d} :
        /\ r.store[x] = s.store[x] /\ Visible(r.mem, x) = Visible(s.mem, x)
        /\ r.mem.lengths[x] = s.mem.lengths[x] /\ r.mem.number[x] = s.mem.number[x]

\* index.Delete hides what segments and buffer have of the document, and nothing else.
LEMMA HideFacts ==
    ASSUME NEW m \in Memory, NEW d \in Docs
    PROVE  /\ Hide(m, d) \in Memory /\ Hide(m, d).schema = m.schema
           /\ Hide(m, d).hidden = m.hidden \cup {d}
           /\ Hide(m, d).flushed = m.flushed /\ Hide(m, d).buffer = m.buffer
           /\ Hide(m, d).number = m.number /\ Hide(m, d).lengths = m.lengths
           /\ \A x \in Docs \ {d} : Visible(Hide(m, d), x) = Visible(m, x)
           /\ Visible(Hide(m, d), d) = {}
<1> DEFINE h == Hide(m, d)
<1>1. h = [m EXCEPT !.hidden = m.hidden \cup {d}, !.count = m.count - 1]
  BY DEF Hide, Memory
<1>2. m.hidden \cup {d} \in SUBSET Docs /\ m.count - 1 \in Int
  BY DEF Memory
<1> HIDE DEF h
<1>3. h \in Memory
  BY <1>1, <1>2 DEF Memory
<1>4. /\ h.schema = m.schema /\ h.hidden = m.hidden \cup {d} /\ h.flushed = m.flushed
      /\ h.buffer = m.buffer /\ h.number = m.number /\ h.lengths = m.lengths
  BY <1>1 DEF Memory
<1>5. \A x \in Docs \ {d} : Visible(h, x) = Visible(m, x)
  BY <1>4 DEF Visible
<1>6. Visible(h, d) = {}
  BY <1>4 DEF Visible
<1> QED
  BY <1>3, <1>4, <1>5, <1>6 DEF h

\* So an update, which begins with it, leaves the other documents and the store.
LEMMA HideOnly ==
    ASSUME NEW s \in States, NEW d \in Docs
    PROVE  /\ [s EXCEPT !.mem = Hide(s.mem, d)] \in States
           /\ [s EXCEPT !.mem = Hide(s.mem, d)].mem = Hide(s.mem, d)
           /\ [s EXCEPT !.mem = Hide(s.mem, d)].store = s.store
           /\ OnlyOf(d, [s EXCEPT !.mem = Hide(s.mem, d)], s)
<1>1. s.mem \in Memory /\ s.store \in Stores
  BY DEF States
<1>2. PICK h \in Memory : h = Hide(s.mem, d)
  BY <1>1, HideFacts
<1> DEFINE r == [s EXCEPT !.mem = h]
<1>3. r \in States /\ r.mem = h /\ r.store = s.store
  BY <1>1, <1>2 DEF States
<1> HIDE DEF r
<1>4. OnlyOf(d, r, s)
  BY <1>1, <1>2, <1>3, HideFacts DEF OnlyOf
<1> QED
  BY <1>2, <1>3, <1>4 DEF r

\* deleteInternal takes the document out of the store, and leaves the others.
LEMMA DeleteInternalFacts ==
    ASSUME NEW s \in States, NEW d \in Docs
    PROVE  /\ DeleteInternal(s, d) \in States
           /\ DeleteInternal(s, d).mem.schema = s.mem.schema
           /\ DeleteInternal(s, d).store[d] = NoDoc
           /\ OnlyOf(d, DeleteInternal(s, d), s)
<1>1. s.mem \in Memory /\ s.store \in Stores
  BY DEF States
<1>2. PICK h \in Memory : h = Hide(s.mem, d)
  BY <1>1, HideFacts
<1>3. h.lengths \in [Docs -> Nat] /\ h.number \in [Docs -> Values \cup {NoValue}]
  BY DEF Memory
<1>4. PICK l \in [Docs -> Nat] : l = [h.lengths EXCEPT ![d] = 0]
  BY <1>3
<1>5. PICK u \in [Docs -> Values \cup {NoValue}] : u = [h.number EXCEPT ![d] = NoValue]
  BY <1>3
<1>6. PICK t \in Stores : t = [s.store EXCEPT ![d] = NoDoc]
  BY <1>1 DEF Stores
<1>7. PICK m : m = [h EXCEPT !.lengths = l, !.number = u]
  OBVIOUS
<1>8. m \in Memory
  BY <1>7 DEF Memory
<1>9. /\ m.schema = h.schema /\ m.hidden = h.hidden /\ m.flushed = h.flushed
      /\ m.buffer = h.buffer /\ m.lengths = l /\ m.number = u
  BY <1>7 DEF Memory
<1>10. DeleteInternal(s, d) = [mem |-> m, store |-> t]
  BY <1>2, <1>4, <1>5, <1>6, <1>7 DEF DeleteInternal
<1> DEFINE r == DeleteInternal(s, d)
<1>11. r \in States /\ r.mem = m /\ r.store = t
  BY <1>8, <1>10 DEF States
<1> HIDE DEF r
<1>12. r.store[d] = NoDoc /\ r.mem.schema = s.mem.schema
  BY <1>1, <1>2, <1>6, <1>9, <1>11, HideFacts DEF Stores
<1>13. ASSUME NEW x \in Docs \ {d}
       PROVE  /\ r.store[x] = s.store[x] /\ Visible(r.mem, x) = Visible(s.mem, x)
              /\ r.mem.lengths[x] = s.mem.lengths[x] /\ r.mem.number[x] = s.mem.number[x]
  <2>1. r.store[x] = s.store[x]
    BY <1>1, <1>6, <1>11 DEF Stores
  <2>2. Visible(m, x) = Visible(h, x)
    BY <1>9 DEF Visible
  <2>3. Visible(h, x) = Visible(s.mem, x) /\ h.lengths = s.mem.lengths /\ h.number = s.mem.number
    BY <1>1, <1>2, HideFacts
  <2>4. l[x] = h.lengths[x] /\ u[x] = h.number[x]
    BY <1>3, <1>4, <1>5
  <2> QED
    BY <1>9, <1>11, <2>1, <2>2, <2>3, <2>4
<1> QED
  BY <1>11, <1>12, <1>13 DEF OnlyOf, r

\* Here r is s with the value v indexed for d under fm: the schema, the store, the
\* terms, the length, the number.
IndexedInto(r, s, d, v, fm) ==
    /\ r \in States
    /\ r.mem.schema = fm /\ r.mem.flushed = s.mem.flushed
    /\ r.store[d] \in {NoValue, v}
    /\ OnlyOf(d, r, s)
    /\ fm.Index /\ fm.Type # "skip" =>
          /\ Visible(r.mem, d) = TermsOf(fm.Type, v) \cup Visible(s.mem, d)
                 \cup (IF d \in s.mem.hidden THEN s.mem.flushed[d] ELSE {})
          /\ r.mem.lengths[d] = s.mem.lengths[d] + Len(Tokens[v])
          /\ r.mem.number[d] = IF fm.Type \in Parses[v] THEN v
                               ELSE s.mem.number[d]

\* That is what indexInternal does.
LEMMA IndexInternalFacts ==
    ASSUME NEW s \in States, NEW d \in Docs, NEW v \in Values,
           NEW fm \in FieldMapping, fm = Resolve(s.mem.schema, v)
    PROVE  IndexedInto(IndexInternal(s, d, v), s, d, v, fm)
<1>1. s.mem \in Memory /\ s.store \in Stores
  BY DEF States
<1>2. PICK m : m = [s.mem EXCEPT !.schema = fm]
  OBVIOUS
<1>3. m \in Memory
  BY <1>1, <1>2 DEF Memory
<1>4. /\ m.schema = fm /\ m.hidden = s.mem.hidden /\ m.flushed = s.mem.flushed
      /\ m.buffer = s.mem.buffer /\ m.number = s.mem.number /\ m.lengths = s.mem.lengths
  BY <1>1, <1>2 DEF Memory
<1>5. \A x \in Docs : Visible(m, x) = Visible(s.mem, x)
  BY <1>4 DEF Visible
<1>6. PICK t : t = IF fm.Index THEN AddTerms(m, d, TermsOf(fm.Type, v)) ELSE m
  OBVIOUS
<1>7. fm.Type \in Types /\ TermsOf(fm.Type, v) \in SUBSET Terms
  BY ValueFacts DEF FieldMapping
<1>8. /\ t \in Memory /\ t.schema = fm /\ t.flushed = m.flushed /\ t.number = m.number /\ t.lengths = m.lengths
      /\ \A x \in Docs \ {d} : Visible(t, x) = Visible(m, x)
  <2>1. CASE fm.Index
    BY <1>3, <1>4, <1>6, <1>7, <2>1, AddTermsFacts
  <2>2. CASE ~ fm.Index
    BY <1>3, <1>4, <1>6, <2>2
  <2> QED
    BY <2>1, <2>2
<1>9. fm.Index => Visible(t, d) = TermsOf(fm.Type, v) \cup Visible(m, d)
                                  \cup (IF d \in m.hidden THEN m.flushed[d] ELSE {})
  BY <1>3, <1>6, <1>7, AddTermsFacts
<1>10. t.lengths \in [Docs -> Nat] /\ t.number \in [Docs -> Values \cup {NoValue}]
  BY <1>8 DEF Memory
<1>11. Len(Tokens[v]) \in Nat
  BY ValueFacts
<1>12. PICK l \in [Docs -> Nat] : l = [t.lengths EXCEPT ![d] = t.lengths[d] + Len(Tokens[v])]
  <2>1. t.lengths[d] + Len(Tokens[v]) \in Nat
    BY <1>10, <1>11
  <2> QED
    BY <1>10, <2>1
<1>13. PICK u \in [Docs -> Values \cup {NoValue}] :
          u = [t.number EXCEPT ![d] = Number(fm, v, t.number[d])]
  BY <1>10 DEF Number
<1>14. PICK z : z = [t EXCEPT !.number = u, !.lengths = l]
  OBVIOUS
<1>15. z \in Memory
  BY <1>8, <1>14 DEF Memory
<1>16. /\ z.schema = fm /\ z.hidden = t.hidden /\ z.flushed = t.flushed
       /\ z.buffer = t.buffer /\ z.lengths = l /\ z.number = u
  BY <1>8, <1>14 DEF Memory
<1>17. \A x \in Docs : Visible(z, x) = Visible(t, x)
  BY <1>16 DEF Visible
<1>18. IndexInternal(s, d, v) =
          IF fm.Type = "skip" THEN [mem |-> m, store |-> [s.store EXCEPT ![d] = NoValue]]
          ELSE [mem |-> z, store |-> [s.store EXCEPT ![d] = IF fm.Store THEN v ELSE NoValue]]
  <2>1. IndexInternal(s, d, v) =
          IF fm.Type = "skip" THEN [mem |-> m, store |-> [s.store EXCEPT ![d] = NoValue]]
          ELSE [mem |-> [t EXCEPT !.number[d] = Number(fm, v, @),
                                  !.lengths[d] = @ + Len(Tokens[v])],
                store |-> [s.store EXCEPT ![d] = IF fm.Store THEN v ELSE NoValue]]
    BY <1>2, <1>6 DEF IndexInternal
  <2>2. z = [t EXCEPT !.number[d] = Number(fm, v, @),
                      !.lengths[d] = @ + Len(Tokens[v])]
    BY <1>12, <1>13, <1>14
  <2> QED
    BY <2>1, <2>2
<1> DEFINE r == IndexInternal(s, d, v)
<1>19. CASE fm.Type = "skip"
  <2>1. PICK e \in Stores : e = [s.store EXCEPT ![d] = NoValue]
    BY <1>1 DEF Stores
  <2>2. r = [mem |-> m, store |-> e]
    BY <1>18, <1>19, <2>1
  <2>3. r \in States /\ r.mem = m /\ r.store = e
    BY <1>3, <2>2 DEF States
  <2> HIDE DEF r
  <2>4. r.store[d] = NoValue /\ \A x \in Docs \ {d} : r.store[x] = s.store[x]
    BY <1>1, <2>1, <2>3 DEF Stores
  <2>5. OnlyOf(d, r, s)
    BY <1>4, <1>5, <2>3, <2>4 DEF OnlyOf
  <2>6. IndexedInto(r, s, d, v, fm)
    BY <1>4, <1>19, <2>3, <2>4, <2>5 DEF IndexedInto
  <2> QED
    BY <2>6 DEF r
<1>20. CASE fm.Type # "skip"
  <2>1. PICK w : w = IF fm.Store THEN v ELSE NoValue
    OBVIOUS
  <2>2. PICK e \in Stores : e = [s.store EXCEPT ![d] = w]
    BY <1>1, <2>1 DEF Stores
  <2>3. r = [mem |-> z, store |-> e]
    BY <1>18, <1>20, <2>1, <2>2
  <2>4. r \in States /\ r.mem = z /\ r.store = e
    BY <1>15, <2>3 DEF States
  <2> HIDE DEF r
  <2>5. r.store[d] \in {NoValue, v} /\ \A x \in Docs \ {d} : r.store[x] = s.store[x]
    BY <1>1, <2>1, <2>2, <2>4 DEF Stores
  <2>6. \A x \in Docs \ {d} : l[x] = s.mem.lengths[x] /\ u[x] = s.mem.number[x]
    BY <1>4, <1>8, <1>10, <1>12, <1>13
  <2>7. OnlyOf(d, r, s)
    BY <1>5, <1>8, <1>16, <1>17, <2>4, <2>5, <2>6 DEF OnlyOf
  <2>8. l[d] = s.mem.lengths[d] + Len(Tokens[v])
    BY <1>4, <1>8, <1>10, <1>12
  <2>9. fm.Index => u[d] = IF fm.Type \in Parses[v] THEN v ELSE s.mem.number[d]
    BY <1>4, <1>8, <1>10, <1>13 DEF Number
  <2>10. fm.Index => Visible(z, d) = TermsOf(fm.Type, v) \cup Visible(s.mem, d)
                            \cup (IF d \in s.mem.hidden THEN s.mem.flushed[d] ELSE {})
    BY <1>4, <1>5, <1>9, <1>17
  <2>11. Visible(r.mem, d) = Visible(z, d) /\ r.mem.lengths = l /\ r.mem.number = u
    BY <1>16, <2>4
  <2>12. fm.Index /\ fm.Type # "skip" =>
            /\ Visible(r.mem, d) = TermsOf(fm.Type, v) \cup Visible(s.mem, d)
                   \cup (IF d \in s.mem.hidden THEN s.mem.flushed[d] ELSE {})
            /\ r.mem.lengths[d] = s.mem.lengths[d] + Len(Tokens[v])
            /\ r.mem.number[d] = IF fm.Type \in Parses[v] THEN v
                                 ELSE s.mem.number[d]
    BY <2>8, <2>9, <2>10, <2>11
  <2>13. r.mem.schema = fm /\ r.mem.flushed = s.mem.flushed
    BY <1>4, <1>8, <1>16, <2>4
  <2>14. IndexedInto(r, s, d, v, fm)
    BY <2>4, <2>5, <2>7, <2>12, <2>13 DEF IndexedInto
  <2> QED
    BY <2>14 DEF r
<1> QED
  BY <1>19, <1>20

-----------------------------------------------------------------------------
(* One thing after another.                                                *)

\* A recursive function that applies G[1], G[2] and so on exists.
LEMMA RecursionFacts ==
    ASSUME NEW S, NEW b \in S, NEW n \in Nat, NEW G \in [1..n -> [S -> S]]
    PROVE  \E f \in [0..n -> S] : f[0] = b /\ \A i \in 1..n : f[i] = G[i][f[i - 1]]
<1> DEFINE Good(f, m) == f[0] = b /\ \A i \in 1..m : f[i] = G[i][f[i - 1]]
           P == {m \in Nat : m <= n => \E f \in [0..m -> S] : Good(f, m)}
<1>1. 0 \in P
  <2>1. [i \in 0..0 |-> b] \in [0..0 -> S] /\ Good([i \in 0..0 |-> b], 0)
    OBVIOUS
  <2> QED
    BY <2>1
<1>2. ASSUME NEW m \in Nat, m \in P
      PROVE  m + 1 \in P
  <2> SUFFICES ASSUME m + 1 <= n
               PROVE  \E f \in [0..(m + 1) -> S] : Good(f, m + 1)
    OBVIOUS
  <2>1. PICK f \in [0..m -> S] : Good(f, m)
    BY <1>2
  <2>2. f[m] \in S /\ m + 1 \in 1..n
    OBVIOUS
  <2>3. PICK e \in S : e = G[m + 1][f[m]]
    BY <2>2
  <2>4. PICK g : g = [i \in 0..(m + 1) |-> IF i = m + 1 THEN e ELSE f[i]]
    OBVIOUS
  <2>5. g \in [0..(m + 1) -> S]
    BY <2>4
  <2>6. \A i \in 0..m : g[i] = f[i]
    BY <2>4
  <2>7. g[m + 1] = e
    BY <2>4
  <2>8. ASSUME NEW i \in 1..(m + 1)
        PROVE  g[i] = G[i][g[i - 1]]
    <3>1. i - 1 \in 0..m /\ g[i - 1] = f[i - 1]
      BY <2>6
    <3>2. CASE i = m + 1
      BY <2>3, <2>7, <3>1, <3>2
    <3>3. CASE i # m + 1
      <4>1. i \in 1..m /\ g[i] = f[i]
        BY <2>6, <3>3
      <4> QED
        BY <2>1, <3>1, <4>1
    <3> QED
      BY <3>2, <3>3
  <2>9. g[0] = b
    BY <2>1, <2>6
  <2> QED
    BY <2>5, <2>8, <2>9
<1>3. n \in P
  <2> HIDE DEF P
  <2> QED
    BY <1>1, <1>2, NaturalInduction
<1> QED
  BY <1>3

\* An entry of the write-ahead log: a value, or a deletion.
LogEntry == [doc : Docs, value : Values \cup {NoDoc}]

\* What replayWAL starts with.
Start == [mem |-> Loaded, store |-> store]

\* Replay has a state after each entry.
LEMMA ReplayedFacts ==
    ASSUME log \in Seq(LogEntry), NEW S, Start \in S,
           \A s \in S, i \in 1..Len(log) : ReplayEntry(s, log[i]) \in S
    PROVE  \E f \in [0..Len(log) -> S] :
              /\ f[0] = Start
              /\ \A i \in 1..Len(log) : f[i] = ReplayEntry(f[i - 1], log[i])
              /\ Replayed = f[Len(log)]
<1>1. PICK n \in Nat : n = Len(log)
  BY LenProperties
<1> DEFINE G == [i \in 1..n |-> [s \in S |-> ReplayEntry(s, log[i])]]
           after == CHOOSE f : f = [i \in 0..n |-> IF i = 0 THEN Start
                                                   ELSE ReplayEntry(f[i - 1], log[i])]
<1>3. G \in [1..n -> [S -> S]]
  BY <1>1
<1>4. PICK f \in [0..n -> S] : f[0] = Start /\ \A i \in 1..n : f[i] = G[i][f[i - 1]]
  <2> HIDE DEF G
  <2>1. PICK b \in S : b = Start
    OBVIOUS
  <2>2. \E f \in [0..n -> S] : f[0] = b /\ \A i \in 1..n : f[i] = G[i][f[i - 1]]
    BY ONLY n \in Nat, <1>3, RecursionFacts
  <2> QED
    BY <2>1, <2>2
<1>5. ASSUME NEW i \in 1..n
      PROVE  f[i] = ReplayEntry(f[i - 1], log[i])
  <2>1. f[i - 1] \in S
    OBVIOUS
  <2> QED
    BY <1>4, <2>1
<1>6. f = [i \in 0..n |-> IF i = 0 THEN Start ELSE ReplayEntry(f[i - 1], log[i])]
  <2>1. \A i \in 0..n : f[i] = IF i = 0 THEN Start ELSE ReplayEntry(f[i - 1], log[i])
    BY <1>4, <1>5
  <2> QED
    BY <2>1
<1>7. after = [i \in 0..n |-> IF i = 0 THEN Start ELSE ReplayEntry(after[i - 1], log[i])]
  BY <1>6
<1>8. Replayed = after[n]
  BY <1>1 DEF Replayed, Start
<1> HIDE DEF after
<1>9. PICK g : g = after
  OBVIOUS
<1>10. \A i \in 0..n : g[i] = IF i = 0 THEN Start ELSE ReplayEntry(g[i - 1], log[i])
  BY <1>7, <1>9
<1> DEFINE Q == {i \in Nat : i <= n => g[i] = f[i]}
<1>11. 0 \in Q
  <2>1. 0 \in 0..n
    OBVIOUS
  <2> QED
    BY <1>4, <1>10, <2>1
<1>12. ASSUME NEW m \in Nat, m \in Q
       PROVE  m + 1 \in Q
  <2> SUFFICES ASSUME m + 1 <= n
               PROVE  g[m + 1] = f[m + 1]
    OBVIOUS
  <2>1. m + 1 \in 1..n /\ m + 1 \in 0..n /\ m + 1 # 0 /\ (m + 1) - 1 = m /\ g[m] = f[m]
    BY <1>12
  <2> QED
    BY <1>5, <1>10, <2>1
<1>13. n \in Q
  <2> HIDE DEF Q
  <2> QED
    BY <1>11, <1>12, NaturalInduction
<1> QED
  BY <1>1, <1>4, <1>5, <1>8, <1>9, <1>13

\* What Reindex starts with.
Bare == [mem |-> Shadow, store |-> store]

\* Reindex has a state after each document.
LEMMA RebuiltFacts ==
    ASSUME NEW order \in Seq(Docs), NEW S, Bare \in S,
           \A s \in S, i \in 1..Len(order) : Rebuild(s, order[i]) \in S
    PROVE  \E f \in [0..Len(order) -> S] :
              /\ f[0] = Bare
              /\ \A i \in 1..Len(order) : f[i] = Rebuild(f[i - 1], order[i])
              /\ Rebuilt(order) = f[Len(order)]
<1>1. PICK n \in Nat : n = Len(order)
  BY LenProperties
<1> DEFINE G == [i \in 1..n |-> [s \in S |-> Rebuild(s, order[i])]]
           after == CHOOSE f : f = [i \in 0..n |-> IF i = 0 THEN Bare
                                                   ELSE Rebuild(f[i - 1], order[i])]
<1>3. G \in [1..n -> [S -> S]]
  BY <1>1
<1>4. PICK f \in [0..n -> S] : f[0] = Bare /\ \A i \in 1..n : f[i] = G[i][f[i - 1]]
  <2> HIDE DEF G
  <2>1. PICK b \in S : b = Bare
    OBVIOUS
  <2>2. \E f \in [0..n -> S] : f[0] = b /\ \A i \in 1..n : f[i] = G[i][f[i - 1]]
    BY ONLY n \in Nat, <1>3, RecursionFacts
  <2> QED
    BY <2>1, <2>2
<1>5. ASSUME NEW i \in 1..n
      PROVE  f[i] = Rebuild(f[i - 1], order[i])
  <2>1. f[i - 1] \in S
    OBVIOUS
  <2> QED
    BY <1>4, <2>1
<1>6. f = [i \in 0..n |-> IF i = 0 THEN Bare ELSE Rebuild(f[i - 1], order[i])]
  <2>1. \A i \in 0..n : f[i] = IF i = 0 THEN Bare ELSE Rebuild(f[i - 1], order[i])
    BY <1>4, <1>5
  <2> QED
    BY <2>1
<1>7. after = [i \in 0..n |-> IF i = 0 THEN Bare ELSE Rebuild(after[i - 1], order[i])]
  BY <1>6
<1>8. Rebuilt(order) = after[n]
  BY <1>1 DEF Rebuilt, Bare
<1> HIDE DEF after
<1>9. PICK g : g = after
  OBVIOUS
<1>10. \A i \in 0..n : g[i] = IF i = 0 THEN Bare ELSE Rebuild(g[i - 1], order[i])
  BY <1>7, <1>9
<1> DEFINE Q == {i \in Nat : i <= n => g[i] = f[i]}
<1>11. 0 \in Q
  <2>1. 0 \in 0..n
    OBVIOUS
  <2> QED
    BY <1>4, <1>10, <2>1
<1>12. ASSUME NEW m \in Nat, m \in Q
       PROVE  m + 1 \in Q
  <2> SUFFICES ASSUME m + 1 <= n
               PROVE  g[m + 1] = f[m + 1]
    OBVIOUS
  <2>1. m + 1 \in 1..n /\ m + 1 \in 0..n /\ m + 1 # 0 /\ (m + 1) - 1 = m /\ g[m] = f[m]
    BY <1>12
  <2> QED
    BY <1>5, <1>10, <2>1
<1>13. n \in Q
  <2> HIDE DEF Q
  <2> QED
    BY <1>11, <1>12, NaturalInduction
<1> QED
  BY <1>1, <1>4, <1>5, <1>8, <1>9, <1>13

\* More types seen, and more terms found, take nothing away.
LEMMA FitsMore ==
    ASSUME NEW K, NEW L, K \subseteq L, NEW sc, SchemaFits(sc, K)
    PROVE  SchemaFits(sc, L)
BY DEF SchemaFits, OneKind

\* The same of the terms.
LEMMA FoundMore ==
    ASSUME NEW K, NEW L, K \subseteq L, NEW m, NEW w, NEW d, NEW v, FoundAs(m, d, v, K),
           Visible(m, d) \subseteq Visible(w, d)
    PROVE  FoundAs(w, d, v, L)
<1>1. PICK type \in Types : TermsOf(type, v) \subseteq Visible(m, d) /\ (Uniform(K) => type = TypeFor(v))
  BY DEF FoundAs
<1>2. Uniform(L) => Uniform(K)
  BY DEF Uniform, OneKind
<1> QED
  BY <1>1, <1>2 DEF FoundAs

\* Changes to one document add up.
LEMMA OnlyOfAgain ==
    ASSUME NEW d, NEW r, NEW t, NEW s, OnlyOf(d, r, t), OnlyOf(d, t, s)
    PROVE  OnlyOf(d, r, s)
BY DEF OnlyOf

\* What indexInternal means for the invariant.
LEMMA IndexFound ==
    ASSUME given \in Mappings, NEW s \in States, NEW d \in Docs, NEW v \in Values, NEW K,
           K \subseteq Types, SchemaFits(s.mem.schema, K), Infer[v] \in K
    PROVE  LET r == IndexInternal(s, d, v)
           IN  /\ r \in States
               /\ SchemaFits(r.mem.schema, K)
               /\ r.store[d] \in {NoValue, v}
               /\ OnlyOf(d, r, s)
               /\ Indexable => FoundAs(r.mem, d, v, K)
<1>1. s.mem.schema \in FieldMapping \cup {None}
  BY DEF States, Memory
<1>2. PICK fm \in FieldMapping : fm = Resolve(s.mem.schema, v)
  BY <1>1, ResolveFacts
<1>3. /\ SchemaFits(fm, K)
      /\ Uniform(K) => fm.Type = TypeFor(v)
      /\ Indexable => fm.Index /\ fm.Type # "skip"
  BY <1>1, <1>2, ResolveFacts
<1>4. PICK r : r = IndexInternal(s, d, v)
  OBVIOUS
<1>5. /\ r \in States
      /\ r.mem.schema = fm
      /\ r.store[d] \in {NoValue, v}
      /\ OnlyOf(d, r, s)
      /\ fm.Index /\ fm.Type # "skip" => TermsOf(fm.Type, v) \subseteq Visible(r.mem, d)
  <2>1. /\ r \in States /\ r.mem.schema = fm /\ r.store[d] \in {NoValue, v}
        /\ OnlyOf(d, r, s)
        /\ fm.Index /\ fm.Type # "skip" =>
              Visible(r.mem, d) = TermsOf(fm.Type, v) \cup Visible(s.mem, d)
                                    \cup (IF d \in s.mem.hidden THEN s.mem.flushed[d] ELSE {})
    <3>1. IndexedInto(IndexInternal(s, d, v), s, d, v, fm)
      BY <1>2, IndexInternalFacts
    <3>2. IndexedInto(r, s, d, v, fm)
      BY <1>4, <3>1
    <3> QED
      BY <3>2 DEF IndexedInto
  <2> QED
    BY <2>1
<1>6. ASSUME Indexable
      PROVE  FoundAs(r.mem, d, v, K)
  <2>1. fm.Type \in Types
    BY DEF FieldMapping
  <2>2. TermsOf(fm.Type, v) \subseteq Visible(r.mem, d)
    BY <1>3, <1>5, <1>6
  <2> QED
    BY <1>3, <2>1, <2>2 DEF FoundAs
<1> QED
  BY <1>3, <1>4, <1>5, <1>6

\* What an entry of the log leaves of its document.
Told(e, s, K) ==
    IF e.value = NoDoc THEN s.store[e.doc] = NoDoc
    ELSE s.store[e.doc] \in {NoValue, e.value} /\ (Indexable => FoundAs(s.mem, e.doc, e.value, K))

\* One entry of the log, replayed, leaves that.
LEMMA ReplayEntryFound ==
    ASSUME given \in Mappings, NEW s \in States, NEW e \in LogEntry, NEW K,
           K \subseteq Types, SchemaFits(s.mem.schema, K), e.value # NoDoc => Infer[e.value] \in K
    PROVE  LET r == ReplayEntry(s, e)
           IN  /\ r \in States
               /\ SchemaFits(r.mem.schema, K)
               /\ OnlyOf(e.doc, r, s)
               /\ Told(e, r, K)
<1>1. PICK d \in Docs, v \in Values \cup {NoDoc} : d = e.doc /\ v = e.value
  BY DEF LogEntry
<1>2. PICK r : r = ReplayEntry(s, e)
  OBVIOUS
<1>3. PICK t \in States : t = DeleteInternal(s, d)
  BY DeleteInternalFacts
<1>4. t.mem.schema = s.mem.schema /\ t.store[d] = NoDoc /\ OnlyOf(d, t, s)
  BY <1>3, DeleteInternalFacts
<1>5. CASE v = NoDoc
  <2>1. r = t
    BY <1>1, <1>2, <1>3, <1>5 DEF ReplayEntry
  <2> QED
    BY <1>1, <1>2, <1>4, <1>5, <2>1 DEF Told
<1>6. CASE v # NoDoc
  <2>1. PICK b \in States : b = IF s.store[d] = NoDoc THEN s ELSE t
    OBVIOUS
  <2>2. SchemaFits(b.mem.schema, K) /\ OnlyOf(d, b, s)
    BY <1>4, <2>1 DEF OnlyOf
  <2>3. r = IndexInternal(b, d, v)
    BY <1>1, <1>2, <1>3, <1>6, <2>1 DEF ReplayEntry
  <2>4. /\ r \in States
        /\ SchemaFits(r.mem.schema, K)
        /\ r.store[d] \in {NoValue, v}
        /\ OnlyOf(d, r, b)
        /\ Indexable => FoundAs(r.mem, d, v, K)
    BY <1>1, <1>6, <2>2, <2>3, IndexFound
  <2> QED
    BY <1>1, <1>2, <1>6, <2>2, <2>4, OnlyOfAgain DEF Told
<1> QED
  BY <1>5, <1>6

-----------------------------------------------------------------------------
(* The invariant.                                                          *)

\* Types.
WellTyped ==
    /\ given \in Mappings /\ logging \in BOOLEAN
    /\ mem \in Memory /\ store \in Stores
    /\ log \in Seq(LogEntry)
    /\ snap \in Snapshot \cup {None}
    /\ value \in [Docs -> Values \cup {NoDoc}]
    /\ kinds \subseteq Types \ {"skip"}
    /\ lost \subseteq Docs

\* The types of all values that are indexed or in the log have been seen.
Kinds ==
    /\ \A d \in Docs : value[d] # NoDoc => Infer[value[d]] \in kinds
    /\ \A i \in DOMAIN log : log[i].value # NoDoc => Infer[log[i].value] \in kinds
    /\ SchemaFits(mem.schema, kinds)
    /\ snap # None => SchemaFits(snap.mem.schema, kinds)

\* The store has the value a document was last indexed with, or the document without
\* it (a field that is not stored), or none if it was deleted.
Stored ==
    \A d \in Docs : /\ value[d] = NoDoc <=> store[d] = NoDoc
                    /\ store[d] \in {NoDoc, NoValue, value[d]}

\* Of the values w, those not in l are found.
FoundAll(m, w, l, K) ==
    \A d \in Docs \ l : Indexable /\ w[d] # NoDoc => FoundAs(m, d, w[d], K)

\* The values at the last Save.
Was == IF snap = None THEN [d \in Docs |-> NoDoc] ELSE snap.value

\* Of the first i entries of the log, the last one of d is the j-th.
LastOf(i, j, d) == j \in 1..i /\ log[j].doc = d /\ \A k \in (j + 1)..i : log[k].doc # d

\* With a log, the last entry of a document has its value; without an entry the value is
\* that of the snapshot.
LogTells ==
    /\ ~ logging => log = <<>>
    /\ logging => \A d \in Docs :
          \/ (\A j \in DOMAIN log : log[j].doc # d) /\ value[d] = Was[d]
          \/ \E j \in DOMAIN log : LastOf(Len(log), j, d) /\ log[j].value = value[d]

\* Save has flushed the buffer, and the snapshot finds what was to be found then.
SnapTells ==
    snap # None => snap.mem.buffer = Nowhere /\ FoundAll(snap.mem, snap.value, snap.lost, kinds)

\* The inductive invariant.
IInv ==
    /\ WellTyped /\ Kinds /\ Stored /\ LogTells /\ SnapTells
    /\ FoundAll(mem, value, lost, kinds)

-----------------------------------------------------------------------------
(* Replay.                                                                 *)

\* After i entries.
ReplayedSoFar(i, s) ==
    /\ SchemaFits(s.mem.schema, kinds)
    /\ \A d \in Docs :
          /\ (\A j \in 1..i : log[j].doc # d) =>
                s.store[d] = store[d] /\ Visible(s.mem, d) = Visible(Loaded, d)
          /\ \A j \in 1..i : LastOf(i, j, d) => Told(log[j], s, kinds)

\* What is done to another document does not change what an entry left.
LEMMA ToldElsewhere ==
    ASSUME NEW d, NEW r, NEW s, NEW K, OnlyOf(d, r, s), NEW e \in LogEntry, e.doc # d, Told(e, s, K)
    PROVE  Told(e, r, K)
<1>1. e.doc \in Docs \ {d}
  BY DEF LogEntry
<1>2. r.store[e.doc] = s.store[e.doc] /\ Visible(r.mem, e.doc) = Visible(s.mem, e.doc)
  BY <1>1 DEF OnlyOf
<1>3. \A v : FoundAs(s.mem, e.doc, v, K) => FoundAs(r.mem, e.doc, v, K)
  BY <1>2 DEF FoundAs
<1> QED
  BY <1>2, <1>3 DEF Told

\* One entry more.
LEMMA ReplayStep ==
    ASSUME WellTyped, Kinds, NEW i \in 1..Len(log), NEW s \in States, NEW r,
           ReplayedSoFar(i - 1, s), r = ReplayEntry(s, log[i])
    PROVE  r \in States /\ ReplayedSoFar(i, r)
<1>1. PICK n \in Nat : n = Len(log) /\ DOMAIN log = 1..n
  BY LenProperties DEF WellTyped
<1>2. \A j \in 1..n : log[j] \in LogEntry
  BY <1>1, ElementOfSeq DEF WellTyped
<1>3. i \in 1..n
  BY <1>1
<1>4. PICK e \in LogEntry : e = log[i]
  BY <1>2, <1>3
<1>5. e.value # NoDoc => Infer[e.value] \in kinds
  BY <1>1, <1>3, <1>4 DEF Kinds
<1>6. r \in States /\ SchemaFits(r.mem.schema, kinds) /\ OnlyOf(e.doc, r, s) /\ Told(e, r, kinds)
  BY <1>4, <1>5, ReplayEntryFound DEF WellTyped, ReplayedSoFar
<1>7. ASSUME NEW d \in Docs, \A j \in 1..i : log[j].doc # d
      PROVE  r.store[d] = store[d] /\ Visible(r.mem, d) = Visible(Loaded, d)
  <2>1. e.doc # d /\ \A j \in 1..(i - 1) : log[j].doc # d
    BY <1>3, <1>4, <1>7
  <2>2. s.store[d] = store[d] /\ Visible(s.mem, d) = Visible(Loaded, d)
    BY <2>1 DEF ReplayedSoFar
  <2> QED
    BY <1>6, <2>1, <2>2 DEF OnlyOf
<1>8. ASSUME NEW d \in Docs, NEW j \in 1..i, LastOf(i, j, d)
      PROVE  Told(log[j], r, kinds)
  <2>1. CASE j = i
    BY <1>4, <1>6, <2>1
  <2>2. CASE j # i
    <3>1. j \in 1..(i - 1) /\ j \in 1..n /\ LastOf(i - 1, j, d) /\ e.doc # d /\ log[j].doc = d
      BY <1>3, <1>4, <1>8, <2>2 DEF LastOf
    <3>2. Told(log[j], s, kinds) /\ log[j] \in LogEntry
      BY <1>2, <3>1 DEF ReplayedSoFar
    <3> QED
      BY <1>6, <3>1, <3>2, ToldElsewhere
  <2> QED
    BY <2>1, <2>2
<1> QED
  BY <1>6, <1>7, <1>8 DEF ReplayedSoFar

\* So after all entries.
LEMMA ReplayFound ==
    ASSUME WellTyped, Kinds, Start \in States, SchemaFits(Loaded.schema, kinds)
    PROVE  Replayed \in States /\ ReplayedSoFar(Len(log), Replayed)
<1> DEFINE S == {s \in States : SchemaFits(s.mem.schema, kinds)}
<1>1. PICK n \in Nat : n = Len(log) /\ DOMAIN log = 1..n
  BY LenProperties DEF WellTyped
<1>2. ASSUME NEW i \in 1..n
      PROVE  log[i] \in LogEntry /\ (log[i].value # NoDoc => Infer[log[i].value] \in kinds)
  BY <1>1, ElementOfSeq DEF WellTyped, Kinds
<1>3. \A s \in S, i \in 1..n : ReplayEntry(s, log[i]) \in S
  BY <1>2, ReplayEntryFound DEF WellTyped
<1>4. Start \in S /\ Start.mem = Loaded /\ Start.store = store
  BY DEF Start
<1>5. PICK f \in [0..n -> S] :
         /\ f[0] = Start
         /\ \A i \in 1..n : f[i] = ReplayEntry(f[i - 1], log[i])
         /\ Replayed = f[n]
  <2> HIDE DEF S
  <2> QED
    BY <1>1, <1>3, <1>4, ReplayedFacts DEF WellTyped
<1> DEFINE P == {i \in Nat : i <= n => ReplayedSoFar(i, f[i])}
<1>6. 0 \in P
  <2>1. ReplayedSoFar(0, Start)
    BY <1>4 DEF ReplayedSoFar
  <2> QED
    BY <1>5, <2>1
<1>7. ASSUME NEW m \in Nat, m \in P
      PROVE  m + 1 \in P
  <2> SUFFICES ASSUME m + 1 <= n
               PROVE  ReplayedSoFar(m + 1, f[m + 1])
    OBVIOUS
  <2>1. PICK i \in 1..n : i = m + 1 /\ i - 1 = m
    OBVIOUS
  <2>2. ReplayedSoFar(i - 1, f[i - 1]) /\ f[i - 1] \in States
    BY <1>7, <2>1
  <2>3. ReplayedSoFar(i, f[i])
    <3>1. PICK s \in States : s = f[i - 1]
      BY <2>2
    <3>2. PICK r : r = f[i]
      OBVIOUS
    <3>3. r = ReplayEntry(s, log[i]) /\ ReplayedSoFar(i - 1, s) /\ i \in 1..Len(log)
      BY <1>1, <1>5, <2>2, <3>1, <3>2
    <3>4. ReplayedSoFar(i, r)
      BY <3>3, ReplayStep
    <3> QED
      BY <3>2, <3>4
  <2> QED
    BY <2>1, <2>3
<1>8. n \in P
  <2> HIDE DEF P
  <2> QED
    BY <1>6, <1>7, NaturalInduction
<1>9. ReplayedSoFar(n, f[n]) /\ f[n] \in States
  BY <1>8
<1> QED
  BY <1>1, <1>5, <1>9

-----------------------------------------------------------------------------
(* Reindex.                                                                *)

\* The order of the documents: each of them once.
LEMMA OrderFacts ==
    ASSUME NEW T \in SUBSET Docs, NEW order \in SetToSeqs(T)
    PROVE  /\ order \in Seq(Docs)
           /\ \A i, j \in 1..Len(order) : order[i] = order[j] => i = j
           /\ \A d \in Docs : d \in T <=> \E i \in 1..Len(order) : order[i] = d
<1>1. IsFiniteSet(T)
  BY DocsAssumption, FS_Subset
<1>2. PICK n \in Nat : n = Cardinality(T)
  BY <1>1, FS_CardinalityType
<1>3. order \in [1..n -> T] /\ \A i, j \in 1..n : i # j => order[i] # order[j]
  BY <1>2 DEF SetToSeqs
<1>4. IsInjective(order)
  BY <1>3 DEF IsInjective
<1>5. \A d \in T : \E i \in DOMAIN order : order[i] = d
  BY <1>1, <1>2, <1>3, <1>4, EnumerationFacts
<1>6. order \in Seq(Docs) /\ Len(order) = n
  BY <1>3
<1> QED
  BY <1>3, <1>5, <1>6

\* Making a type explicit changes neither the type nor whether it fits.
LEMMA MadeExplicit ==
    ASSUME given \in Mappings, NEW K, NEW sc \in FieldMapping, SchemaFits(sc, K),
           NEW fm, fm = [sc EXCEPT !.Explicit = TRUE]
    PROVE  /\ fm \in FieldMapping /\ fm.Explicit
           /\ fm.Type = sc.Type /\ fm.Index = sc.Index
           /\ SchemaFits(fm, K)
<1>1. fm \in FieldMapping /\ fm.Explicit /\ fm.Type = sc.Type /\ fm.Index = sc.Index
  BY DEF FieldMapping
<1>2. sc # None /\ fm # None
  BY <1>1, NoneAssumption
<1>3. given # None => fm = given
  <2> SUFFICES ASSUME given # None
               PROVE  fm = given
    OBVIOUS
  <2>1. sc = given /\ given.Explicit
    BY MappingsAssumption DEF SchemaFits
  <2>2. sc.Explicit = TRUE
    BY <2>1 DEF FieldMapping
  <2>3. fm = sc
    BY <2>2 DEF FieldMapping
  <2> QED
    BY <2>1, <2>3
<1> QED
  BY <1>1, <1>2, <1>3 DEF SchemaFits

\* The shadow engine starts with an empty index and the schema of this one.
LEMMA ShadowFacts ==
    ASSUME WellTyped, Kinds
    PROVE  /\ Shadow \in Memory
           /\ SchemaFits(Shadow.schema, kinds)
           /\ mem.schema # None => /\ Shadow.schema \in FieldMapping /\ Shadow.schema.Explicit
                                   /\ Shadow.schema.Type = mem.schema.Type
                                   /\ Shadow.schema.Index = mem.schema.Index
           /\ Shadow.flushed = Nowhere
           /\ \A d \in Docs : /\ Visible(Shadow, d) = {} /\ Shadow.lengths[d] = 0
                              /\ Shadow.number[d] = NoValue
<1>1. mem.schema \in FieldMapping \cup {None} /\ given \in Mappings
  BY DEF WellTyped, Memory
<1>2. None \notin FieldMapping
  BY NoneAssumption
<1>3. PICK fm : fm = IF mem.schema = None THEN None ELSE [mem.schema EXCEPT !.Explicit = TRUE]
  OBVIOUS
<1>4. mem.schema # None => /\ fm \in FieldMapping /\ fm.Explicit
                           /\ fm.Type = mem.schema.Type /\ fm.Index = mem.schema.Index
                           /\ SchemaFits(fm, kinds)
  BY <1>1, <1>3, MadeExplicit DEF Kinds
<1>5. Shadow = New(fm)
  BY <1>3 DEF Shadow
<1>6. fm \in FieldMapping \cup {None}
  BY <1>3, <1>4
<1>7. SchemaFits(fm, kinds)
  BY <1>3, <1>4 DEF Kinds
<1>8. PICK m : m = New(fm)
  OBVIOUS
<1>9. /\ m \in Memory /\ m.schema = fm /\ m.flushed = Nowhere /\ m.buffer = Nowhere
      /\ m.lengths = [d \in Docs |-> 0] /\ m.number = [d \in Docs |-> NoValue]
  BY <1>6, <1>8 DEF New, Memory, Nowhere
<1>10. \A d \in Docs : Visible(m, d) = {} /\ m.lengths[d] = 0 /\ m.number[d] = NoValue
  BY <1>9 DEF Visible, Nowhere
<1> QED
  BY <1>4, <1>5, <1>7, <1>8, <1>9, <1>10

\* A value of the field that is in the store is still there, or no longer stored.
StoreKept(s) ==
    \A d \in Docs : s.store[d] = store[d] \/ (store[d] # NoDoc /\ s.store[d] = NoValue)

\* After i documents.
RebuiltSoFar(order, i, s) ==
    \A d \in Docs :
        /\ (\A j \in 1..i : order[j] # d) => s.store[d] = store[d]
        /\ (\E j \in 1..i : order[j] = d) /\ store[d] # NoValue /\ Indexable =>
              FoundAs(s.mem, d, store[d], kinds)

\* What addToShadowIndex leaves of the other documents.
LEMMA RebuildElsewhere ==
    ASSUME WellTyped, Kinds, Stored, NEW s \in States, NEW d \in Docs,
           store[d] # NoDoc, SchemaFits(s.mem.schema, kinds), StoreKept(s)
    PROVE  LET r == Rebuild(s, d)
           IN  /\ r \in States
               /\ SchemaFits(r.mem.schema, kinds)
               /\ StoreKept(r)
               /\ OnlyOf(d, r, s)
               /\ s.store[d] # NoValue /\ Indexable => FoundAs(r.mem, d, s.store[d], kinds)
<1>1. PICK t : t = [s EXCEPT !.mem = Hide(s.mem, d)]
  OBVIOUS
<1>2. t \in States /\ t.store = s.store /\ OnlyOf(d, t, s) /\ t.mem.schema = s.mem.schema
  BY <1>1, HideOnly, HideFacts DEF States
<1>3. PICK r : r = Rebuild(s, d)
  OBVIOUS
<1>4. CASE s.store[d] = NoValue
  <2>1. r = t
    BY <1>1, <1>2, <1>3, <1>4 DEF Rebuild
  <2> QED
    BY <1>2, <1>3, <1>4, <2>1 DEF StoreKept
<1>5. CASE s.store[d] # NoValue
  <2>1. s.store[d] = store[d] /\ store[d] \in Values /\ store[d] = value[d]
    BY <1>5 DEF StoreKept, Stored, WellTyped, Stores
  <2>2. PICK v \in Values : v = store[d]
    BY <2>1
  <2>3. Infer[v] \in kinds
    <3>1. value[d] # NoDoc
      BY <2>1, ValueFacts
    <3> QED
      BY <2>1, <2>2, <3>1 DEF Kinds
  <2>4. r = IndexInternal(t, d, v)
    BY <1>1, <1>2, <1>3, <1>5, <2>1, <2>2 DEF Rebuild
  <2>5. /\ r \in States
        /\ SchemaFits(r.mem.schema, kinds)
        /\ r.store[d] \in {NoValue, v}
        /\ OnlyOf(d, r, t)
        /\ Indexable => FoundAs(r.mem, d, v, kinds)
    BY <1>2, <2>3, <2>4, IndexFound DEF WellTyped
  <2>6. OnlyOf(d, r, s)
    BY <1>2, <2>5, OnlyOfAgain
  <2>7. StoreKept(r)
    <3> SUFFICES ASSUME NEW x \in Docs
                 PROVE  r.store[x] = store[x] \/ (store[x] # NoDoc /\ r.store[x] = NoValue)
      BY DEF StoreKept
    <3>1. CASE x = d
      BY <2>2, <2>5, <3>1
    <3>2. CASE x # d
      <4>1. r.store[x] = s.store[x]
        BY <2>6, <3>2 DEF OnlyOf
      <4> QED
        BY <4>1 DEF StoreKept
    <3> QED
      BY <3>1, <3>2
  <2> QED
    BY <1>3, <2>1, <2>2, <2>5, <2>6, <2>7
<1> QED
  BY <1>4, <1>5

\* One document more.
LEMMA RebuildStep ==
    ASSUME WellTyped, Kinds, Stored, NEW s \in States, NEW n \in Nat, NEW order \in [1..n -> Docs],
           \A i, j \in 1..n : order[i] = order[j] => i = j,
           NEW i \in 1..n, store[order[i]] # NoDoc,
           SchemaFits(s.mem.schema, kinds), StoreKept(s), RebuiltSoFar(order, i - 1, s)
    PROVE  RebuiltSoFar(order, i, Rebuild(s, order[i]))
<1>1. PICK e \in Docs : e = order[i]
  OBVIOUS
<1>2. PICK r : r = Rebuild(s, e)
  OBVIOUS
<1>3. OnlyOf(e, r, s) /\ (s.store[e] # NoValue /\ Indexable => FoundAs(r.mem, e, s.store[e], kinds))
  BY <1>1, <1>2, RebuildElsewhere
<1>4. \A j \in 1..(i - 1) : order[j] # e
  BY <1>1
<1>5. s.store[e] = store[e]
  BY <1>4 DEF RebuiltSoFar
<1>6. ASSUME NEW d \in Docs, \A j \in 1..i : order[j] # d
      PROVE  r.store[d] = store[d]
  <2>1. d # e /\ \A j \in 1..(i - 1) : order[j] # d
    BY <1>1, <1>6
  <2>2. s.store[d] = store[d]
    BY <2>1 DEF RebuiltSoFar
  <2> QED
    BY <1>3, <2>1, <2>2 DEF OnlyOf
<1>7. ASSUME NEW d \in Docs, NEW j \in 1..i, order[j] = d, store[d] # NoValue, Indexable
      PROVE  FoundAs(r.mem, d, store[d], kinds)
  <2>1. CASE j = i
    BY <1>1, <1>3, <1>5, <1>7, <2>1
  <2>2. CASE j # i
    <3>1. j \in 1..(i - 1)
      BY <2>2
    <3>2. d # e
      BY <1>4, <1>7, <3>1
    <3>3. FoundAs(s.mem, d, store[d], kinds)
      BY <1>7, <3>1 DEF RebuiltSoFar
    <3>4. Visible(r.mem, d) = Visible(s.mem, d)
      BY <1>3, <3>2 DEF OnlyOf
    <3> QED
      BY <3>3, <3>4 DEF FoundAs
  <2> QED
    BY <2>1, <2>2
<1>8. RebuiltSoFar(order, i, r)
  BY <1>6, <1>7 DEF RebuiltSoFar
<1> QED
  BY <1>1, <1>2, <1>8

\* The states Reindex goes through, one after each document of the store.
LEMMA RebuildRun ==
    ASSUME WellTyped, Kinds, Stored, NEW order \in SetToSeqs({d \in Docs : store[d] # NoDoc})
    PROVE  \E n \in Nat : \E f \in [0..n -> States] :
              /\ order \in [1..n -> Docs]
              /\ \A i, j \in 1..n : order[i] = order[j] => i = j
              /\ \A d \in Docs : store[d] # NoDoc <=> \E i \in 1..n : order[i] = d
              /\ f[0] = Bare
              /\ \A i \in 1..n : f[i] = Rebuild(f[i - 1], order[i])
              /\ \A i \in 0..n : SchemaFits(f[i].mem.schema, kinds) /\ StoreKept(f[i])
              /\ Rebuilt(order) = f[n]
<1> DEFINE S == {s \in States : SchemaFits(s.mem.schema, kinds) /\ StoreKept(s)}
<1>1. PICK T : T = {d \in Docs : store[d] # NoDoc}
  OBVIOUS
<1>2. /\ order \in Seq(Docs)
      /\ \A i, j \in 1..Len(order) : order[i] = order[j] => i = j
      /\ \A d \in Docs : d \in T <=> \E i \in 1..Len(order) : order[i] = d
  <2>1. T \in SUBSET Docs /\ order \in SetToSeqs(T)
    BY <1>1
  <2> QED
    BY <2>1, OrderFacts
<1>3. PICK n \in Nat : n = Len(order) /\ order \in [1..n -> Docs]
  BY <1>2, LenProperties
<1>4. \A i \in 1..n : order[i] \in Docs /\ store[order[i]] # NoDoc
  BY <1>1, <1>2, <1>3
<1>5. \A s \in S, i \in 1..n : Rebuild(s, order[i]) \in S
  BY <1>4, RebuildElsewhere
<1>6. Bare \in S /\ Bare.mem = Shadow /\ Bare.store = store
  <2>1. Bare \in States /\ Bare.mem = Shadow /\ Bare.store = store
    BY ShadowFacts DEF Bare, States, WellTyped
  <2> HIDE DEF Bare
  <2>2. SchemaFits(Bare.mem.schema, kinds) /\ StoreKept(Bare)
    BY <2>1, ShadowFacts DEF StoreKept
  <2> QED
    BY <2>1, <2>2
<1>7. PICK f \in [0..n -> S] :
         /\ f[0] = Bare
         /\ \A i \in 1..n : f[i] = Rebuild(f[i - 1], order[i])
         /\ Rebuilt(order) = f[n]
  <2> HIDE DEF S
  <2> QED
    BY <1>2, <1>3, <1>5, <1>6, RebuiltFacts
<1>8. \A i \in 0..n : f[i] \in States /\ SchemaFits(f[i].mem.schema, kinds) /\ StoreKept(f[i])
  BY <1>7
<1>9. f \in [0..n -> States]
  BY <1>7
<1>10. \A d \in Docs : store[d] # NoDoc <=> \E i \in 1..n : order[i] = d
  BY <1>1, <1>2, <1>3
<1> HIDE DEF S
<1> QED
  BY <1>2, <1>3, <1>7, <1>8, <1>9, <1>10

\* So Reindex finds all documents of the store with a value, and what it changes of
\* the store is that some values are no longer stored.
LEMMA RebuildFound ==
    ASSUME WellTyped, Kinds, Stored, NEW order \in SetToSeqs({d \in Docs : store[d] # NoDoc})
    PROVE  LET s == Rebuilt(order)
           IN  /\ s \in States
               /\ SchemaFits(s.mem.schema, kinds)
               /\ StoreKept(s)
               /\ \A d \in Docs : store[d] \in Values /\ Indexable => FoundAs(s.mem, d, store[d], kinds)
<1>1. PICK n, f :
         /\ n \in Nat /\ f \in [0..n -> States]
         /\ order \in [1..n -> Docs]
         /\ \A i, j \in 1..n : order[i] = order[j] => i = j
         /\ \A d \in Docs : store[d] # NoDoc <=> \E i \in 1..n : order[i] = d
         /\ f[0] = Bare
         /\ \A i \in 1..n : f[i] = Rebuild(f[i - 1], order[i])
         /\ \A i \in 0..n : SchemaFits(f[i].mem.schema, kinds) /\ StoreKept(f[i])
         /\ Rebuilt(order) = f[n]
  BY RebuildRun
<1> DEFINE P == {i \in Nat : i <= n => RebuiltSoFar(order, i, f[i])}
<1>2. 0 \in P
  <2>1. RebuiltSoFar(order, 0, Bare)
    BY DEF RebuiltSoFar, Bare
  <2> QED
    BY <1>1, <2>1
<1>3. ASSUME NEW m \in Nat, m \in P
      PROVE  m + 1 \in P
  <2> SUFFICES ASSUME m + 1 <= n
               PROVE  RebuiltSoFar(order, m + 1, f[m + 1])
    OBVIOUS
  <2>1. PICK i \in 1..n : i = m + 1 /\ i - 1 = m /\ m \in 0..n
    BY <1>1
  <2>2. PICK s \in States : s = f[i - 1]
    BY <1>1, <2>1
  <2>3. SchemaFits(s.mem.schema, kinds) /\ StoreKept(s) /\ RebuiltSoFar(order, i - 1, s)
    BY <1>1, <1>3, <2>1, <2>2
  <2>4. order[i] \in Docs /\ store[order[i]] # NoDoc
    BY <1>1
  <2>5. RebuiltSoFar(order, i, Rebuild(s, order[i]))
    BY <1>1, <2>3, <2>4, RebuildStep
  <2> QED
    BY <1>1, <2>1, <2>2, <2>5
<1>4. n \in P
  <2> HIDE DEF P
  <2> QED
    BY <1>1, <1>2, <1>3, NaturalInduction
<1>5. PICK s \in States : s = f[n] /\ SchemaFits(s.mem.schema, kinds) /\ StoreKept(s)
  BY <1>1
<1>6. RebuiltSoFar(order, n, s)
  BY <1>4, <1>5
<1>7. ASSUME NEW d \in Docs, store[d] \in Values, Indexable
      PROVE  FoundAs(s.mem, d, store[d], kinds)
  <2>1. store[d] # NoDoc /\ store[d] # NoValue
    BY <1>7, ValueFacts
  <2>2. \E j \in 1..n : order[j] = d
    BY <1>1, <2>1
  <2> QED
    BY <1>6, <1>7, <2>1, <2>2 DEF RebuiltSoFar
<1> QED
  BY <1>1, <1>5, <1>7

\* What RebuiltAlike says of a document that is rebuilt, and what holds before that.
Alike(fm, s, d) ==
    LET there == store[d] \in Values
    IN  /\ Visible(s.mem, d) = IF there THEN TermsOf(fm.Type, store[d]) ELSE {}
        /\ s.mem.lengths[d] = IF there THEN Len(Tokens[store[d]]) ELSE 0
        /\ s.mem.number[d] = IF there /\ fm.Type \in Parses[store[d]] THEN store[d] ELSE NoValue

\* Before it is rebuilt, the shadow index has nothing of it.
NotYet(s, d) ==
    /\ s.store[d] = store[d] /\ Visible(s.mem, d) = {}
    /\ s.mem.lengths[d] = 0 /\ s.mem.number[d] = NoValue

\* After i documents.
AlikeSoFar(fm, order, i, s) ==
    /\ s.mem.schema = fm /\ s.mem.flushed = Nowhere
    /\ \A d \in Docs : IF \E j \in 1..i : order[j] = d THEN Alike(fm, s, d) ELSE NotYet(s, d)

\* One document.
LEMMA RebuildAlike ==
    ASSUME NEW fm \in FieldMapping, fm.Explicit, fm.Index, fm.Type # "skip", NEW s \in States,
           NEW d \in Docs, s.mem.schema = fm, s.mem.flushed = Nowhere, NotYet(s, d),
           store[d] \in Values \cup {NoValue}
    PROVE  LET r == Rebuild(s, d)
           IN  /\ r \in States /\ r.mem.schema = fm /\ r.mem.flushed = Nowhere
               /\ OnlyOf(d, r, s) /\ Alike(fm, r, d)
<1>1. PICK t : t = [s EXCEPT !.mem = Hide(s.mem, d)]
  OBVIOUS
<1>2. /\ t \in States /\ t.store = s.store /\ OnlyOf(d, t, s)
      /\ t.mem = Hide(s.mem, d)
  BY <1>1, HideOnly
<1>3. s.mem \in Memory
  BY DEF States
<1>4. /\ t.mem.schema = fm /\ t.mem.flushed = Nowhere /\ Visible(t.mem, d) = {}
      /\ t.mem.lengths = s.mem.lengths /\ t.mem.number = s.mem.number
  BY <1>2, <1>3, HideFacts
<1>5. t.mem.lengths[d] = 0 /\ t.mem.number[d] = NoValue /\ s.store[d] = store[d]
  BY <1>4 DEF NotYet
<1>6. PICK r : r = Rebuild(s, d)
  OBVIOUS
<1>7. CASE store[d] = NoValue
  <2>1. r = t
    BY <1>1, <1>5, <1>6, <1>7 DEF Rebuild
  <2>2. store[d] \notin Values
    BY <1>7, ValuesAssumption
  <2>3. Alike(fm, t, d)
    BY <1>4, <1>5, <2>2 DEF Alike
  <2> QED
    BY <1>2, <1>4, <1>6, <2>1, <2>3
<1>8. CASE store[d] # NoValue
  <2>1. PICK v \in Values : v = store[d]
    BY <1>8
  <2>2. r = IndexInternal(t, d, v)
    BY <1>1, <1>2, <1>5, <1>6, <1>8, <2>1 DEF Rebuild
  <2>3. fm = Resolve(t.mem.schema, v)
    <3>1. fm # None
      BY NoneAssumption
    <3> QED
      BY <1>4, <3>1 DEF Resolve
  <2>4. /\ r \in States /\ r.mem.schema = fm /\ r.mem.flushed = t.mem.flushed
        /\ OnlyOf(d, r, t)
        /\ Visible(r.mem, d) = TermsOf(fm.Type, v) \cup Visible(t.mem, d)
                                   \cup (IF d \in t.mem.hidden THEN t.mem.flushed[d] ELSE {})
        /\ r.mem.lengths[d] = t.mem.lengths[d] + Len(Tokens[v])
        /\ r.mem.number[d] = IF fm.Type \in Parses[v] THEN v
                             ELSE t.mem.number[d]
    <3>0. t \in States
      BY <1>2
    <3>1. IndexedInto(IndexInternal(t, d, v), t, d, v, fm)
      BY <2>3, <3>0, IndexInternalFacts
    <3>2. IndexedInto(r, t, d, v, fm)
      BY <2>2, <3>1
    <3> QED
      BY <3>2 DEF IndexedInto
  <2>5. t.mem.flushed[d] = {}
    BY <1>4 DEF Nowhere
  <2>6. Visible(r.mem, d) = TermsOf(fm.Type, v)
    BY <1>4, <2>4, <2>5
  <2>7. r.mem.lengths[d] = Len(Tokens[v])
    <3>1. PICK k \in Nat : k = Len(Tokens[v])
      BY ValueFacts
    <3> QED
      BY <1>5, <2>4, <3>1
  <2>8. r.mem.number[d] = IF fm.Type \in Parses[v] THEN v ELSE NoValue
    BY <1>5, <2>4
  <2>9. Alike(fm, r, d)
    BY <2>1, <2>6, <2>7, <2>8 DEF Alike
  <2>10. OnlyOf(d, r, s)
    BY <1>2, <2>4, OnlyOfAgain
  <2> QED
    BY <1>4, <1>6, <2>4, <2>9, <2>10
<1> QED
  BY <1>7, <1>8

\* One document more.
LEMMA AlikeStep ==
    ASSUME NEW fm \in FieldMapping, fm.Explicit, fm.Index, fm.Type # "skip",
           NEW s \in States, NEW n \in Nat, NEW order \in [1..n -> Docs],
           \A i, j \in 1..n : order[i] = order[j] => i = j,
           NEW i \in 1..n, store[order[i]] \in Values \cup {NoValue}, AlikeSoFar(fm, order, i - 1, s)
    PROVE  Rebuild(s, order[i]) \in States /\ AlikeSoFar(fm, order, i, Rebuild(s, order[i]))
<1>1. PICK e \in Docs : e = order[i]
  OBVIOUS
<1>2. PICK r : r = Rebuild(s, e)
  OBVIOUS
<1>3. ~ \E j \in 1..(i - 1) : order[j] = e
  BY <1>1
<1>4. NotYet(s, e)
  BY <1>3 DEF AlikeSoFar
<1>5. /\ r \in States /\ r.mem.schema = fm /\ r.mem.flushed = Nowhere
      /\ OnlyOf(e, r, s) /\ Alike(fm, r, e)
  BY <1>1, <1>2, <1>4, RebuildAlike DEF AlikeSoFar
<1>6. ASSUME NEW d \in Docs
      PROVE  IF \E j \in 1..i : order[j] = d THEN Alike(fm, r, d) ELSE NotYet(r, d)
  <2>1. CASE d = e
    <3>1. \E j \in 1..i : order[j] = d
      BY <1>1, <2>1
    <3> QED
      BY <1>5, <2>1, <3>1
  <2>2. CASE d # e
    <3>1. (\E j \in 1..i : order[j] = d) <=> (\E j \in 1..(i - 1) : order[j] = d)
      BY <1>1, <2>2
    <3>2. IF \E j \in 1..(i - 1) : order[j] = d THEN Alike(fm, s, d) ELSE NotYet(s, d)
      BY DEF AlikeSoFar
    <3>3. /\ r.store[d] = s.store[d] /\ Visible(r.mem, d) = Visible(s.mem, d)
          /\ r.mem.lengths[d] = s.mem.lengths[d] /\ r.mem.number[d] = s.mem.number[d]
      BY <1>5, <2>2 DEF OnlyOf
    <3>4. (Alike(fm, s, d) => Alike(fm, r, d)) /\ (NotYet(s, d) => NotYet(r, d))
      BY <3>3 DEF Alike, NotYet
    <3> QED
      BY <3>1, <3>2, <3>4
  <2> QED
    BY <2>1, <2>2
<1>7. AlikeSoFar(fm, order, i, r)
  BY <1>5, <1>6 DEF AlikeSoFar
<1> QED
  BY <1>1, <1>2, <1>5, <1>7

\* All documents.
LEMMA RebuiltAlikeFound ==
    ASSUME WellTyped, Kinds, Stored, mem.schema # None, mem.schema.Index, mem.schema.Type # "skip",
           NEW order \in SetToSeqs({d \in Docs : store[d] # NoDoc})
    PROVE  \A d \in Docs : Alike(mem.schema, Rebuilt(order), d)
<1>0. PICK n \in Nat : \E f \in [0..n -> States] :
         /\ order \in [1..n -> Docs]
         /\ \A i, j \in 1..n : order[i] = order[j] => i = j
         /\ \A d \in Docs : store[d] # NoDoc <=> \E i \in 1..n : order[i] = d
         /\ f[0] = Bare
         /\ \A i \in 1..n : f[i] = Rebuild(f[i - 1], order[i])
         /\ \A i \in 0..n : SchemaFits(f[i].mem.schema, kinds) /\ StoreKept(f[i])
         /\ Rebuilt(order) = f[n]
  BY RebuildRun, ZenonT(30)
<1>1. PICK f :
         /\ n \in Nat /\ f \in [0..n -> States]
         /\ order \in [1..n -> Docs]
         /\ \A i, j \in 1..n : order[i] = order[j] => i = j
         /\ \A d \in Docs : store[d] # NoDoc <=> \E i \in 1..n : order[i] = d
         /\ f[0] = Bare
         /\ \A i \in 1..n : f[i] = Rebuild(f[i - 1], order[i])
         /\ Rebuilt(order) = f[n]
  BY <1>0
<1>2. \A i \in 1..n : order[i] \in Docs /\ store[order[i]] \in Values \cup {NoValue}
  BY <1>1 DEF WellTyped, Stores
<1>3. PICK fm \in FieldMapping :
         /\ fm = Shadow.schema /\ fm.Explicit
         /\ fm.Type = mem.schema.Type /\ fm.Index /\ fm.Type # "skip"
  BY ShadowFacts
<1>4. Bare.mem = Shadow /\ Bare.store = store
  BY DEF Bare
<1> DEFINE P == {i \in Nat : i <= n => AlikeSoFar(fm, order, i, f[i])}
<1>5. 0 \in P
  <2>1. AlikeSoFar(fm, order, 0, Bare)
    BY <1>3, <1>4, ShadowFacts DEF AlikeSoFar, NotYet
  <2> QED
    BY <1>1, <2>1
<1>6. ASSUME NEW m \in Nat, m \in P
      PROVE  m + 1 \in P
  <2> SUFFICES ASSUME m + 1 <= n
               PROVE  AlikeSoFar(fm, order, m + 1, f[m + 1])
    OBVIOUS
  <2>1. PICK i \in 1..n : i = m + 1 /\ i - 1 = m /\ m \in 0..n
    BY <1>1
  <2>2. PICK s \in States : s = f[i - 1]
    BY <1>1, <2>1
  <2>3. AlikeSoFar(fm, order, i - 1, s)
    BY <1>6, <2>1, <2>2
  <2>4. AlikeSoFar(fm, order, i, Rebuild(s, order[i]))
    BY <1>1, <1>2, <1>3, <2>3, AlikeStep
  <2> QED
    BY <1>1, <2>1, <2>2, <2>4
<1>7. n \in P
  <2> HIDE DEF P
  <2> QED
    BY <1>1, <1>5, <1>6, NaturalInduction
<1>8. PICK s : s = f[n]
  OBVIOUS
<1>9. AlikeSoFar(fm, order, n, s)
  BY <1>7, <1>8
<1>10. ASSUME NEW d \in Docs
       PROVE  Alike(fm, s, d)
  <2>1. CASE store[d] # NoDoc
    BY <1>1, <1>9, <2>1 DEF AlikeSoFar
  <2>2. CASE store[d] = NoDoc
    <3>1. NotYet(s, d)
      BY <1>1, <1>9, <2>2 DEF AlikeSoFar
    <3>2. store[d] \notin Values
      BY <2>2, ValuesAssumption
    <3> QED
      BY <3>1, <3>2 DEF NotYet, Alike
  <2> QED
    BY <2>1, <2>2
<1> QED
  BY <1>1, <1>3, <1>8, <1>10 DEF Alike

-----------------------------------------------------------------------------
(* Flush, Merge and Load.                                                  *)

\* Flush moves terms, and shows them as before.
LEMMA FlushFacts ==
    ASSUME NEW m \in Memory
    PROVE  /\ FlushMem(m) \in Memory /\ FlushMem(m).schema = m.schema
           /\ FlushMem(m).buffer = Nowhere
           /\ \A d \in Docs : Visible(FlushMem(m), d) = Visible(m, d)
<1>1. PICK f \in [Docs -> SUBSET Terms] : f = [d \in Docs |-> m.flushed[d] \cup m.buffer[d]]
  BY DEF Memory
<1>2. PICK c \in [Docs -> Nat] : c = [d \in Docs |-> m.copies[d] + IF d \in m.bufferDocs THEN 1 ELSE 0]
  <2>1. m.copies \in [Docs -> Nat]
    BY DEF Memory
  <2>2. \A d \in Docs : (IF d \in m.bufferDocs THEN 1 ELSE 0) \in Nat
    OBVIOUS
  <2>3. \A d \in Docs : m.copies[d] + (IF d \in m.bufferDocs THEN 1 ELSE 0) \in Nat
    BY <2>1, <2>2
  <2> QED
    BY <2>3
<1>3. PICK w : w = FlushMem(m)
  OBVIOUS
<1>4. w = [m EXCEPT !.flushed = f, !.copies = c, !.segments = m.segments + 1,
                    !.buffer = Nowhere, !.bufferDocs = {}]
  BY <1>1, <1>2, <1>3 DEF FlushMem, Memory
<1>5. Nowhere \in [Docs -> SUBSET Terms] /\ m.segments + 1 \in Nat
  BY DEF Nowhere, Memory
<1>6. w \in Memory
  BY <1>4, <1>5 DEF Memory
<1>7. w.flushed = f /\ w.buffer = Nowhere /\ w.hidden = m.hidden /\ w.schema = m.schema
  BY <1>4 DEF Memory
<1>8. \A d \in Docs : Visible(w, d) = Visible(m, d)
  <2> SUFFICES ASSUME NEW d \in Docs
               PROVE  Visible(w, d) = Visible(m, d)
    OBVIOUS
  <2>1. w.buffer[d] = {} /\ w.flushed[d] = m.flushed[d] \cup m.buffer[d]
    BY <1>1, <1>7 DEF Nowhere
  <2> QED
    BY <1>7, <2>1 DEF Visible
<1> QED
  BY <1>3, <1>6, <1>7, <1>8

\* What Merge makes of memory.
Merged(m) ==
    LET kept == {d \in Docs \ m.hidden : m.flushed[d] # {}}
    IN  [m EXCEPT !.flushed = [d \in Docs |-> IF d \in kept THEN @[d] ELSE {}],
                  !.copies = [d \in Docs |-> IF d \in kept THEN 1 ELSE 0],
                  !.segments = 1, !.hidden = {}]

\* Merge drops what is hidden, and hides nothing.
LEMMA MergeFacts ==
    ASSUME NEW m \in Memory
    PROVE  /\ Merged(m) \in Memory /\ Merged(m).schema = m.schema
           /\ \A d \in Docs : Visible(m, d) \subseteq Visible(Merged(m), d)
<1> DEFINE kept == {d \in Docs \ m.hidden : m.flushed[d] # {}}
<1>1. PICK f \in [Docs -> SUBSET Terms] : f = [d \in Docs |-> IF d \in kept THEN m.flushed[d] ELSE {}]
  BY DEF Memory
<1>2. PICK c \in [Docs -> Nat] : c = [d \in Docs |-> IF d \in kept THEN 1 ELSE 0]
  OBVIOUS
<1>3. PICK w : w = Merged(m)
  OBVIOUS
<1>4. w = [m EXCEPT !.flushed = f, !.copies = c, !.segments = 1, !.hidden = {}]
  BY <1>1, <1>2, <1>3 DEF Merged, Memory
<1>5. w \in Memory
  BY <1>4 DEF Memory
<1>6. w.flushed = f /\ w.buffer = m.buffer /\ w.hidden = {} /\ w.schema = m.schema
  BY <1>4 DEF Memory
<1>7. \A d \in Docs : Visible(m, d) \subseteq Visible(w, d)
  BY <1>1, <1>6 DEF Visible
<1> QED
  BY <1>3, <1>5, <1>6, <1>7

\* The document count of the segments is a number.
LEMMA CountFacts ==
    ASSUME NEW S \in SUBSET Docs, NEW c \in [Docs -> Nat]
    PROVE  Cardinality(UNION {{d} \X (1..c[d]) : d \in S}) \in Nat
<1>1. IsFiniteSet(S)
  BY DocsAssumption, FS_Subset
<1>2. PICK f : f = [d \in S |-> {d} \X (1..c[d])]
  OBVIOUS
<1>3. PICK R : R = {{d} \X (1..c[d]) : d \in S}
  OBVIOUS
<1>4. f \in Surjection(S, R)
  BY <1>2, <1>3 DEF Surjection
<1>5. IsFiniteSet(R)
  BY <1>1, <1>4, FS_Surjection
<1>6. ASSUME NEW T \in R
      PROVE  IsFiniteSet(T)
  <2>1. PICK d \in S : T = {d} \X (1..c[d])
    BY <1>3
  <2>2. 1 \in Int /\ c[d] \in Int
    OBVIOUS
  <2>3. IsFiniteSet({d}) /\ IsFiniteSet(1..c[d])
    BY <2>2, FS_Singleton, FS_Interval
  <2> QED
    BY <2>1, <2>3, FS_Product
<1>7. IsFiniteSet(UNION R)
  BY <1>5, <1>6, FS_UNION
<1> QED
  BY <1>3, <1>7, FS_CardinalityType

\* A new index is empty.
LEMMA NewFacts ==
    ASSUME NEW fm \in FieldMapping \cup {None}
    PROVE  /\ New(fm) \in Memory /\ New(fm).schema = fm
           /\ New(fm).buffer = Nowhere /\ New(fm).flushed = Nowhere
           /\ New(fm).copies = [d \in Docs |-> 0]
           /\ \A d \in Docs : Visible(New(fm), d) = {}
<1>1. PICK m : m = New(fm)
  OBVIOUS
<1>2. /\ m \in Memory /\ m.schema = fm /\ m.flushed = Nowhere /\ m.buffer = Nowhere
      /\ m.copies = [d \in Docs |-> 0]
  BY <1>1 DEF New, Memory, Nowhere
<1>3. \A d \in Docs : Visible(m, d) = {}
  BY <1>2 DEF Visible, Nowhere
<1> QED
  BY <1>1, <1>2, <1>3

\* Load: nothing is in the buffer, and the snapshot's documents show what they did.
LEMMA LoadedFacts ==
    ASSUME WellTyped, Kinds
    PROVE  /\ Loaded \in Memory
           /\ SchemaFits(Loaded.schema, kinds)
           /\ Loaded.buffer = Nowhere
           /\ snap = None => Known = {} /\ \A d \in Docs : Visible(Loaded, d) = {}
           /\ snap # None /\ snap.mem.buffer = Nowhere =>
                 \A d \in Docs : Visible(Loaded, d) = Visible(snap.mem, d)
<1>1. given \in FieldMapping \cup {None} /\ given \in Mappings
  BY MappingsAssumption DEF WellTyped
<1>2. PICK b \in Memory :
         /\ b = New(given) /\ b.schema = given
         /\ b.buffer = Nowhere /\ b.copies = [d \in Docs |-> 0]
         /\ \A d \in Docs : Visible(b, d) = {}
  BY <1>1, NewFacts
<1>3. SchemaFits(given, kinds)
  BY DEF SchemaFits
<1>4. PICK l : l = Loaded
  OBVIOUS
<1>5. CASE snap = None
  <2>1. l = b
    BY <1>2, <1>4, <1>5 DEF Loaded
  <2>2. Known = {}
    BY <1>2, <1>4, <2>1 DEF Known
  <2> QED
    BY <1>2, <1>3, <1>4, <1>5, <2>1, <2>2
<1>6. CASE snap # None
  <2>1. PICK m \in Memory : m = snap.mem
    BY <1>6 DEF WellTyped, Snapshot
  <2>2. m.copies \in [Docs -> Nat] /\ m.schema \in FieldMapping \cup {None}
    BY DEF Memory
  <2>3. PICK n \in Nat : n = Cardinality(UNION {{d} \X (1..m.copies[d]) : d \in Docs \ m.hidden})
    BY <2>2, CountFacts
  <2>4. PICK fm : fm = IF m.schema = None THEN given ELSE [m.schema EXCEPT !.Explicit = TRUE]
    OBVIOUS
  <2>5. fm \in FieldMapping \cup {None} /\ SchemaFits(fm, kinds)
    <3>1. CASE m.schema = None
      BY <1>1, <1>3, <2>4, <3>1
    <3>2. CASE m.schema # None
      <4>1. m.schema \in FieldMapping /\ SchemaFits(m.schema, kinds)
        BY <1>6, <2>1, <2>2, <3>2 DEF Kinds
      <4>2. fm = [m.schema EXCEPT !.Explicit = TRUE]
        BY <2>4, <3>2
      <4> QED
        BY <1>1, <4>1, <4>2, MadeExplicit
    <3> QED
      BY <3>1, <3>2
  <2>6. l = [b EXCEPT !.schema = fm, !.flushed = m.flushed, !.copies = m.copies,
                      !.segments = m.segments, !.hidden = m.hidden, !.lengths = m.lengths, !.count = n]
    <3>1. l = [New(given) EXCEPT
                  !.schema = IF m.schema = None THEN @ ELSE [m.schema EXCEPT !.Explicit = TRUE],
                  !.flushed = m.flushed, !.copies = m.copies, !.segments = m.segments,
                  !.hidden = m.hidden, !.lengths = m.lengths, !.count = n]
      BY <1>4, <1>6, <2>1, <2>3 DEF Loaded
    <3>2. New(given) = b /\ New(given).schema = given
      BY <1>2
    <3> QED
      BY <2>4, <3>1, <3>2
  <2>7. l \in Memory
    <3>1. PICK f, c, g, h, z : /\ f = m.flushed /\ c = m.copies /\ g = m.segments
                               /\ h = m.hidden /\ z = m.lengths
      OBVIOUS
    <3>2. f \in [Docs -> SUBSET Terms] /\ c \in [Docs -> Nat] /\ g \in Nat /\ h \in SUBSET Docs
          /\ z \in [Docs -> Nat] /\ n \in Int
      BY <3>1 DEF Memory
    <3>3. l = [b EXCEPT !.schema = fm, !.flushed = f, !.copies = c, !.segments = g, !.hidden = h,
                        !.lengths = z, !.count = n]
      BY <2>6, <3>1
    <3> QED
      BY <2>5, <3>2, <3>3 DEF Memory
  <2>8. l.schema = fm /\ l.flushed = m.flushed /\ l.hidden = m.hidden /\ l.buffer = b.buffer
    BY <2>6 DEF Memory
  <2>9. m.buffer = Nowhere => \A d \in Docs : Visible(l, d) = Visible(m, d)
    BY <1>2, <2>8 DEF Visible
  <2> QED
    BY <1>2, <1>4, <1>6, <2>1, <2>5, <2>7, <2>8, <2>9
<1> QED
  BY <1>5, <1>6

-----------------------------------------------------------------------------
(* Steps.                                                                  *)

\* Initially nothing is indexed, logged or saved.
LEMMA InitIInv ==
    ASSUME Init
    PROVE  IInv
<1>1. given \in FieldMapping \cup {None} /\ given \in Mappings
  BY MappingsAssumption DEF Init
<1>2. mem \in Memory /\ mem.schema = given
  BY <1>1, NewFacts DEF Init
<1>3. \A d \in Docs : value[d] = NoDoc /\ store[d] = NoDoc
  BY DEF Init
<1>4. WellTyped
  BY <1>1, <1>2 DEF Init, WellTyped, Stores
<1>5. log = <<>> /\ DOMAIN log = {} /\ Len(log) = 0 /\ snap = None
  BY DEF Init
<1>6. Kinds
  BY <1>2, <1>3, <1>5 DEF Kinds, SchemaFits
<1>7. Stored
  BY <1>3 DEF Stored
<1>8. LogTells
  BY <1>3, <1>5 DEF LogTells, Was
<1>9. SnapTells /\ FoundAll(mem, value, lost, kinds)
  BY <1>3, <1>5 DEF SnapTells, FoundAll
<1> QED
  BY <1>4, <1>6, <1>7, <1>8, <1>9 DEF IInv

\* The mapping given, and whether there is a log, do not change.
LEMMA FoundAllNext ==
    ASSUME UNCHANGED <<given, logging>>, NEW m, NEW w, NEW l, NEW K, FoundAll(m, w, l, K),
           mem' = m, value' = w, lost' = l, kinds' = K
    PROVE  FoundAll(mem, value, lost, kinds)'
BY DEF FoundAll, FoundAs, Uniform, TypeFor, Indexable

\* Nor does whether the schema fits.
LEMMA SchemaFitsNext ==
    ASSUME UNCHANGED given, NEW sc, NEW K, SchemaFits(sc, K), mem'.schema = sc, kinds' = K
    PROVE  SchemaFits(mem.schema, kinds)'
BY DEF SchemaFits

\* The snapshot goes on to tell.
LEMMA SnapNext ==
    ASSUME UNCHANGED <<given, logging, snap>>, IInv, kinds \subseteq kinds'
    PROVE  SnapTells' /\ (snap # None => SchemaFits(snap.mem.schema, kinds))'
<1>1. snap # None => SchemaFits(snap.mem.schema, kinds')
  BY FitsMore DEF IInv, Kinds
<1>2. snap # None => FoundAll(snap.mem, snap.value, snap.lost, kinds')
  <2> SUFFICES ASSUME snap # None
               PROVE  FoundAll(snap.mem, snap.value, snap.lost, kinds')
    OBVIOUS
  <2>1. FoundAll(snap.mem, snap.value, snap.lost, kinds)
    BY DEF IInv, SnapTells
  <2>2. ASSUME NEW d \in Docs, NEW v, FoundAs(snap.mem, d, v, kinds)
        PROVE  FoundAs(snap.mem, d, v, kinds')
    BY <2>2, FoundMore
  <2> QED
    BY <2>1, <2>2 DEF FoundAll
<1>3. snap # None => snap.mem.buffer = Nowhere
  BY DEF IInv, SnapTells
<1>4. (snap # None => SchemaFits(snap.mem.schema, kinds))'
  BY <1>1 DEF SchemaFits
<1>5. SnapTells'
  BY <1>2, <1>3 DEF SnapTells, FoundAll, FoundAs, Uniform, TypeFor, Indexable, Nowhere
<1> QED
  BY <1>4, <1>5

\* A step on memory only, that hides nothing.
LEMMA MemoryIInv ==
    ASSUME IInv, UNCHANGED <<given, logging, store, log, snap, value, kinds, lost>>,
           mem' \in Memory, mem'.schema = mem.schema,
           \A d \in Docs : Visible(mem, d) \subseteq Visible(mem', d)
    PROVE  IInv'
<1>1. WellTyped'
  BY DEF IInv, WellTyped, Memory, FieldMapping, Types, Terms, Stores, LogEntry, Snapshot
<1>2. SnapTells' /\ (snap # None => SchemaFits(snap.mem.schema, kinds))'
  BY SnapNext
<1>3. Kinds'
  <2>1. SchemaFits(mem.schema, kinds)'
    BY SchemaFitsNext DEF IInv, Kinds
  <2> QED
    BY <1>2, <2>1 DEF IInv, Kinds
<1>4. Stored' /\ LogTells'
  BY DEF IInv, Stored, LogTells, Was, LastOf
<1>5. FoundAll(mem', value, lost, kinds)
  <2>1. ASSUME NEW d \in Docs, NEW v, FoundAs(mem, d, v, kinds)
        PROVE  FoundAs(mem', d, v, kinds)
    BY <2>1, FoundMore
  <2> QED
    BY <2>1 DEF IInv, FoundAll
<1>6. FoundAll(mem, value, lost, kinds)'
  BY <1>5, FoundAllNext
<1> QED
  BY <1>1, <1>2, <1>3, <1>4, <1>6 DEF IInv

\* A flush shows what was shown.
LEMMA FlushIInv ==
    ASSUME IInv, Flush
    PROVE  IInv'
<1>1. mem \in Memory
  BY DEF IInv, WellTyped
<1>2. mem' \in Memory /\ mem'.schema = mem.schema /\ \A d \in Docs : Visible(mem', d) = Visible(mem, d)
  BY <1>1, FlushFacts DEF Flush
<1>3. \A d \in Docs : Visible(mem, d) \subseteq Visible(mem', d)
  BY <1>2
<1> QED
  BY <1>2, <1>3, MemoryIInv DEF Flush

\* So does a merge, which drops what was hidden.
LEMMA MergeIInv ==
    ASSUME IInv, Merge
    PROVE  IInv'
<1>1. mem \in Memory
  BY DEF IInv, WellTyped
<1>2. mem' = Merged(mem)
  BY DEF Merge, Merged
<1>3. mem' \in Memory /\ mem'.schema = mem.schema /\ \A d \in Docs : Visible(mem, d) \subseteq Visible(mem', d)
  BY <1>1, <1>2, MergeFacts
<1> QED
  BY <1>3, MemoryIInv DEF Merge

\* Save keeps what memory finds, so the log may be emptied.
LEMMA SaveIInv ==
    ASSUME IInv, Save
    PROVE  IInv'
<1>1. mem \in Memory
  BY DEF IInv, WellTyped
<1>2. PICK m \in Memory :
         /\ m = FlushMem(mem) /\ m.schema = mem.schema /\ m.buffer = Nowhere
         /\ \A d \in Docs : Visible(m, d) = Visible(mem, d)
  BY <1>1, FlushFacts
<1>3. mem' = m /\ log' = <<>> /\ snap' = [mem |-> m, value |-> value, lost |-> lost]
  BY <1>2 DEF Save
<1>4. UNCHANGED <<given, logging, store, value, kinds, lost>>
  BY DEF Save
<1>5. snap' \in Snapshot
  <2>1. value \in [Docs -> Values \cup {NoDoc}] /\ lost \in SUBSET Docs
    BY DEF IInv, WellTyped
  <2> QED
    BY <1>3, <2>1 DEF Snapshot
<1>6. snap' # None /\ snap'.mem = m /\ snap'.value = value /\ snap'.lost = lost
  BY <1>3, <1>5, NoneAssumption
<1>7. WellTyped'
  <2>1. log' \in Seq(LogEntry)
    BY <1>3
  <2> QED
    BY <1>3, <1>4, <1>5, <2>1
       DEF IInv, WellTyped, Memory, FieldMapping, Types, Terms, Stores, LogEntry, Snapshot
<1>8. FoundAll(m, value, lost, kinds)
  <2>1. ASSUME NEW d \in Docs, NEW v, FoundAs(mem, d, v, kinds)
        PROVE  FoundAs(m, d, v, kinds)
    BY <1>2, <2>1, FoundMore
  <2> QED
    BY <2>1 DEF IInv, FoundAll
<1>9. FoundAll(mem, value, lost, kinds)'
  BY <1>3, <1>4, <1>8, FoundAllNext
<1>10. SnapTells'
  <2>1. FoundAll(snap.mem, snap.value, snap.lost, kinds)'
    BY <1>4, <1>6, <1>8 DEF FoundAll, FoundAs, Uniform, TypeFor, Indexable
  <2> QED
    BY <1>2, <1>6, <2>1 DEF SnapTells, Nowhere
<1>11. Kinds'
  <2>1. SchemaFits(m.schema, kinds)
    BY <1>2 DEF IInv, Kinds
  <2>2. SchemaFits(mem.schema, kinds)'
    BY <1>3, <1>4, <2>1, SchemaFitsNext
  <2>3. SchemaFits(snap.mem.schema, kinds)'
    BY <1>4, <1>6, <2>1 DEF SchemaFits
  <2>4. DOMAIN log' = {}
    BY <1>3
  <2> QED
    BY <1>4, <2>2, <2>3, <2>4 DEF IInv, Kinds
<1>12. Stored'
  BY <1>4 DEF IInv, Stored
<1>13. LogTells'
  BY <1>3, <1>4, <1>6 DEF LogTells, Was
<1> QED
  BY <1>7, <1>9, <1>10, <1>11, <1>12, <1>13 DEF IInv

\* A call writes one document and logs that.
LEMMA CallIInv ==
    ASSUME IInv, NEW r \in States, NEW e \in LogEntry, Call(r, e),
           kinds \subseteq kinds', kinds' \subseteq Types \ {"skip"},
           e.value # NoDoc => Infer[e.value] \in kinds',
           SchemaFits(r.mem.schema, kinds'), OnlyOf(e.doc, r, Now), Told(e, r, kinds')
    PROVE  IInv'
<1>1. PICK d \in Docs, v \in Values \cup {NoDoc} : d = e.doc /\ v = e.value
  BY DEF LogEntry
<1>2. /\ UNCHANGED <<given, logging, snap>> /\ mem' = r.mem /\ store' = r.store
      /\ log' = IF logging THEN Append(log, e) ELSE log
      /\ value' = [value EXCEPT ![d] = v] /\ lost' = lost \ {d}
  BY <1>1 DEF Call
<1>3. log \in Seq(LogEntry) /\ value \in [Docs -> Values \cup {NoDoc}] /\ lost \in SUBSET Docs
  BY DEF IInv, WellTyped
<1>4. PICK n \in Nat : n = Len(log) /\ DOMAIN log = 1..n
  BY <1>3, LenProperties
<1>5. PICK a \in Seq(LogEntry) :
         /\ a = Append(log, e) /\ Len(a) = n + 1 /\ DOMAIN a = 1..(n + 1)
         /\ \A i \in 1..n : a[i] = log[i]
         /\ a[n + 1] = e
  <2>1. /\ Append(log, e) \in Seq(LogEntry) /\ Len(Append(log, e)) = Len(log) + 1
        /\ DOMAIN Append(log, e) = 1..(Len(log) + 1)
        /\ \A i \in 1..Len(log) : Append(log, e)[i] = log[i]
        /\ Append(log, e)[Len(log) + 1] = e
    BY <1>3, AppendFacts
  <2>2. PICK a : a = Append(log, e)
    OBVIOUS
  <2> QED
    BY <1>4, <2>1, <2>2
<1>6. log' = IF logging THEN a ELSE log
  BY <1>2, <1>5
<1>7. log' \in Seq(LogEntry)
  BY <1>3, <1>6
<1>8. value' \in [Docs -> Values \cup {NoDoc}] /\ value'[d] = v
      /\ \A x \in Docs \ {d} : value'[x] = value[x]
  BY <1>2, <1>3
<1>9. r.mem \in Memory /\ r.store \in Stores
  BY DEF States
<1>10. WellTyped'
  <2>1. lost' \in SUBSET Docs
    BY <1>2, <1>3
  <2>2. given' \in Mappings /\ logging' \in BOOLEAN /\ snap' \in Snapshot \cup {None}
    BY <1>2 DEF IInv, WellTyped
  <2>3. mem' \in Memory /\ store' \in Stores
    BY <1>2, <1>9
  <2> QED
    BY <1>7, <1>8, <2>1, <2>2, <2>3 DEF WellTyped
<1>11. SnapTells' /\ (snap # None => SchemaFits(snap.mem.schema, kinds))'
  BY <1>2, SnapNext
<1>12. Kinds'
  <2>1. SchemaFits(mem.schema, kinds)'
    BY <1>2, SchemaFitsNext
  <2>2. \A x \in Docs : value'[x] # NoDoc => Infer[value'[x]] \in kinds'
    <3>1. \A x \in Docs : value[x] # NoDoc => Infer[value[x]] \in kinds'
      BY DEF IInv, Kinds
    <3> QED
      BY <1>1, <1>8, <3>1
  <2>3. \A i \in DOMAIN log' : log'[i].value # NoDoc => Infer[log'[i].value] \in kinds'
    <3>1. \A i \in 1..n : log[i].value # NoDoc => Infer[log[i].value] \in kinds'
      BY <1>4 DEF IInv, Kinds
    <3>2. \A i \in 1..(n + 1) : a[i].value # NoDoc => Infer[a[i].value] \in kinds'
      <4> SUFFICES ASSUME NEW i \in 1..(n + 1), a[i].value # NoDoc
                   PROVE  Infer[a[i].value] \in kinds'
        OBVIOUS
      <4>1. CASE i = n + 1
        BY <1>5, <4>1
      <4>2. CASE i # n + 1
        <5>1. i \in 1..n
          BY <4>2
        <5> QED
          BY <1>5, <3>1, <5>1
      <4> QED
        BY <4>1, <4>2
    <3> QED
      BY <1>4, <1>5, <1>6, <3>1, <3>2
  <2> QED
    BY <1>11, <2>1, <2>2, <2>3 DEF Kinds
<1>13. \A x \in Docs \ {d} :
          /\ r.store[x] = store[x] /\ Visible(r.mem, x) = Visible(mem, x)
  BY <1>1 DEF OnlyOf, Now
<1>14. Stored'
  <2> SUFFICES ASSUME NEW x \in Docs
               PROVE  /\ value'[x] = NoDoc <=> store'[x] = NoDoc
                      /\ store'[x] \in {NoDoc, NoValue, value'[x]}
    BY DEF Stored
  <2>1. CASE x # d
    BY <1>2, <1>8, <1>13, <2>1 DEF IInv, Stored
  <2>2. CASE x = d /\ v = NoDoc
    BY <1>1, <1>2, <1>8, <2>2 DEF Told
  <2>3. CASE x = d /\ v # NoDoc
    <3>1. r.store[d] \in {NoValue, v} /\ NoValue # NoDoc
      BY <1>1, <2>3, ValuesAssumption DEF Told
    <3> QED
      BY <1>2, <1>8, <2>3, <3>1
  <2> QED
    BY <2>1, <2>2, <2>3
<1>15. LogTells'
  <2>1. ~ logging => log' = <<>>
    BY <1>6 DEF IInv, LogTells
  <2>2. ASSUME logging, NEW x \in Docs
        PROVE  \/ (\A j \in DOMAIN log' : log'[j].doc # x) /\ value'[x] = Was'[x]
               \/ \E j \in DOMAIN log' : LastOf(Len(log), j, x)' /\ log'[j].value = value'[x]
    <3>1. log' = a
      BY <1>6, <2>2
    <3>2. CASE x = d
      <4>1. n + 1 \in 1..(n + 1) /\ \A k \in (n + 1 + 1)..(n + 1) : FALSE
        OBVIOUS
      <4>2. LastOf(Len(log), n + 1, x)'
        BY <1>1, <1>5, <3>1, <3>2, <4>1 DEF LastOf
      <4> QED
        BY <1>1, <1>5, <1>8, <3>1, <3>2, <4>1, <4>2
    <3>3. CASE x # d
      <4>1. CASE (\A j \in DOMAIN log : log[j].doc # x) /\ value[x] = Was[x]
        <5>1. ASSUME NEW j \in 1..(n + 1)
              PROVE  a[j].doc # x
          <6>1. CASE j = n + 1
            BY <1>1, <1>5, <3>3, <6>1
          <6>2. CASE j # n + 1
            <7>1. j \in 1..n
              BY <6>2
            <7> QED
              BY <1>4, <1>5, <4>1, <7>1
          <6> QED
            BY <6>1, <6>2
        <5>2. Was' = Was
          BY <1>2 DEF Was
        <5> QED
          BY <1>5, <1>8, <3>1, <3>3, <4>1, <5>1, <5>2
      <4>2. CASE \E j \in DOMAIN log : LastOf(Len(log), j, x) /\ log[j].value = value[x]
        <5>1. PICK j \in 1..n : LastOf(n, j, x) /\ log[j].value = value[x]
          BY <1>4, <4>2
        <5>2. j \in 1..(n + 1) /\ a[j] = log[j] /\ a[j].doc = x
          BY <1>5, <5>1 DEF LastOf
        <5>3. ASSUME NEW k \in (j + 1)..(n + 1)
              PROVE  a[k].doc # x
          <6>1. CASE k = n + 1
            BY <1>1, <1>5, <3>3, <6>1
          <6>2. CASE k # n + 1
            <7>1. k \in (j + 1)..n /\ k \in 1..n
              BY <6>2
            <7> QED
              BY <1>5, <5>1, <7>1 DEF LastOf
          <6> QED
            BY <6>1, <6>2
        <5>4. LastOf(Len(log), j, x)'
          BY <1>5, <3>1, <5>2, <5>3 DEF LastOf
        <5> QED
          BY <1>5, <1>8, <3>1, <3>3, <5>1, <5>2, <5>4
      <4> QED
        BY <2>2, <4>1, <4>2 DEF IInv, LogTells
    <3> QED
      BY <3>2, <3>3
  <2> QED
    BY <1>2, <2>1, <2>2 DEF LogTells
<1>16. FoundAll(mem', value', lost', kinds')
  <2> SUFFICES ASSUME NEW x \in Docs \ lost', Indexable, value'[x] # NoDoc
               PROVE  FoundAs(mem', x, value'[x], kinds')
    BY DEF FoundAll
  <2>1. CASE x = d
    BY <1>1, <1>2, <1>8, <2>1 DEF Told
  <2>2. CASE x # d
    <3>1. x \in Docs \ lost /\ value[x] # NoDoc /\ value'[x] = value[x]
      BY <1>2, <1>8, <2>2
    <3>2. FoundAs(mem, x, value[x], kinds)
      BY <3>1 DEF IInv, FoundAll
    <3>3. Visible(mem, x) \subseteq Visible(mem', x)
      BY <1>2, <1>13, <2>2
    <3> QED
      BY <3>1, <3>2, <3>3, FoundMore
  <2> QED
    BY <2>1, <2>2
<1>17. FoundAll(mem, value, lost, kinds)'
  BY <1>2, <1>16, FoundAllNext
<1> QED
  BY <1>10, <1>11, <1>12, <1>14, <1>15, <1>17 DEF IInv

\* The present state is one the operations work on.
LEMMA NowFacts ==
    ASSUME IInv
    PROVE  Now \in States /\ Now.mem = mem /\ Now.store = store
BY DEF IInv, WellTyped, Now, States

\* Index: the value may change the type of the field, to text.
LEMMA IndexIInv ==
    ASSUME IInv, NEW d \in Docs, NEW v \in Values, Index(d, v)
    PROVE  IInv'
<1>1. PICK now \in States : now = Now /\ now.mem = mem /\ now.store = store
  BY NowFacts
<1>2. PICK b : b = IF store[d] = NoDoc THEN now ELSE [now EXCEPT !.mem = Hide(mem, d)]
  OBVIOUS
<1>3. b \in States /\ OnlyOf(d, b, now) /\ b.mem.schema = mem.schema
  <2>1. CASE store[d] = NoDoc
    BY <1>1, <1>2, <2>1 DEF OnlyOf
  <2>2. CASE store[d] # NoDoc
    <3>1. b = [now EXCEPT !.mem = Hide(now.mem, d)]
      BY <1>1, <1>2, <2>2
    <3>2. mem \in Memory
      BY DEF IInv, WellTyped
    <3>3. Hide(mem, d).schema = mem.schema
      BY <3>2, HideFacts
    <3>4. b \in States /\ b.mem = Hide(now.mem, d) /\ OnlyOf(d, b, now)
      BY <3>1, HideOnly
    <3> QED
      BY <1>1, <3>3, <3>4
  <2> QED
    BY <2>1, <2>2
<1>4. PICK e : e = [doc |-> d, value |-> v]
  OBVIOUS
<1>5. e \in LogEntry /\ e.doc = d /\ e.value = v /\ v # NoDoc
  BY <1>4, ValueFacts DEF LogEntry
<1>6. PICK r : r = IndexInternal(b, d, v)
  OBVIOUS
<1>7. Call(r, e) /\ kinds' = kinds \cup {Infer[v]}
  BY <1>1, <1>2, <1>4, <1>6 DEF Index
<1>8. kinds \subseteq kinds' /\ kinds' \subseteq Types \ {"skip"} /\ Infer[v] \in kinds'
  BY <1>7, ValueFacts DEF IInv, WellTyped
<1>9. SchemaFits(b.mem.schema, kinds')
  BY <1>3, <1>8, FitsMore DEF IInv, Kinds
<1>10. /\ r \in States /\ SchemaFits(r.mem.schema, kinds') /\ r.store[d] \in {NoValue, v}
       /\ OnlyOf(d, r, b) /\ (Indexable => FoundAs(r.mem, d, v, kinds'))
  BY <1>3, <1>6, <1>8, <1>9, IndexFound DEF IInv, WellTyped
<1>11. OnlyOf(d, r, now)
  BY <1>3, <1>10, OnlyOfAgain
<1>12. Told(e, r, kinds')
  BY <1>5, <1>10 DEF Told
<1> QED
  BY <1>1, <1>5, <1>7, <1>8, <1>10, <1>11, <1>12, CallIInv

\* Delete: the document is no longer stored.
LEMMA DeleteIInv ==
    ASSUME IInv, NEW d \in Docs, Delete(d)
    PROVE  IInv'
<1>1. PICK now \in States : now = Now /\ now.mem = mem /\ now.store = store
  BY NowFacts
<1>2. PICK e : e = [doc |-> d, value |-> NoDoc]
  OBVIOUS
<1>3. e \in LogEntry /\ e.doc = d /\ e.value = NoDoc
  BY <1>2 DEF LogEntry
<1>4. PICK r : r = DeleteInternal(now, d)
  OBVIOUS
<1>5. Call(r, e) /\ kinds' = kinds
  BY <1>1, <1>2, <1>4 DEF Delete
<1>6. r \in States /\ r.mem.schema = mem.schema /\ r.store[d] = NoDoc /\ OnlyOf(d, r, now)
  BY <1>1, <1>4, DeleteInternalFacts
<1>7. SchemaFits(r.mem.schema, kinds') /\ kinds' \subseteq Types \ {"skip"}
  BY <1>5, <1>6 DEF IInv, Kinds, WellTyped
<1>8. Told(e, r, kinds')
  BY <1>3, <1>6 DEF Told
<1> QED
  BY <1>1, <1>3, <1>5, <1>6, <1>7, <1>8, CallIInv

\* Without a log, the documents that no segment has are indexed as texts; the others
\* show what the snapshot had.
LEMMA RecoverFacts ==
    ASSUME WellTyped, Kinds
    PROVE  LET m == RecoverDelta(Loaded)
           IN  /\ m \in Memory /\ m.schema = Loaded.schema
               /\ \A d \in Missing : TermsOf("text", store[d]) \subseteq Visible(m, d)
               /\ \A d \in Docs \ Missing : Visible(m, d) = Visible(Loaded, d)
<1>1. PICK l \in Memory : l = Loaded /\ l.buffer = Nowhere
  BY LoadedFacts
<1>2. PICK M : M = Missing
  OBVIOUS
<1>3. M \in SUBSET Docs /\ \A d \in M : store[d] \in Values
  BY <1>2 DEF Missing
<1>4. PICK n \in Nat : n = Cardinality(M)
  BY <1>3, DocsAssumption, FS_Subset, FS_CardinalityType
<1>5. PICK b \in [Docs -> SUBSET Terms] :
         b = [d \in Docs |-> IF d \in M THEN ToSet(Tokens[store[d]]) ELSE {}]
  <2>1. \A d \in M : ToSet(Tokens[store[d]]) \in SUBSET Terms
    BY <1>3, ValueFacts
  <2> QED
    BY <2>1
<1>6. l.lengths \in [Docs -> Nat] /\ l.hidden \in SUBSET Docs /\ l.count \in Int
  BY DEF Memory
<1>7. PICK z \in [Docs -> Nat] : z = [d \in Docs |-> IF d \in M THEN Len(Tokens[store[d]]) ELSE l.lengths[d]]
  <2>1. \A d \in M : Len(Tokens[store[d]]) \in Nat
    BY <1>3, ValueFacts
  <2>2. \A d \in Docs : (IF d \in M THEN Len(Tokens[store[d]]) ELSE l.lengths[d]) \in Nat
    BY <1>6, <2>1
  <2> QED
    BY <2>2
<1>8. PICK m : m = RecoverDelta(l)
  OBVIOUS
<1>9. m = [l EXCEPT !.buffer = b, !.bufferDocs = M, !.lengths = z, !.hidden = l.hidden \ M, !.count = l.count + n]
  BY <1>2, <1>4, <1>5, <1>7, <1>8 DEF RecoverDelta, Memory
<1>10. m \in Memory
  <2>3. l.hidden \ M \in SUBSET Docs
    BY <1>6
  <2>4. l.count + n \in Int
    BY <1>4, <1>6
  <2>1. PICK h \in SUBSET Docs, c \in Int : h = l.hidden \ M /\ c = l.count + n
    BY <2>3, <2>4
  <2>2. m = [l EXCEPT !.buffer = b, !.bufferDocs = M, !.lengths = z, !.hidden = h, !.count = c]
    BY <1>9, <2>1
  <2> QED
    BY <1>3, <2>2 DEF Memory
<1>11. m.buffer = b /\ m.hidden = l.hidden \ M /\ m.flushed = l.flushed /\ m.schema = l.schema
  BY <1>9 DEF Memory
<1>12. ASSUME NEW d \in M
       PROVE  TermsOf("text", store[d]) \subseteq Visible(m, d)
  <2>1. d \in Docs /\ d \notin m.hidden /\ m.buffer[d] = ToSet(Tokens[store[d]])
    BY <1>3, <1>5, <1>11
  <2> QED
    BY <2>1 DEF Visible, TermsOf
<1>13. ASSUME NEW d \in Docs \ M
       PROVE  Visible(m, d) = Visible(l, d)
  BY <1>1, <1>5, <1>11 DEF Visible, Nowhere
<1> QED
  BY <1>1, <1>2, <1>8, <1>10, <1>11, <1>12, <1>13

\* A start leaves the snapshot, the log and what was indexed.
LEMMA StartIInv ==
    ASSUME IInv, UNCHANGED <<given, logging, log, snap, value, kinds>>,
           mem' \in Memory, store' \in Stores, lost' \in SUBSET Docs,
           SchemaFits(mem'.schema, kinds), Stored', FoundAll(mem', value, lost', kinds)
    PROVE  IInv'
<1>1. WellTyped'
  BY DEF IInv, WellTyped, Memory, FieldMapping, Types, Terms, Stores, LogEntry, Snapshot
<1>2. SnapTells' /\ (snap # None => SchemaFits(snap.mem.schema, kinds))'
  BY SnapNext
<1>3. Kinds'
  <2>1. SchemaFits(mem.schema, kinds)'
    BY SchemaFitsNext
  <2> QED
    BY <1>2, <2>1 DEF IInv, Kinds
<1>4. LogTells'
  BY DEF IInv, LogTells, Was, LastOf
<1>5. FoundAll(mem, value, lost, kinds)'
  BY FoundAllNext
<1> QED
  BY <1>1, <1>2, <1>3, <1>4, <1>5 DEF IInv

\* What Load and the log, or recoverDelta, bring back.
LEMMA RestartIInv ==
    ASSUME IInv, Restart
    PROVE  IInv'
<1>1. WellTyped /\ Kinds /\ Stored
  BY DEF IInv
<1>2. UNCHANGED <<given, logging, log, snap, value, kinds>> /\ lost' = Unrecovered
  BY DEF Restart
<1>3. PICK old : old = IF snap = None THEN {} ELSE snap.lost
  OBVIOUS
<1>4. old \in SUBSET Docs /\ value \in [Docs -> Values \cup {NoDoc}]
  BY <1>1, <1>3 DEF WellTyped, Snapshot
<1>5. /\ Loaded \in Memory /\ SchemaFits(Loaded.schema, kinds)
      /\ snap = None => Known = {}
      /\ snap # None => \A d \in Docs : Visible(Loaded, d) = Visible(snap.mem, d)
  BY <1>1, LoadedFacts DEF IInv, SnapTells
<1>6. \* What the snapshot had is in the loaded index.
      ASSUME NEW d \in Docs \ old, snap # None, Was[d] # NoDoc, Indexable
      PROVE  FoundAs(Loaded, d, Was[d], kinds)
  <2>1. Was[d] = snap.value[d] /\ d \in Docs \ snap.lost
    BY <1>3, <1>6 DEF Was
  <2>2. FoundAs(snap.mem, d, Was[d], kinds)
    BY <1>6, <2>1 DEF IInv, SnapTells, FoundAll
  <2> QED
    BY <1>5, <1>6, <2>2 DEF FoundAs
<1>7. CASE logging
  <2>1. PICK s : s = Replayed
    OBVIOUS
  <2>2. mem' = s.mem /\ store' = s.store
    BY <1>7, <2>1 DEF Restart
  <2>3. Start \in States
    BY <1>1, <1>5 DEF Start, States, WellTyped
  <2>4. s \in States /\ ReplayedSoFar(Len(log), s)
    BY <1>1, <1>5, <2>1, <2>3, ReplayFound
  <2>5. PICK n \in Nat : n = Len(log) /\ DOMAIN log = 1..n
    BY <1>1, LenProperties DEF WellTyped
  <2>6. SchemaFits(s.mem.schema, kinds)
    BY <2>4 DEF ReplayedSoFar
  <2>7. lost' = old \ {log[i].doc : i \in DOMAIN log}
    BY <1>2, <1>3, <1>7 DEF Unrecovered
  <2>8. ASSUME NEW d \in Docs, NEW j \in 1..n, LastOf(n, j, d), log[j].value = value[d]
        PROVE  IF value[d] = NoDoc THEN s.store[d] = NoDoc
               ELSE s.store[d] \in {NoValue, value[d]} /\ (Indexable => FoundAs(s.mem, d, value[d], kinds))
    <3>1. Told(log[j], s, kinds) /\ log[j].doc = d
      BY <2>4, <2>5, <2>8 DEF ReplayedSoFar, LastOf
    <3> QED
      BY <2>8, <3>1 DEF Told
  <2>9. ASSUME NEW d \in Docs, \A j \in DOMAIN log : log[j].doc # d
        PROVE  s.store[d] = store[d] /\ Visible(s.mem, d) = Visible(Loaded, d)
    BY <2>4, <2>5, <2>9 DEF ReplayedSoFar
  <2>10. \A d \in Docs :
            \/ (\A j \in DOMAIN log : log[j].doc # d) /\ value[d] = Was[d]
            \/ \E j \in DOMAIN log : LastOf(n, j, d) /\ log[j].value = value[d]
    BY <1>7, <2>5 DEF IInv, LogTells
  <2>11. Stored'
    <3> SUFFICES ASSUME NEW d \in Docs
                 PROVE  /\ value[d] = NoDoc <=> s.store[d] = NoDoc
                        /\ s.store[d] \in {NoDoc, NoValue, value[d]}
      BY <1>2, <2>2 DEF Stored
    <3>1. CASE \A j \in DOMAIN log : log[j].doc # d
      BY <1>1, <2>9, <3>1 DEF Stored
    <3>2. CASE \E j \in DOMAIN log : LastOf(n, j, d) /\ log[j].value = value[d]
      <4>1. IF value[d] = NoDoc THEN s.store[d] = NoDoc ELSE s.store[d] \in {NoValue, value[d]}
        BY <2>5, <2>8, <3>2
      <4> QED
        BY <4>1, ValuesAssumption
    <3> QED
      BY <2>10, <3>1, <3>2
  <2>12. FoundAll(s.mem, value, lost', kinds)
    <3> SUFFICES ASSUME NEW d \in Docs \ lost', Indexable, value[d] # NoDoc
                 PROVE  FoundAs(s.mem, d, value[d], kinds)
      BY DEF FoundAll
    <3>1. CASE (\A j \in DOMAIN log : log[j].doc # d) /\ value[d] = Was[d]
      <4>1. d \in Docs \ old
        BY <2>7, <3>1
      <4>2. snap # None
        BY <3>1 DEF Was
      <4>3. FoundAs(Loaded, d, value[d], kinds)
        BY <1>6, <3>1, <4>1, <4>2
      <4> QED
        BY <2>9, <3>1, <4>3 DEF FoundAs
    <3>2. CASE \E j \in DOMAIN log : LastOf(n, j, d) /\ log[j].value = value[d]
      BY <2>5, <2>8, <3>2
    <3> QED
      BY <2>10, <3>1, <3>2
  <2>13. s.mem \in Memory /\ s.store \in Stores /\ lost' \in SUBSET Docs
    BY <1>4, <2>4, <2>7 DEF States
  <2> QED
    BY <1>2, <2>2, <2>6, <2>11, <2>12, <2>13, StartIInv
<1>8. CASE ~ logging
  <2>1. PICK m \in Memory :
           /\ m = RecoverDelta(Loaded) /\ m.schema = Loaded.schema
           /\ \A d \in Missing : TermsOf("text", store[d]) \subseteq Visible(m, d)
           /\ \A d \in Docs \ Missing : Visible(m, d) = Visible(Loaded, d)
    BY <1>1, RecoverFacts
  <2>2. mem' = m /\ store' = store
    BY <1>8, <2>1 DEF Restart
  <2>3. lost' = {d \in Known : Was[d] # value[d]} \cup (Live \ (Known \cup Missing)) \cup (old \ Missing)
    BY <1>2, <1>3, <1>8 DEF Unrecovered, Was
  <2>4. lost' \in SUBSET Docs
    BY <1>4, <2>3 DEF Known, Live
  <2>5. Stored'
    BY <1>1, <1>2, <2>2 DEF Stored
  <2>6. FoundAll(m, value, lost', kinds)
    <3> SUFFICES ASSUME NEW d \in Docs \ lost', Indexable, value[d] # NoDoc
                 PROVE  FoundAs(m, d, value[d], kinds)
      BY DEF FoundAll
    <3>1. ~ Uniform(kinds)
      BY <1>8 DEF Uniform
    <3>2. CASE d \in Missing
      <4>1. store[d] \in Values
        BY <3>2 DEF Missing
      <4>2. store[d] = value[d]
        BY <1>1, <4>1, ValuesAssumption DEF Stored
      <4>3. "text" \in Types
        BY DEF Types
      <4> QED
        BY <2>1, <3>1, <3>2, <4>2, <4>3 DEF FoundAs
    <3>3. CASE d \notin Missing
      <4>1. d \in Known /\ Was[d] = value[d] /\ d \in Docs \ old
        BY <2>3, <3>3 DEF Live
      <4>2. snap # None
        BY <1>5, <4>1
      <4>3. FoundAs(Loaded, d, value[d], kinds)
        BY <1>6, <4>1, <4>2
      <4> QED
        BY <2>1, <3>3, <4>3 DEF FoundAs
    <3> QED
      BY <3>2, <3>3
  <2>7. store \in Stores
    BY <1>1 DEF WellTyped
  <2> QED
    BY <1>2, <1>5, <2>1, <2>2, <2>4, <2>5, <2>6, <2>7, StartIInv
<1> QED
  BY <1>1, <1>7, <1>8 DEF WellTyped

\* Reindex finds what the store has; the documents it may miss, those whose value is
\* not stored, are lost.
LEMMA ReindexIInv ==
    ASSUME IInv, Reindex
    PROVE  IInv'
<1>1. WellTyped /\ Kinds /\ Stored
  BY DEF IInv
<1>2. PICK order \in SetToSeqs({d \in Docs : store[d] # NoDoc}) :
         mem' = Rebuilt(order).mem /\ store' = Rebuilt(order).store
  BY DEF Reindex
<1>3. UNCHANGED <<given, logging, log, snap, value, kinds>> /\ lost' = {d \in Docs : store[d] = NoValue}
  BY DEF Reindex
<1>4. PICK s \in States :
         /\ s = Rebuilt(order) /\ SchemaFits(s.mem.schema, kinds) /\ StoreKept(s)
         /\ \A d \in Docs : store[d] \in Values /\ Indexable => FoundAs(s.mem, d, store[d], kinds)
  BY <1>1, RebuildFound
<1>5. s.mem \in Memory /\ s.store \in Stores
  BY DEF States
<1>6. Stored'
  <2> SUFFICES ASSUME NEW d \in Docs
               PROVE  /\ value[d] = NoDoc <=> s.store[d] = NoDoc
                      /\ s.store[d] \in {NoDoc, NoValue, value[d]}
    BY <1>2, <1>3, <1>4 DEF Stored
  <2>1. s.store[d] = store[d] \/ (store[d] # NoDoc /\ s.store[d] = NoValue)
    BY <1>4 DEF StoreKept
  <2> QED
    BY <1>1, <2>1, ValuesAssumption DEF Stored
<1>7. FoundAll(s.mem, value, lost', kinds)
  <2> SUFFICES ASSUME NEW d \in Docs \ lost', Indexable, value[d] # NoDoc
               PROVE  FoundAs(s.mem, d, value[d], kinds)
    BY DEF FoundAll
  <2>1. store[d] = value[d] /\ value[d] \in Values
    BY <1>1, <1>3 DEF Stored, WellTyped
  <2> QED
    BY <1>4, <2>1
<1>8. lost' \in SUBSET Docs
  BY <1>3
<1> QED
  BY <1>2, <1>3, <1>4, <1>5, <1>6, <1>7, <1>8, StartIInv

-----------------------------------------------------------------------------
(* Theorems.                                                               *)

\* Each step keeps the invariant.
LEMMA StepIInv ==
    ASSUME IInv, [Next]_vars
    PROVE  IInv'
<1>1. CASE UNCHANGED vars
  <2>1. mem \in Memory /\ mem' = mem
    BY <1>1 DEF IInv, WellTyped, vars
  <2>2. mem' \in Memory
    BY <2>1 DEF Memory, FieldMapping, Types, Terms
  <2> QED
    BY <1>1, <2>1, <2>2, MemoryIInv DEF vars
<1>2. CASE \E d \in Docs, v \in Values : Index(d, v)
  BY <1>2, IndexIInv
<1>3. CASE \E d \in Docs : Delete(d)
  BY <1>3, DeleteIInv
<1>4. CASE Flush
  BY <1>4, FlushIInv
<1>5. CASE Merge
  BY <1>5, MergeIInv
<1>6. CASE Save
  BY <1>6, SaveIInv
<1>7. CASE Restart
  BY <1>7, RestartIInv
<1>8. CASE Reindex
  BY <1>8, ReindexIInv
<1> QED
  BY <1>1, <1>2, <1>3, <1>4, <1>5, <1>6, <1>7, <1>8 DEF Next

\* So it always holds.
LEMMA Invariance == Spec => []IInv
<1>1. Init => IInv
  BY InitIInv
<1>2. IInv /\ [Next]_vars => IInv'
  BY StepIInv
<1> QED
  BY <1>1, <1>2, PTL DEF Spec

\* FoundByValue always holds: whatever types a field went through, and whatever was saved,
\* restarted, replayed or rebuilt, a document is stored with its last value and found by
\* it, but for those recovery or a rebuild is known to miss (lost).
THEOREM FoundByValueCorrect == Spec => []FoundByValue
<1>1. IInv => FoundByValue
  <2> SUFFICES ASSUME IInv, NEW d \in Docs
               PROVE  /\ value[d] = NoDoc <=> store[d] = NoDoc
                      /\ store[d] \in {NoDoc, NoValue, value[d]}
                      /\ Searchable(d) => \E type \in {"text", "keyword"} :
                             TermsOf(type, value[d]) \subseteq Visible(mem, d)
    BY DEF FoundByValue
  <2>1. ASSUME Searchable(d)
        PROVE  \E type \in {"text", "keyword"} : TermsOf(type, value[d]) \subseteq Visible(mem, d)
    <3>1. d \in Docs \ lost /\ value[d] # NoDoc /\ Indexable
      BY <2>1 DEF Searchable, Live, Indexable
    <3>2. PICK type : TermsOf(type, value[d]) \subseteq Visible(mem, d)
      BY <3>1 DEF IInv, FoundAll, FoundAs
    <3>3. TermsOf(type, value[d]) = TermsOf("text", value[d]) \/ TermsOf(type, value[d]) = TermsOf("keyword", value[d])
      BY DEF TermsOf
    <3> QED
      BY <3>2, <3>3
  <2> QED
    BY <2>1 DEF IInv, Stored
<1> QED
  BY <1>1, Invariance, PTL

\* OneTypeForGood always holds: with a log, and values of one type or a mapping, documents
\* are found the way that type says, through promotions, restarts (Load, replayWAL) and
\* rebuilds (Reindex).
THEOREM OneTypeForGoodCorrect == Spec => []OneTypeForGood
<1>1. IInv => OneTypeForGood
  <2> SUFFICES ASSUME IInv, logging, given # None \/ Cardinality(kinds) <= 1,
                      NEW d \in Docs, Searchable(d)
               PROVE  TermsOf(TypeFor(value[d]), value[d]) \subseteq Visible(mem, d)
    BY DEF OneTypeForGood, TypeFor
  <2>1. OneKind(kinds) \/ given # None
    <3> SUFFICES ASSUME Cardinality(kinds) <= 1
                 PROVE  OneKind(kinds)
      OBVIOUS
    <3>1. IsFiniteSet(kinds)
      <4>1. IsFiniteSet(Types)
        <5>1. IsFiniteSet({}) /\ \A S, t : IsFiniteSet(S) => IsFiniteSet(S \cup {t})
          BY FS_EmptySet, FS_AddElement
        <5>2. IsFiniteSet({} \cup {"text"} \cup {"keyword"} \cup {"skip"}
                             \cup {"integer"} \cup {"float"} \cup {"boolean"})
          BY <5>1
        <5>3. Types = {} \cup {"text"} \cup {"keyword"} \cup {"skip"}
                         \cup {"integer"} \cup {"float"} \cup {"boolean"}
          BY DEF Types, NumberTypes
        <5> QED
          BY <5>2, <5>3
      <4>2. kinds \in SUBSET Types
        BY DEF IInv, WellTyped
      <4> QED
        BY <4>1, <4>2, FS_Subset
    <3>2. Cardinality(kinds) \in Nat
      BY <3>1, FS_CardinalityType
    <3>3. CASE Cardinality(kinds) = 0
      BY <3>1, <3>3, FS_EmptySet DEF OneKind
    <3>4. CASE Cardinality(kinds) = 1
      BY <3>1, <3>4, FS_Singleton DEF OneKind
    <3> QED
      BY <3>2, <3>3, <3>4
  <2>2. Uniform(kinds)
    BY <2>1 DEF Uniform
  <2>3. d \in Docs \ lost /\ value[d] # NoDoc /\ Indexable
    BY DEF Searchable, Live, Indexable
  <2> QED
    BY <2>2, <2>3 DEF IInv, FoundAll, FoundAs
<1> QED
  BY <1>1, Invariance, PTL

\* Every Reindex that knows the type leaves each document with the terms, the length and
\* the number of its stored value, and of nothing else.
THEOREM RebuiltAlikeCorrect == Spec => RebuiltAlike
<1>1. ASSUME IInv, Reindex, mem.schema # None, mem.schema.Index, mem.schema.Type # "skip", NEW d \in Docs
      PROVE  LET type == mem.schema.Type
                 there == store[d] \in Values
             IN  /\ Visible(mem', d) = IF there THEN TermsOf(type, store[d]) ELSE {}
                 /\ mem'.lengths[d] = IF there THEN Len(Tokens[store[d]]) ELSE 0
                 /\ mem'.number[d] = IF there /\ type \in Parses[store[d]] THEN store[d] ELSE NoValue
  <2>1. PICK order \in SetToSeqs({x \in Docs : store[x] # NoDoc}) : mem' = Rebuilt(order).mem
    BY <1>1 DEF Reindex
  <2>2. Alike(mem.schema, Rebuilt(order), d)
    BY <1>1, RebuiltAlikeFound DEF IInv
  <2> QED
    BY <2>1, <2>2 DEF Alike
<1>2. IInv /\ [Next]_vars =>
        [Reindex /\ mem.schema # None /\ mem.schema.Index /\ mem.schema.Type # "skip" =>
          \A d \in Docs :
              LET type == mem.schema.Type
                  there == store[d] \in Values
              IN  /\ Visible(mem', d) = IF there THEN TermsOf(type, store[d]) ELSE {}
                  /\ mem'.lengths[d] = IF there THEN Len(Tokens[store[d]]) ELSE 0
                  /\ mem'.number[d] = IF there /\ type \in Parses[store[d]] THEN store[d] ELSE NoValue]_vars
  BY <1>1
<1> QED
  BY <1>2, Invariance, PTL DEF Spec, RebuiltAlike
=============================================================================
