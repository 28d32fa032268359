----------------------------- MODULE EngineLocks -----------------------------
(***************************************************************************)
(* The locks of go-search and who waits for whom.  A goroutine runs one    *)
(* call after another; a call is the sequence of its lock operations and   *)
(* of its accesses to shared data (module EngineCalls).  The locks are     *)
(* those of Go's sync.RWMutex, as the code relies on them:                 *)
(*   - a writer first announces itself; it then waits for the readers that *)
(*     are inside, and readers that come after it are parked;              *)
(*   - when it unlocks, all parked readers enter, before the next writer;  *)
(*   - a lock has no owner: whoever asks again for what he holds waits     *)
(*     like anyone else.                                                   *)
(* Only locks and accesses matter here, so each loop of the code is run    *)
(* once and what is computed in between is left out.                       *)
(***************************************************************************)
EXTENDS Integers, Sequences, FiniteSets

CONSTANTS
    Procs,      \* goroutines
    Idle,       \* what a goroutine runs between two calls
    Nobody,     \* no goroutine
    Locks,      \* e.mu, idx.mu, kd.mu, fi.rwMutex, the store's and the schema's
    Rank,       \* the order in which they are taken, outermost first
    Data,       \* shared data
    Guard,      \* the locks to hold: all to change a datum, one to read it
    Calls,      \* names of the calls
    Script,     \* the steps of each call
    Careless,   \* <<call, datum>>: the call uses the datum without its lock
    May         \* the calls each goroutine makes

Modes == {"R", "W"}

\* A step of a call; held are the locks the call has when it comes to it.
Steps ==
    [do: {"RLock", "Lock", "RUnlock", "Unlock"}, on: Locks, held: SUBSET (Modes \X Locks)]
        \cup [do: {"get", "set"}, on: Data, held: SUBSET (Modes \X Locks)]

Gain(s) == IF s.do = "RLock" THEN {<<"R", s.on>>} ELSE
           IF s.do = "Lock" THEN {<<"W", s.on>>} ELSE {}

ASSUME ProcsAssumption == Nobody \notin Procs /\ Idle \notin Calls

ASSUME DataAssumption ==
    /\ Rank \in [Locks -> 1..3]
    /\ Guard \in [Data -> (SUBSET Locks) \ {{}}]
    /\ May \in [Procs -> SUBSET Calls]

\* What a call has after its i-th step.
Left(c, i) == IF i = Len(Script[c]) THEN {} ELSE Script[c][i + 1].held

(***************************************************************************)
(* Calls begin and end without a lock, and held is what was taken and not  *)
(* given back; a read lock taken twice is given back twice.                *)
(***************************************************************************)
ASSUME ScriptAssumption ==
    \A c \in Calls :
        /\ Script[c] \in Seq(Steps) /\ Script[c] # <<>>
        /\ Script[c][1].held = {}
        /\ \A i \in 1..Len(Script[c]) :
            LET s == Script[c][i]
            IN  /\ s.do = "RUnlock" => Left(c, i) \in {s.held, s.held \ {<<"R", s.on>>}}
                /\ s.do = "Unlock" => <<"W", s.on>> \in s.held /\ Left(c, i) = s.held \ {<<"W", s.on>>}
                /\ s.do \notin {"RUnlock", "Unlock"} => Left(c, i) = s.held \cup Gain(s)

VARIABLES
    call,       \* the call each goroutine runs
    pc,         \* the step it comes to next
    writer,     \* for each lock, the goroutine that announced itself as its writer
    parked      \* for each lock, the readers that came after the writer

lockVars == <<call, pc, writer, parked>>

Busy(p) == call[p] # Idle
StepOf(p) == Script[call[p]][pc[p]]
Held(p) == IF Busy(p) THEN StepOf(p).held ELSE {}
Reading(l) == {p \in Procs : <<"R", l>> \in Held(p)}

LocksInit ==
    /\ call = [p \in Procs |-> Idle]
    /\ pc = [p \in Procs |-> 0]
    /\ writer = [l \in Locks |-> Nobody]
    /\ parked = [l \in Locks |-> {}]

Ends(p) == pc[p] = Len(Script[call[p]])

\* The goroutines in S get past the step they are at.
Pass(S) ==
    /\ call' = [p \in Procs |-> IF p \in S /\ Ends(p) THEN Idle ELSE call[p]]
    /\ pc' = [p \in Procs |-> IF p \notin S THEN pc[p] ELSE IF Ends(p) THEN 0 ELSE pc[p] + 1]

Begin(p, c) ==
    /\ ~Busy(p) /\ c \in May[p]
    /\ call' = [call EXCEPT ![p] = c]
    /\ pc' = [pc EXCEPT ![p] = 1]
    /\ UNCHANGED <<writer, parked>>

At(p, do) == Busy(p) /\ StepOf(p).do = do

RLock(p) ==
    /\ At(p, "RLock")
    /\ writer[StepOf(p).on] = Nobody
    /\ Pass({p})
    /\ UNCHANGED <<writer, parked>>

Park(p) ==
    /\ At(p, "RLock")
    /\ writer[StepOf(p).on] # Nobody
    /\ p \notin parked[StepOf(p).on]
    /\ parked' = [parked EXCEPT ![StepOf(p).on] = @ \cup {p}]
    /\ UNCHANGED <<call, pc, writer>>

RUnlock(p) ==
    /\ At(p, "RUnlock")
    /\ Pass({p})
    /\ UNCHANGED <<writer, parked>>

Announce(p) ==
    /\ At(p, "Lock")
    /\ writer[StepOf(p).on] = Nobody
    /\ writer' = [writer EXCEPT ![StepOf(p).on] = p]
    /\ UNCHANGED <<call, pc, parked>>

Lock(p) ==
    /\ At(p, "Lock")
    /\ writer[StepOf(p).on] = p /\ <<"W", StepOf(p).on>> \notin Held(p)
    /\ Reading(StepOf(p).on) = {}
    /\ Pass({p})
    /\ UNCHANGED <<writer, parked>>

Unlock(p) ==
    /\ At(p, "Unlock")
    /\ Pass({p} \cup parked[StepOf(p).on])
    /\ writer' = [writer EXCEPT ![StepOf(p).on] = Nobody]
    /\ parked' = [parked EXCEPT ![StepOf(p).on] = {}]

Access(p) ==
    /\ At(p, "get") \/ At(p, "set")
    /\ Pass({p})
    /\ UNCHANGED <<writer, parked>>

Go(p) == RLock(p) \/ Park(p) \/ RUnlock(p) \/ Lock(p) \/ Unlock(p) \/ Access(p)

LocksNext ==
    \E p \in Procs : Go(p) \/ Announce(p) \/ \E c \in Calls : Begin(p, c)

LocksSpec == LocksInit /\ [][LocksNext]_lockVars

(***************************************************************************)
(* The Go scheduler runs every goroutine that can run.  Announcing oneself *)
(* is the Lock of a sync.Mutex, which is handed to the longest waiter      *)
(* after a millisecond (its starvation mode): no writer is overtaken for   *)
(* ever.  No goroutine has to begin a call.                                *)
(***************************************************************************)
Fairness == \A p \in Procs : WF_lockVars(Go(p)) /\ SF_lockVars(Announce(p))

FairSpec == LocksSpec /\ Fairness

-----------------------------------------------------------------------------

CanGo(p) ==
    CASE StepOf(p).do = "RLock" -> p \notin parked[StepOf(p).on]
      [] StepOf(p).do = "Lock" ->
            \/ writer[StepOf(p).on] = Nobody
            \/ writer[StepOf(p).on] = p /\ <<"W", StepOf(p).on>> \notin Held(p) /\ Reading(StepOf(p).on) = {}
      [] OTHER -> TRUE

Stuck(p) == Busy(p) /\ ~CanGo(p)

\* p asks again for a lock it has.
OnItself(p) == Stuck(p) /\ \E m \in Modes : <<m, StepOf(p).on>> \in Held(p)

\* p and q are about to use x, and one of them to change it.
Conflict(p, q, x) ==
    /\ Busy(p) /\ Busy(q)
    /\ StepOf(p).on = x /\ StepOf(q).on = x
    /\ StepOf(p).do = "set" /\ StepOf(q).do \in {"get", "set"}

(***************************************************************************)
(* The discipline the calls follow: locks are taken outermost first, and   *)
(* no other lock comes between a lock and itself; data are used under      *)
(* their locks, but for the careless calls.                                *)
(***************************************************************************)
Ordered ==
    \A c \in Calls : \A i \in 1..Len(Script[c]) : \A h \in Script[c][i].held :
        Script[c][i].do \in {"RLock", "Lock"} =>
            h[2] = Script[c][i].on \/ Rank[h[2]] < Rank[Script[c][i].on]

Guarded ==
    \A c \in Calls : \A i \in 1..Len(Script[c]) :
        LET s == Script[c][i]
        IN  s.do \in {"get", "set"} /\ <<c, s.on>> \notin Careless =>
                \/ \A l \in Guard[s.on] : <<"W", l>> \in s.held
                \/ s.do = "get" /\ \E l \in Guard[s.on], m \in Modes : <<m, l>> \in s.held

(***************************************************************************)
(* Types; the calls keep the discipline; a parked reader is at the RLock   *)
(* of the lock it is parked at, and a lock has a writer only while one is  *)
(* at its Lock or has it.                                                  *)
(***************************************************************************)
TypeOK ==
    /\ Ordered /\ Guarded
    /\ call \in [Procs -> Calls \cup {Idle}]
    /\ pc \in [Procs -> Nat]
    /\ \A p \in Procs : Busy(p) => pc[p] \in 1..Len(Script[call[p]])
    /\ writer \in [Locks -> Procs \cup {Nobody}]
    /\ parked \in [Locks -> SUBSET Procs]
    /\ \A l \in Locks : writer[l] # Nobody =>
        <<"W", l>> \in Held(writer[l]) \/ (At(writer[l], "Lock") /\ StepOf(writer[l]).on = l)
    /\ \A l \in Locks : \A p \in parked[l] :
        At(p, "RLock") /\ StepOf(p).on = l /\ writer[l] # Nobody

(***************************************************************************)
(* Calls never all wait for each other, but for one that asks again for a  *)
(* read lock it has while a writer waits: HybridSearch for e.mu            *)
(* (engine/search.go:402-407), TermCount for idx.mu (index/index.go:328).  *)
(***************************************************************************)
StuckOnlyOnItself ==
    (\E p \in Procs : Busy(p)) =>
        \E p \in Procs : Busy(p) /\ (CanGo(p) \/ OnItself(p))

(***************************************************************************)
(* No datum is used by two calls at once, one of them changing it, but     *)
(* with a careless call among them: PrefixSearch, Reindex and Schema use   *)
(* fields of the engine without e.mu (engine/search.go:534-577,            *)
(* engine/engine.go:440 and 428), Save, also that of Close, flushes        *)
(* without idx.mu and encodes the live tombstones                          *)
(* (engine/snapshot.go:42-63).                                             *)
(***************************************************************************)
RacesKnown ==
    \A p, q \in Procs : \A x \in Data :
        p # q /\ Conflict(p, q, x) => <<call[p], x>> \in Careless \/ <<call[q], x>> \in Careless

(***************************************************************************)
(* Every call ends, whatever the others do, unless some call waits for     *)
(* itself.                                                                 *)
(***************************************************************************)
CallsEnd ==
    \A p \in Procs : Busy(p) ~> (~Busy(p) \/ \E q \in Procs : OnItself(q))
=============================================================================
