---------------------------- MODULE ReindexProofs ----------------------------
(***************************************************************************)
(* Proofs about Reindex, for every set of documents, every number of       *)
(* workers and every number of calls of the live engine.                   *)
(*                                                                         *)
(* The argument.  A document on its way from the store through the channel *)
(* and a worker to the shadow index is in flight.  A document no call      *)
(* touched is in flight with the content it should have, or is in the      *)
(* shadow index (Covered), and is in the store unless a worker is about to *)
(* put it back (Stored).  While Each ranges over the store nothing changes *)
(* in it (Frozen), so no worker finishes a document and those sent fill    *)
(* the channel and the workers (Counted).                                  *)
(***************************************************************************)
EXTENDS Reindex, SequenceFacts, FiniteSetTheorems, TLAPS

-----------------------------------------------------------------------------
(* The inductive invariant.                                                *)

\* Process p has a document in hand.
Holds(p) == pc[p] \in {"has", "delete", "put", "failed"}

\* A worker is about to put document d back.
PutsBack(d) == \E w \in Workers : pc[w] = "put" /\ job[w].doc = d

\* Documents in hand and in the channel are documents; a call of the live
\* engine in progress is what its document should come to.
Hands ==
    /\ \A p \in Procs : Holds(p) => job[p] \in Job
    /\ \A w \in Workers : Holds(w) => job[w].content # NoDoc
    /\ \A i \in DOMAIN jobs : jobs[i].content # NoDoc
    /\ pc[Live] \in {"idle", "delete", "put"}
    /\ pc[Live] # "idle" => /\ job[Live].doc \in touched
                            /\ want[job[Live].doc] = job[Live].content
    /\ pc[Live] = "put" => job[Live].content # NoDoc

\* How far the goroutines are.
Phases ==
    /\ reindex = "idle" => each = "no"
    /\ each = "no" => /\ toSend = {} /\ jobs = <<>>
                      /\ shadow = [d \in Docs |-> NoDoc]
                      /\ \A w \in Workers : pc[w] = "idle"
    /\ each = "closed" => toSend = {}
    /\ \A w \in Workers : pc[w] = "done" => each = "closed" /\ jobs = <<>>
    /\ reindex = "building" => hired # {}
    /\ \A w \in Workers \ hired : pc[w] = "idle"
    /\ reindex = "done" => \A w \in hired : pc[w] = "done"

\* While Each ranges, the store has every document it has sent or will send,
\* and no worker comes past the deletion of one.
Frozen ==
    each = "ranging" =>
        /\ \A d \in toSend : store[d] # NoDoc
        /\ \A i \in DOMAIN jobs : store[jobs[i].doc] # NoDoc
        /\ \A w \in Workers : /\ pc[w] # "put"
                              /\ Holds(w) => store[job[w].doc] # NoDoc

\* Before Reindex: the live engine alone.
Before ==
    reindex = "idle" =>
        /\ \A d \in Docs : \/ store[d] = want[d] /\ index[d] = want[d]
                           \/ pc[Live] # "idle" /\ d = job[Live].doc
        /\ pc[Live] = "delete" /\ job[Live].content = NoDoc
             => index[job[Live].doc] = NoDoc

Stored == \A d \in Docs \ touched : store[d] = want[d] \/ PutsBack(d)

Found == \A d \in Docs \ touched : index[d] = want[d]

\* What is in flight is the content the document should have.
Current ==
    /\ \A i \in DOMAIN jobs :
           jobs[i].doc \notin touched => jobs[i].content = want[jobs[i].doc]
    /\ \A w \in Workers :
           Holds(w) /\ job[w].doc \notin touched => job[w].content = want[job[w].doc]

InFlight(d) ==
    \/ d \in toSend
    \/ \E i \in DOMAIN jobs : jobs[i].doc = d
    \/ \E w \in Workers : Holds(w) /\ job[w].doc = d

Covered ==
    each # "no" => \A d \in Docs \ touched : InFlight(d) \/ shadow[d] = want[d]

Kept ==
    \A d \in Docs :
        \/ want[d] = NoDoc
        \/ store[d] # NoDoc
        \/ \E p \in Procs : pc[p] = "put" /\ job[p].doc = d

Busy == {w \in Workers : pc[w] # "idle"}

\* Documents are sent once.
Counted ==
    each = "ranging" =>
        Len(jobs) + Cardinality(Busy) + Cardinality(toSend) <= Cardinality(Docs)

IInv ==
    /\ TypeOK /\ Hands /\ Phases /\ Frozen /\ Before /\ Stored /\ Found
    /\ Current /\ Covered /\ Kept /\ Counted

-----------------------------------------------------------------------------
(* Every step keeps the invariant, part by part.                           *)

\* The processes, and what a document may be.
LEMMA Constants ==
    /\ Live \in Procs /\ Workers \subseteq Procs /\ Live \notin Workers
    /\ NoDoc \in Maybe /\ NoDoc \notin Contents /\ Contents \subseteq Maybe
BY WorkersAssumption, DocsAssumption DEF Procs, Maybe

\* The workers Reindex started, and the capacity of the channel.
LEMMA HiredFacts ==
    ASSUME hired \subseteq Workers
    PROVE  /\ IsFiniteSet(hired) /\ Cardinality(hired) \in Nat
           /\ Capacity \in Nat /\ Capacity = 2 * Cardinality(hired)
<1>1. hired \in SUBSET Workers
  OBVIOUS
<1>2. IsFiniteSet(hired) /\ Cardinality(hired) \in Nat
  BY <1>1, WorkersAssumption, FS_Subset, FS_CardinalityType
<1> QED
  BY <1>2 DEF Capacity

\* A call of the live engine keeps the types of what it assigns.
LEMMA CallTypes ==
    ASSUME TypeOK, NEW d \in Docs, NEW c \in Maybe, Call(d, c)
    PROVE  /\ calls' \in 0..MaxCalls
           /\ job' \in [Procs -> Job \cup {NoJob}]
           /\ want' \in [Docs -> Maybe]
           /\ touched' \subseteq Docs
<1>1. [doc |-> d, content |-> c] \in Job
  BY DEF Job, Maybe
<1>2. job' \in [Procs -> Job \cup {NoJob}]
  BY <1>1 DEF Call, TypeOK
<1>3. calls' \in 0..MaxCalls
  BY BoundAssumption DEF Call, TypeOK
<1> QED
  BY <1>2, <1>3 DEF Call, TypeOK

\* A process that holds a document holds one of Docs.
LEMMA HandType ==
    ASSUME Hands, NEW p \in Procs, Holds(p)
    PROVE  job[p] \in Job /\ job[p].doc \in Docs /\ job[p].content \in Maybe
BY DEF Hands, Job

\* The variables keep their types.
LEMMA TypeStep == IInv /\ [Next]_vars => TypeOK'
<1> SUFFICES ASSUME IInv, [Next]_vars
             PROVE  TypeOK'
  OBVIOUS
<1>0. TypeOK /\ Hands /\ Phases
  BY DEF IInv
<1>1. ASSUME NEW d \in Docs, NEW c \in Contents, Index(d, c)
      PROVE  TypeOK'
  <2>1. /\ Call(d, c) /\ c \in Maybe
        /\ pc' \in [Procs -> {"idle", "has", "delete", "put", "failed", "done"}]
        /\ index' \in [Docs -> Maybe]
    BY <1>0, <1>1, Constants DEF Index, Has, TypeOK
  <2> QED
    BY <1>0, <2>1, CallTypes DEF Call, TypeOK, Capacity
<1>2. ASSUME NEW d \in Docs, Delete(d)
      PROVE  TypeOK'
  <2>1. /\ Call(d, NoDoc) /\ NoDoc \in Maybe
        /\ pc' \in [Procs -> {"idle", "has", "delete", "put", "failed", "done"}]
        /\ index' \in [Docs -> Maybe]
    BY <1>0, <1>2, Constants DEF Delete, TypeOK
  <2> QED
    BY <1>0, <2>1, CallTypes DEF Call, TypeOK, Capacity
<1>3. ASSUME NEW p \in Procs, Wait(p)
      PROVE  TypeOK'
  BY <1>0, <1>3, Constants DEF Wait, TypeOK, Capacity
<1>4. ASSUME NEW p \in Procs, StoreDelete(p)
      PROVE  TypeOK'
  BY <1>0, <1>4, Constants DEF StoreDelete, TypeOK, Capacity
<1>5. ASSUME NEW p \in Procs, StorePut(p)
      PROVE  TypeOK'
  <2>1. job[p].content \in Maybe
    BY <1>0, <1>5, HandType DEF StorePut, Holds
  <2>2. /\ store' \in [Docs -> Maybe] /\ index' \in [Docs -> Maybe]
        /\ shadow' \in [Docs -> Maybe]
    BY <1>0, <1>5, <2>1 DEF StorePut, TypeOK
  <2>3. /\ pc' \in [Procs -> {"idle", "has", "delete", "put", "failed", "done"}]
        /\ job' \in [Procs -> Job \cup {NoJob}]
        /\ waiting' \subseteq Procs
    BY <1>0, <1>5 DEF StorePut, TypeOK
  <2> QED
    BY <1>0, <1>5, <2>2, <2>3 DEF StorePut, TypeOK, Capacity
<1>6. ASSUME Start
      PROVE  TypeOK'
  <2>1. touched' \subseteq Docs
    <3>1. CASE pc[Live] = "idle"
      BY <1>6, <3>1 DEF Start
    <3>2. CASE pc[Live] # "idle"
      <4>1. Holds(Live)
        BY <1>0, <3>2 DEF Hands, Holds
      <4> QED
        BY <1>0, <1>6, <3>2, <4>1, Constants, HandType DEF Start
    <3> QED
      BY <3>1, <3>2
  <2>2. hired' \in SUBSET Workers /\ jobs' = <<>>
    BY <1>0, <1>6 DEF Start, Phases
  <2>3. Cardinality(hired') \in Nat
    BY <2>2, WorkersAssumption, FS_Subset, FS_CardinalityType
  <2>4. jobs' \in Seq(Job) /\ Len(jobs') <= Capacity'
    BY <2>2, <2>3 DEF Capacity
  <2> QED
    BY <1>0, <1>6, <2>1, <2>2, <2>4 DEF Start, TypeOK
<1>7. ASSUME EachStart
      PROVE  TypeOK'
  BY <1>0, <1>7, Constants DEF EachStart, TypeOK, Capacity
<1>8. ASSUME NEW d \in Docs, Send(d)
      PROVE  TypeOK'
  <2>1. [doc |-> d, content |-> store[d]] \in Job
    BY <1>0 DEF TypeOK, Job
  <2>2. /\ jobs' \in Seq(Job) /\ Len(jobs') = Len(jobs) + 1
        /\ Len(jobs) \in Nat /\ Len(jobs) < Capacity
    BY <1>0, <1>8, <2>1, AppendFacts DEF Send, TypeOK
  <2>3. Len(jobs') <= Capacity
    BY <1>0, <2>2, HiredFacts DEF TypeOK
  <2>4. Capacity' = Capacity
    BY <1>8 DEF Send, Capacity
  <2> QED
    BY <1>0, <1>8, <2>2, <2>3, <2>4 DEF Send, TypeOK
<1>9. ASSUME EachEnd
      PROVE  TypeOK'
  BY <1>0, <1>9, Constants DEF EachEnd, TypeOK, Capacity
<1>10. ASSUME NEW w \in Workers, Receive(w)
       PROVE  TypeOK'
  <2>1. Capacity' = Capacity /\ UNCHANGED hired
    BY <1>10 DEF Receive, Capacity
  <2>2. /\ jobs' \in Seq(Job) /\ Len(jobs') = Len(jobs) - 1 /\ Len(jobs) \in Nat
        /\ Head(jobs) \in Job
    BY <1>0, <1>10, TailFacts DEF Receive, TypeOK
  <2>3. Len(jobs') <= Capacity'
    BY <1>0, <2>1, <2>2, HiredFacts DEF TypeOK
  <2> QED
    BY <1>0, <1>10, <2>1, <2>2, <2>3, Constants DEF Receive, TypeOK
<1>11. ASSUME NEW w \in Workers, WorkerFails(w)
       PROVE  TypeOK'
  BY <1>0, <1>11, Constants DEF WorkerFails, TypeOK, Capacity
<1>12. ASSUME NEW w \in Workers, WorkerHas(w)
       PROVE  TypeOK'
  BY <1>0, <1>12, Constants DEF WorkerHas, Has, TypeOK, Capacity
<1>13. ASSUME NEW w \in Workers, WorkerEnd(w)
       PROVE  TypeOK'
  BY <1>0, <1>13, Constants DEF WorkerEnd, TypeOK, Capacity
<1>14. ASSUME Fail
       PROVE  TypeOK'
  BY <1>0, <1>14, Constants DEF Fail, TypeOK, Capacity
<1>15. ASSUME Swap
       PROVE  TypeOK'
  BY <1>0, <1>15, Constants DEF Swap, TypeOK, Capacity
<1>16. ASSUME UNCHANGED vars
       PROVE  TypeOK'
  BY <1>0, <1>16 DEF vars, TypeOK, Capacity
<1> QED
  BY <1>1, <1>2, <1>3, <1>4, <1>5, <1>6, <1>7, <1>8, <1>9,
     <1>10, <1>11, <1>12, <1>13, <1>14, <1>15, <1>16
  DEF Next, LiveStarts, Sender, Storage, Worker, Procs

\* What docStorage.Delete does, for a worker and for the live engine.
LEMMA DeleteFacts ==
    ASSUME TypeOK, Hands, NEW p \in Procs, StoreDelete(p)
    PROVE  /\ pc[p] = "delete" /\ each # "ranging" /\ job[p].doc \in Docs
           /\ store'[job[p].doc] = NoDoc
           /\ \A d \in Docs : d # job[p].doc => store'[d] = store[d]
           /\ \A q \in Procs : q # p => pc'[q] = pc[q] /\ job'[q] = job[q]
           /\ p = Live \/ (p # Live /\ p \in Workers)
           /\ job[p].content # NoDoc => pc'[p] = "put" /\ job'[p] = job[p]
           /\ job[p].content = NoDoc => p = Live /\ pc'[p] = "idle"
<1>1. Holds(p) /\ pc[p] = "delete" /\ each # "ranging"
  BY DEF StoreDelete, Holds
<1>2. job[p].doc \in Docs
  BY <1>1, HandType
<1>3. p = Live \/ (p # Live /\ p \in Workers)
  BY Constants DEF Procs
<1>4. /\ store'[job[p].doc] = NoDoc
      /\ \A d \in Docs : d # job[p].doc => store'[d] = store[d]
  BY <1>2 DEF StoreDelete, TypeOK
<1>5. /\ \A q \in Procs : q # p => pc'[q] = pc[q] /\ job'[q] = job[q]
      /\ job[p].content # NoDoc => pc'[p] = "put" /\ job'[p] = job[p]
      /\ job[p].content = NoDoc => pc'[p] = "idle"
  BY DEF StoreDelete, TypeOK
<1>6. job[p].content = NoDoc => p = Live
  BY <1>1, <1>3 DEF Hands
<1> QED
  BY <1>1, <1>2, <1>3, <1>4, <1>5, <1>6

\* What indexInternal does, for a worker and for the live engine.
LEMMA PutFacts ==
    ASSUME TypeOK, Hands, NEW p \in Procs, StorePut(p)
    PROVE  /\ pc[p] = "put" /\ each # "ranging"
           /\ job[p].doc \in Docs /\ job[p].content # NoDoc
           /\ store'[job[p].doc] = job[p].content
           /\ \A d \in Docs : d # job[p].doc =>
                 store'[d] = store[d] /\ index'[d] = index[d] /\ shadow'[d] = shadow[d]
           /\ \/ p = Live /\ shadow' = shadow /\ index'[job[p].doc] = job[p].content
              \/ /\ p # Live /\ p \in Workers /\ index' = index
                 /\ shadow'[job[p].doc] = job[p].content
           /\ \A q \in Procs : q # p => pc'[q] = pc[q] /\ job'[q] = job[q]
           /\ pc'[p] = "idle"
<1>1. Holds(p) /\ pc[p] = "put" /\ each # "ranging"
  BY DEF StorePut, Holds
<1>2. job[p].doc \in Docs
  BY <1>1, HandType
<1>3. p = Live \/ (p # Live /\ p \in Workers)
  BY Constants DEF Procs
<1>4. job[p].content # NoDoc
  BY <1>1, <1>3 DEF Hands
<1>5. /\ store'[job[p].doc] = job[p].content
      /\ \A d \in Docs : d # job[p].doc => store'[d] = store[d]
  BY <1>2 DEF StorePut, TypeOK
<1>6. CASE p = Live
  <2>1. /\ shadow' = shadow /\ index'[job[p].doc] = job[p].content
        /\ \A d \in Docs : d # job[p].doc => index'[d] = index[d]
    BY <1>2, <1>6 DEF StorePut, TypeOK
  <2>2. /\ \A q \in Procs : q # p => pc'[q] = pc[q] /\ job'[q] = job[q]
        /\ pc'[p] = "idle"
    BY DEF StorePut, TypeOK
  <2> QED
    BY <1>1, <1>2, <1>4, <1>5, <1>6, <2>1, <2>2
<1>7. CASE p # Live
  <2>1. /\ index' = index /\ shadow'[job[p].doc] = job[p].content
        /\ \A d \in Docs : d # job[p].doc => shadow'[d] = shadow[d]
    BY <1>2, <1>7 DEF StorePut, TypeOK
  <2>2. /\ \A q \in Procs : q # p => pc'[q] = pc[q] /\ job'[q] = job[q]
        /\ pc'[p] = "idle"
    BY DEF StorePut, TypeOK
  <2> QED
    BY <1>1, <1>2, <1>3, <1>4, <1>5, <1>7, <2>1, <2>2
<1> QED
  BY <1>6, <1>7

\* What the start of a call does.
LEMMA CallFacts ==
    ASSUME TypeOK, NEW d \in Docs, NEW c \in Maybe, Call(d, c)
    PROVE  /\ pc[Live] = "idle"
           /\ job'[Live].doc = d /\ job'[Live].content = c /\ job'[Live] \in Job
           /\ \A w \in Workers : job'[w] = job[w]
           /\ want'[d] = c /\ \A x \in Docs : x # d => want'[x] = want[x]
           /\ touched' = touched \cup {d}
<1>1. job'[Live] = [doc |-> d, content |-> c]
  BY Constants DEF Call, TypeOK
<1>2. \A w \in Workers : job'[w] = job[w]
  BY Constants DEF Call, TypeOK
<1>3. want'[d] = c /\ \A x \in Docs : x # d => want'[x] = want[x]
  BY DEF Call, TypeOK
<1> QED
  BY <1>1, <1>2, <1>3 DEF Call, Job

\* What Send adds to the channel.
LEMMA SendFacts ==
    ASSUME TypeOK, NEW d \in Docs, Send(d)
    PROVE  /\ Len(jobs) \in Nat /\ DOMAIN jobs = 1..Len(jobs)
           /\ DOMAIN jobs' = 1..(Len(jobs) + 1)
           /\ Len(jobs') = Len(jobs) + 1
           /\ \A i \in 1..Len(jobs) : jobs'[i] = jobs[i]
           /\ jobs'[Len(jobs) + 1].doc = d
           /\ jobs'[Len(jobs) + 1].content = store[d]
<1>1. [doc |-> d, content |-> store[d]] \in Job
  BY DEF TypeOK, Job
<1>2. jobs \in Seq(Job) /\ jobs' = Append(jobs, [doc |-> d, content |-> store[d]])
  BY DEF Send, TypeOK
<1> QED
  BY <1>1, <1>2, AppendFacts

\* What Receive takes out of it.
LEMMA ReceiveFacts ==
    ASSUME TypeOK, NEW w \in Workers, Receive(w)
    PROVE  /\ Len(jobs) \in Nat /\ Len(jobs) >= 1 /\ DOMAIN jobs = 1..Len(jobs)
           /\ Len(jobs') = Len(jobs) - 1
           /\ DOMAIN jobs' = 1..(Len(jobs) - 1)
           /\ \A i \in 1..(Len(jobs) - 1) : jobs'[i] = jobs[i + 1]
           /\ job'[w] = jobs[1]
           /\ pc[w] = "idle" /\ pc'[w] = "has"
           /\ \A v \in Workers : v # w => job'[v] = job[v] /\ pc'[v] = pc[v]
<1>1. jobs \in Seq(Job) /\ jobs # <<>> /\ jobs' = Tail(jobs)
  BY DEF Receive, TypeOK
<1>2. job'[w] = Head(jobs) /\ pc[w] = "idle" /\ pc'[w] = "has"
  BY Constants DEF Receive, TypeOK
<1>3. \A v \in Workers : v # w => job'[v] = job[v] /\ pc'[v] = pc[v]
  BY Constants DEF Receive, TypeOK
<1> QED
  BY <1>1, <1>2, <1>3, TailFacts

\* Index and Delete of the live engine, and the workers, hold documents.
LEMMA HandsStep == IInv /\ [Next]_vars => Hands'
<1> SUFFICES ASSUME IInv, [Next]_vars
             PROVE  Hands'
  OBVIOUS
<1>0. TypeOK /\ Hands /\ Frozen /\ Phases
  BY DEF IInv
<1>1. ASSUME NEW d \in Docs, NEW c \in Contents, Index(d, c)
      PROVE  Hands'
  <2>1. Call(d, c) /\ c \in Maybe /\ c # NoDoc
    BY <1>1, Constants DEF Index
  <2>2. /\ pc'[Live] \in {"delete", "put"} /\ jobs' = jobs
        /\ \A w \in Workers : pc'[w] = pc[w]
    BY <1>0, <1>1, Constants DEF Index, Has, Call, TypeOK
  <2> QED
    BY <1>0, <2>1, <2>2, CallFacts, Constants DEF Hands, Holds, Procs
<1>2. ASSUME NEW d \in Docs, Delete(d)
      PROVE  Hands'
  <2>1. Call(d, NoDoc) /\ NoDoc \in Maybe
    BY <1>2, Constants DEF Delete
  <2>2. /\ pc'[Live] = "delete" /\ jobs' = jobs
        /\ \A w \in Workers : pc'[w] = pc[w]
    BY <1>0, <1>2, Constants DEF Delete, Call, TypeOK
  <2> QED
    BY <1>0, <2>1, <2>2, CallFacts, Constants DEF Hands, Holds, Procs
<1>3. ASSUME NEW p \in Procs, Wait(p)
      PROVE  Hands'
  BY <1>0, <1>3, Constants DEF Wait, Hands, Holds, TypeOK
<1>4. ASSUME NEW p \in Procs, StoreDelete(p)
      PROVE  Hands'
  BY <1>0, <1>4, Constants DEF StoreDelete, Hands, Holds, TypeOK
<1>5. ASSUME NEW p \in Procs, StorePut(p)
      PROVE  Hands'
  BY <1>0, <1>5, Constants DEF StorePut, Hands, Holds, TypeOK
<1>6. ASSUME Start
      PROVE  Hands'
  BY <1>0, <1>6, Constants DEF Start, Hands, Holds, TypeOK
<1>7. ASSUME EachStart
      PROVE  Hands'
  BY <1>0, <1>7, Constants DEF EachStart, Hands, Holds, TypeOK
<1>8. ASSUME NEW d \in Docs, Send(d)
      PROVE  Hands'
  <2>1. store[d] # NoDoc
    BY <1>0, <1>8 DEF Send, Frozen
  <2>2. \A i \in DOMAIN jobs' : jobs'[i].content # NoDoc
    BY <1>0, <1>8, <2>1, SendFacts DEF Hands
  <2> QED
    BY <1>0, <1>8, <2>2 DEF Send, Hands, Holds
<1>9. ASSUME EachEnd
      PROVE  Hands'
  BY <1>0, <1>9, Constants DEF EachEnd, Hands, Holds, TypeOK
<1>10. ASSUME NEW w \in Workers, Receive(w)
       PROVE  Hands'
  BY <1>0, <1>10, Constants DEF Receive, Hands, Holds, TypeOK
<1>11. ASSUME NEW w \in Workers, WorkerFails(w)
       PROVE  Hands'
  BY <1>0, <1>11, Constants DEF WorkerFails, Hands, Holds, TypeOK
<1>12. ASSUME NEW w \in Workers, WorkerHas(w)
       PROVE  Hands'
  BY <1>0, <1>12, Constants DEF WorkerHas, Has, Hands, Holds, TypeOK
<1>13. ASSUME NEW w \in Workers, WorkerEnd(w)
       PROVE  Hands'
  BY <1>0, <1>13, Constants DEF WorkerEnd, Hands, Holds, TypeOK
<1>14. ASSUME Fail
       PROVE  Hands'
  BY <1>0, <1>14, Constants DEF Fail, Hands, Holds, TypeOK
<1>15. ASSUME Swap
       PROVE  Hands'
  BY <1>0, <1>15, Constants DEF Swap, Hands, Holds, TypeOK
<1>16. ASSUME UNCHANGED vars
       PROVE  Hands'
  BY <1>0, <1>16 DEF vars, Hands, Holds, TypeOK
<1> QED
  BY <1>1, <1>2, <1>3, <1>4, <1>5, <1>6, <1>7, <1>8, <1>9,
     <1>10, <1>11, <1>12, <1>13, <1>14, <1>15, <1>16
  DEF Next, LiveStarts, Sender, Storage, Worker, Procs

\* EachStart, EachEnd, WorkerEnd and Swap follow one another.
LEMMA PhasesStep == IInv /\ [Next]_vars => Phases'
<1> SUFFICES ASSUME IInv, [Next]_vars
             PROVE  Phases'
  OBVIOUS
<1>0. TypeOK /\ Phases /\ Hands
  BY DEF IInv
<1>1. ASSUME NEW d \in Docs, NEW c \in Contents, Index(d, c)
      PROVE  Phases'
  BY <1>0, <1>1, Constants DEF Index, Call, Has, Phases, TypeOK
<1>2. ASSUME NEW d \in Docs, Delete(d)
      PROVE  Phases'
  BY <1>0, <1>2, Constants DEF Delete, Call, Phases, TypeOK
<1>3. ASSUME NEW p \in Procs, Wait(p)
      PROVE  Phases'
  BY <1>0, <1>3, Constants DEF Wait, Phases, TypeOK
<1>4. ASSUME NEW p \in Procs, StoreDelete(p)
      PROVE  Phases'
  BY <1>0, <1>4, Constants DEF StoreDelete, Phases, TypeOK
<1>5. ASSUME NEW p \in Procs, StorePut(p)
      PROVE  Phases'
  <2>1. /\ UNCHANGED <<reindex, each, toSend, jobs, hired>>
        /\ pc[p] = "put" /\ pc'[p] = "idle"
        /\ \A q \in Procs : q # p => pc'[q] = pc[q]
        /\ (p = Live /\ shadow' = shadow) \/ p \in Workers
    BY <1>0, <1>5, PutFacts DEF StorePut
  <2>2. CASE p = Live
    <3>1. \A w \in Workers : pc'[w] = pc[w]
      BY <2>1, <2>2, Constants
    <3> QED
      BY <1>0, <2>1, <2>2, <3>1, Constants DEF Phases, TypeOK
  <2>3. CASE p \in Workers
    <3>1. each # "no" /\ (reindex = "done" => p \notin hired) /\ p \in hired
      BY <1>0, <2>1, <2>3 DEF Phases
    <3>2. \A w \in Workers : pc'[w] = "done" => pc[w] = "done"
      BY <2>1, <2>3, Constants
    <3>3. \A w \in Workers \ hired : pc'[w] = "idle"
      BY <1>0, <2>1, <3>1, Constants DEF Phases
    <3> QED
      BY <1>0, <2>1, <3>1, <3>2, <3>3 DEF Phases
  <2> QED
    BY <2>1, <2>2, <2>3
<1>6. ASSUME Start
      PROVE  Phases'
  BY <1>0, <1>6, Constants DEF Start, Phases, TypeOK
<1>7. ASSUME EachStart
      PROVE  Phases'
  BY <1>0, <1>7, Constants DEF EachStart, Phases, TypeOK
<1>8. ASSUME NEW d \in Docs, Send(d)
      PROVE  Phases'
  BY <1>0, <1>8, Constants DEF Send, Phases, TypeOK
<1>9. ASSUME EachEnd
      PROVE  Phases'
  BY <1>0, <1>9, Constants DEF EachEnd, Phases, TypeOK
<1>10. ASSUME NEW w \in Workers, Receive(w)
       PROVE  Phases'
  BY <1>0, <1>10, Constants DEF Receive, Phases, TypeOK
<1>11. ASSUME NEW w \in Workers, WorkerFails(w)
       PROVE  Phases'
  BY <1>0, <1>11, Constants DEF WorkerFails, Phases, TypeOK
<1>12. ASSUME NEW w \in Workers, WorkerHas(w)
       PROVE  Phases'
  BY <1>0, <1>12, Constants DEF WorkerHas, Has, Phases, TypeOK
<1>13. ASSUME NEW w \in Workers, WorkerEnd(w)
       PROVE  Phases'
  BY <1>0, <1>13, Constants DEF WorkerEnd, Phases, TypeOK
<1>14. ASSUME Fail
       PROVE  Phases'
  BY <1>0, <1>14, Constants DEF Fail, Phases, TypeOK
<1>15. ASSUME Swap
       PROVE  Phases'
  BY <1>0, <1>15, Constants DEF Swap, Phases, TypeOK
<1>16. ASSUME UNCHANGED vars
       PROVE  Phases'
  BY <1>0, <1>16 DEF vars, Phases, TypeOK
<1> QED
  BY <1>1, <1>2, <1>3, <1>4, <1>5, <1>6, <1>7, <1>8, <1>9,
     <1>10, <1>11, <1>12, <1>13, <1>14, <1>15, <1>16
  DEF Next, LiveStarts, Sender, Storage, Worker, Procs

\* Nothing changes in the store that Each ranges over.
LEMMA FrozenStep == IInv /\ [Next]_vars => Frozen'
<1> SUFFICES ASSUME IInv, [Next]_vars
             PROVE  Frozen'
  OBVIOUS
<1>0. TypeOK /\ Frozen /\ Phases /\ Hands
  BY DEF IInv
<1>1. ASSUME NEW d \in Docs, NEW c \in Contents, Index(d, c)
      PROVE  Frozen'
  BY <1>0, <1>1, Constants DEF Index, Call, Has, Frozen, Holds, TypeOK
<1>2. ASSUME NEW d \in Docs, Delete(d)
      PROVE  Frozen'
  BY <1>0, <1>2, Constants DEF Delete, Call, Frozen, Holds, TypeOK
<1>3. ASSUME NEW p \in Procs, Wait(p)
      PROVE  Frozen'
  BY <1>0, <1>3, Constants DEF Wait, Frozen, Holds, TypeOK
<1>4. ASSUME NEW p \in Procs, StoreDelete(p)
      PROVE  Frozen'
  BY <1>0, <1>4, Constants DEF StoreDelete, Frozen, Holds, TypeOK
<1>5. ASSUME NEW p \in Procs, StorePut(p)
      PROVE  Frozen'
  BY <1>0, <1>5, Constants DEF StorePut, Frozen, Holds, TypeOK
<1>6. ASSUME Start
      PROVE  Frozen'
  BY <1>0, <1>6, Constants DEF Start, Frozen, Holds, TypeOK
<1>7. ASSUME EachStart
      PROVE  Frozen'
  <2>1. each = "no" /\ jobs' = <<>> /\ pc' = pc /\ store' = store
    BY <1>0, <1>7 DEF EachStart, Phases
  <2>2. \A w \in Workers : pc'[w] = "idle"
    BY <1>0, <2>1 DEF Phases
  <2>3. \A d \in toSend' : store'[d] # NoDoc
    BY <1>7 DEF EachStart
  <2>4. DOMAIN jobs' = {}
    BY <2>1
  <2> QED
    BY <2>2, <2>3, <2>4 DEF Frozen, Holds
<1>8. ASSUME NEW d \in Docs, Send(d)
      PROVE  Frozen'
  BY <1>0, <1>8, Constants DEF Send, Frozen, Holds, TypeOK
<1>9. ASSUME EachEnd
      PROVE  Frozen'
  BY <1>0, <1>9, Constants DEF EachEnd, Frozen, Holds, TypeOK
<1>10. ASSUME NEW w \in Workers, Receive(w)
       PROVE  Frozen'
  BY <1>0, <1>10, Constants DEF Receive, Frozen, Holds, TypeOK
<1>11. ASSUME NEW w \in Workers, WorkerFails(w)
       PROVE  Frozen'
  BY <1>0, <1>11, Constants DEF WorkerFails, Frozen, Holds, TypeOK
<1>12. ASSUME NEW w \in Workers, WorkerHas(w)
       PROVE  Frozen'
  BY <1>0, <1>12, Constants DEF WorkerHas, Has, Frozen, Holds, TypeOK
<1>13. ASSUME NEW w \in Workers, WorkerEnd(w)
       PROVE  Frozen'
  BY <1>0, <1>13, Constants DEF WorkerEnd, Frozen, Holds, TypeOK
<1>14. ASSUME Fail
       PROVE  Frozen'
  BY <1>0, <1>14, Constants DEF Fail, Frozen, Holds, TypeOK
<1>15. ASSUME Swap
       PROVE  Frozen'
  BY <1>0, <1>15, Constants DEF Swap, Frozen, Holds, TypeOK
<1>16. ASSUME UNCHANGED vars
       PROVE  Frozen'
  BY <1>0, <1>16 DEF vars, Frozen, Holds, TypeOK
<1> QED
  BY <1>1, <1>2, <1>3, <1>4, <1>5, <1>6, <1>7, <1>8, <1>9,
     <1>10, <1>11, <1>12, <1>13, <1>14, <1>15, <1>16
  DEF Next, LiveStarts, Sender, Storage, Worker, Procs

\* Index and Delete write index and store before Reindex begins.
LEMMA BeforeStep == IInv /\ [Next]_vars => Before'
<1> SUFFICES ASSUME IInv, [Next]_vars
             PROVE  Before'
  OBVIOUS
<1>0. TypeOK /\ Before /\ Phases /\ Hands
  BY DEF IInv
<1>1. ASSUME NEW d \in Docs, NEW c \in Contents, Index(d, c)
      PROVE  Before'
  BY <1>0, <1>1, Constants DEF Index, Call, Has, Before, TypeOK
<1>2. ASSUME NEW d \in Docs, Delete(d)
      PROVE  Before'
  BY <1>0, <1>2, Constants DEF Delete, Call, Before, TypeOK
<1>3. ASSUME NEW p \in Procs, Wait(p)
      PROVE  Before'
  BY <1>0, <1>3, Constants DEF Wait, Before, TypeOK
<1>4. ASSUME NEW p \in Procs, StoreDelete(p)
      PROVE  Before'
  <2> SUFFICES ASSUME reindex = "idle"
               PROVE  Before'
    BY <1>4 DEF StoreDelete, Before
  <2>1. p = Live
    BY <1>0, <1>4, DeleteFacts DEF Phases
  <2>2. want[job[p].doc] = job[p].content
    BY <1>0, <2>1, <1>4, DeleteFacts DEF Hands
  <2>3. reindex' = reindex /\ index' = index /\ want' = want
    BY <1>4 DEF StoreDelete
  <2>4. CASE job[p].content = NoDoc
    BY <1>0, <1>4, <2>1, <2>2, <2>3, <2>4, DeleteFacts DEF Before
  <2>5. CASE job[p].content # NoDoc
    BY <1>0, <1>4, <2>1, <2>2, <2>3, <2>5, DeleteFacts DEF Before
  <2> QED
    BY <2>4, <2>5
<1>5. ASSUME NEW p \in Procs, StorePut(p)
      PROVE  Before'
  <2> SUFFICES ASSUME reindex = "idle"
               PROVE  Before'
    BY <1>5 DEF StorePut, Before
  <2>1. p = Live
    BY <1>0, <1>5, PutFacts DEF Phases
  <2>2. want[job[p].doc] = job[p].content
    BY <1>0, <2>1, <1>5, PutFacts DEF Hands
  <2>3. reindex' = reindex /\ want' = want
    BY <1>5 DEF StorePut
  <2> QED
    BY <1>0, <1>5, <2>1, <2>2, <2>3, PutFacts DEF Before
<1>6. ASSUME Start
      PROVE  Before'
  BY <1>0, <1>6, Constants DEF Start, Before, TypeOK
<1>7. ASSUME EachStart
      PROVE  Before'
  BY <1>0, <1>7, Constants DEF EachStart, Before, TypeOK
<1>8. ASSUME NEW d \in Docs, Send(d)
      PROVE  Before'
  BY <1>0, <1>8, Constants DEF Send, Before, TypeOK
<1>9. ASSUME EachEnd
      PROVE  Before'
  BY <1>0, <1>9, Constants DEF EachEnd, Before, TypeOK
<1>10. ASSUME NEW w \in Workers, Receive(w)
       PROVE  Before'
  BY <1>0, <1>10, Constants DEF Receive, Before, TypeOK
<1>11. ASSUME NEW w \in Workers, WorkerFails(w)
       PROVE  Before'
  BY <1>0, <1>11, Constants DEF WorkerFails, Before, TypeOK
<1>12. ASSUME NEW w \in Workers, WorkerHas(w)
       PROVE  Before'
  BY <1>0, <1>12, Constants DEF WorkerHas, Has, Before, TypeOK
<1>13. ASSUME NEW w \in Workers, WorkerEnd(w)
       PROVE  Before'
  BY <1>0, <1>13, Constants DEF WorkerEnd, Before, TypeOK
<1>14. ASSUME Fail
       PROVE  Before'
  BY <1>0, <1>14, Constants DEF Fail, Before, TypeOK
<1>15. ASSUME Swap
       PROVE  Before'
  BY <1>0, <1>15, Constants DEF Swap, Before, TypeOK
<1>16. ASSUME UNCHANGED vars
       PROVE  Before'
  BY <1>0, <1>16 DEF vars, Before, TypeOK
<1> QED
  BY <1>1, <1>2, <1>3, <1>4, <1>5, <1>6, <1>7, <1>8, <1>9,
     <1>10, <1>11, <1>12, <1>13, <1>14, <1>15, <1>16
  DEF Next, LiveStarts, Sender, Storage, Worker, Procs

\* What a worker deletes it puts back.
LEMMA StoredStep == IInv /\ [Next]_vars => Stored'
<1> SUFFICES ASSUME IInv, [Next]_vars
             PROVE  Stored'
  OBVIOUS
<1>0. TypeOK /\ Stored /\ Hands /\ Before /\ Current
  BY DEF IInv
<1>1. ASSUME NEW d \in Docs, NEW c \in Contents, Index(d, c)
      PROVE  Stored'
  BY <1>0, <1>1, Constants DEF Index, Call, Has, Stored, PutsBack, TypeOK
<1>2. ASSUME NEW d \in Docs, Delete(d)
      PROVE  Stored'
  BY <1>0, <1>2, Constants DEF Delete, Call, Stored, PutsBack, TypeOK
<1>3. ASSUME NEW p \in Procs, Wait(p)
      PROVE  Stored'
  BY <1>0, <1>3, Constants DEF Wait, Stored, PutsBack, TypeOK
<1>4. ASSUME NEW p \in Procs, StoreDelete(p)
      PROVE  Stored'
  <2>1. want' = want /\ touched' = touched
    BY <1>4 DEF StoreDelete
  <2> SUFFICES ASSUME NEW d \in Docs \ touched
               PROVE  store'[d] = want[d] \/ PutsBack(d)'
    BY <2>1 DEF Stored
  <2>2. CASE d = job[p].doc
    <3>1. p \in Workers /\ p # Live
      BY <1>0, <1>4, <2>2, DeleteFacts DEF Hands
    <3>2. pc'[p] = "put" /\ job'[p] = job[p]
      BY <1>0, <1>4, <3>1, DeleteFacts
    <3> QED
      BY <2>2, <3>1, <3>2 DEF PutsBack
  <2>3. CASE d # job[p].doc
    <3>1. store'[d] = store[d]
      BY <1>0, <1>4, <2>3, DeleteFacts
    <3>2. PutsBack(d) => PutsBack(d)'
      BY <1>0, <1>4, DeleteFacts, Constants DEF PutsBack
    <3> QED
      BY <1>0, <3>1, <3>2 DEF Stored
  <2> QED
    BY <2>2, <2>3
<1>5. ASSUME NEW p \in Procs, StorePut(p)
      PROVE  Stored'
  <2>1. want' = want /\ touched' = touched
    BY <1>5 DEF StorePut
  <2> SUFFICES ASSUME NEW d \in Docs \ touched
               PROVE  store'[d] = want[d] \/ PutsBack(d)'
    BY <2>1 DEF Stored
  <2>2. CASE d = job[p].doc
    <3>1. p \in Workers /\ Holds(p)
      BY <1>0, <1>5, <2>2, PutFacts DEF Hands, Holds
    <3>2. store'[d] = job[p].content
      BY <1>0, <1>5, <2>2, PutFacts
    <3> QED
      BY <1>0, <2>2, <3>1, <3>2 DEF Current
  <2>3. CASE d # job[p].doc
    <3>1. store'[d] = store[d]
      BY <1>0, <1>5, <2>3, PutFacts
    <3>2. PutsBack(d) => PutsBack(d)'
      <4>1. \A w \in Workers : pc[w] = "put" /\ job[w].doc = d => w # p
        BY <2>3
      <4> QED
        BY <1>0, <1>5, <4>1, PutFacts, Constants DEF PutsBack
    <3> QED
      BY <1>0, <3>1, <3>2 DEF Stored
  <2> QED
    BY <2>2, <2>3
<1>6. ASSUME Start
      PROVE  Stored'
  <2>1. \A d \in Docs \ touched' : store[d] = want[d] /\ index[d] = want[d]
    BY <1>0, <1>6 DEF Start, Before
  <2> QED
    BY <1>6, <2>1 DEF Start, Stored
<1>7. ASSUME EachStart
      PROVE  Stored'
  BY <1>0, <1>7, Constants DEF EachStart, Stored, PutsBack, TypeOK
<1>8. ASSUME NEW d \in Docs, Send(d)
      PROVE  Stored'
  BY <1>0, <1>8, Constants DEF Send, Stored, PutsBack, TypeOK
<1>9. ASSUME EachEnd
      PROVE  Stored'
  BY <1>0, <1>9, Constants DEF EachEnd, Stored, PutsBack, TypeOK
<1>10. ASSUME NEW w \in Workers, Receive(w)
       PROVE  Stored'
  BY <1>0, <1>10, Constants DEF Receive, Stored, PutsBack, TypeOK
<1>11. ASSUME NEW w \in Workers, WorkerFails(w)
       PROVE  Stored'
  BY <1>0, <1>11, Constants DEF WorkerFails, Stored, PutsBack, TypeOK
<1>12. ASSUME NEW w \in Workers, WorkerHas(w)
       PROVE  Stored'
  BY <1>0, <1>12, Constants DEF WorkerHas, Has, Stored, PutsBack, TypeOK
<1>13. ASSUME NEW w \in Workers, WorkerEnd(w)
       PROVE  Stored'
  BY <1>0, <1>13, Constants DEF WorkerEnd, Stored, PutsBack, TypeOK
<1>14. ASSUME Fail
       PROVE  Stored'
  BY <1>0, <1>14, Constants DEF Fail, Stored, PutsBack, TypeOK
<1>15. ASSUME Swap
       PROVE  Stored'
  BY <1>0, <1>15, Constants DEF Swap, Stored, PutsBack, TypeOK
<1>16. ASSUME UNCHANGED vars
       PROVE  Stored'
  BY <1>0, <1>16 DEF vars, Stored, PutsBack, TypeOK
<1> QED
  BY <1>1, <1>2, <1>3, <1>4, <1>5, <1>6, <1>7, <1>8, <1>9,
     <1>10, <1>11, <1>12, <1>13, <1>14, <1>15, <1>16
  DEF Next, LiveStarts, Sender, Storage, Worker, Procs

\* The index of the live engine.
LEMMA FoundStep == IInv /\ [Next]_vars => Found'
<1> SUFFICES ASSUME IInv, [Next]_vars
             PROVE  Found'
  OBVIOUS
<1>0. TypeOK /\ Found /\ Phases /\ Hands /\ Before /\ Covered
  BY DEF IInv
<1>1. ASSUME NEW d \in Docs, NEW c \in Contents, Index(d, c)
      PROVE  Found'
  BY <1>0, <1>1, Constants DEF Index, Call, Has, Found, TypeOK
<1>2. ASSUME NEW d \in Docs, Delete(d)
      PROVE  Found'
  BY <1>0, <1>2, Constants DEF Delete, Call, Found, TypeOK
<1>3. ASSUME NEW p \in Procs, Wait(p)
      PROVE  Found'
  BY <1>0, <1>3, Constants DEF Wait, Found, TypeOK
<1>4. ASSUME NEW p \in Procs, StoreDelete(p)
      PROVE  Found'
  BY <1>0, <1>4, Constants DEF StoreDelete, Found, TypeOK
<1>5. ASSUME NEW p \in Procs, StorePut(p)
      PROVE  Found'
  <2>1. want' = want /\ touched' = touched
    BY <1>5 DEF StorePut
  <2>2. CASE p = Live
    <3>1. job[p].doc \in touched
      BY <1>0, <1>5, <2>2, PutFacts DEF Hands
    <3> QED
      BY <1>0, <1>5, <2>1, <3>1, PutFacts DEF Found
  <2>3. CASE p # Live
    <3>1. index' = index
      BY <1>0, <1>5, <2>3, PutFacts
    <3> QED
      BY <1>0, <2>1, <3>1 DEF Found
  <2> QED
    BY <2>2, <2>3
<1>6. ASSUME Start
      PROVE  Found'
  <2>1. \A d \in Docs \ touched' : store[d] = want[d] /\ index[d] = want[d]
    BY <1>0, <1>6 DEF Start, Before
  <2> QED
    BY <1>6, <2>1 DEF Start, Found
<1>7. ASSUME EachStart
      PROVE  Found'
  BY <1>0, <1>7, Constants DEF EachStart, Found, TypeOK
<1>8. ASSUME NEW d \in Docs, Send(d)
      PROVE  Found'
  BY <1>0, <1>8, Constants DEF Send, Found, TypeOK
<1>9. ASSUME EachEnd
      PROVE  Found'
  BY <1>0, <1>9, Constants DEF EachEnd, Found, TypeOK
<1>10. ASSUME NEW w \in Workers, Receive(w)
       PROVE  Found'
  BY <1>0, <1>10, Constants DEF Receive, Found, TypeOK
<1>11. ASSUME NEW w \in Workers, WorkerFails(w)
       PROVE  Found'
  BY <1>0, <1>11, Constants DEF WorkerFails, Found, TypeOK
<1>12. ASSUME NEW w \in Workers, WorkerHas(w)
       PROVE  Found'
  BY <1>0, <1>12, Constants DEF WorkerHas, Has, Found, TypeOK
<1>13. ASSUME NEW w \in Workers, WorkerEnd(w)
       PROVE  Found'
  BY <1>0, <1>13, Constants DEF WorkerEnd, Found, TypeOK
<1>14. ASSUME Fail
       PROVE  Found'
  BY <1>0, <1>14, Constants DEF Fail, Found, TypeOK
<1>15. ASSUME Swap
       PROVE  Found'
  <2>1. /\ each = "closed" /\ toSend = {} /\ jobs = <<>> /\ DOMAIN jobs = {}
        /\ \A w \in Workers : ~ Holds(w)
    <3>1. /\ each = "closed" /\ toSend = {}
          /\ \A w \in Workers : pc[w] \in {"idle", "done"}
      BY <1>0, <1>15 DEF Swap, Phases
    <3>2. PICK w \in hired : pc[w] = "done"
      BY <1>0, <1>15 DEF Swap, Phases
    <3>3. jobs = <<>>
      BY <1>0, <3>2 DEF Phases, TypeOK
    <3> QED
      BY <3>1, <3>3 DEF Holds
  <2>2. \A d : ~ InFlight(d)
    BY <2>1 DEF InFlight
  <2>3. \A d \in Docs \ touched : shadow[d] = want[d]
    BY <1>0, <2>1, <2>2 DEF Covered
  <2> QED
    BY <1>15, <2>3 DEF Swap, Found
<1>16. ASSUME UNCHANGED vars
       PROVE  Found'
  BY <1>0, <1>16 DEF vars, Found, TypeOK
<1> QED
  BY <1>1, <1>2, <1>3, <1>4, <1>5, <1>6, <1>7, <1>8, <1>9,
     <1>10, <1>11, <1>12, <1>13, <1>14, <1>15, <1>16
  DEF Next, LiveStarts, Sender, Storage, Worker, Procs

\* Documents in flight.
LEMMA CurrentStep == IInv /\ [Next]_vars => Current'
<1> SUFFICES ASSUME IInv, [Next]_vars
             PROVE  Current'
  OBVIOUS
<1>0. TypeOK /\ Current /\ Stored /\ Phases /\ Frozen /\ Hands
  BY DEF IInv
<1>1. ASSUME NEW d \in Docs, NEW c \in Contents, Index(d, c)
      PROVE  Current'
  BY <1>0, <1>1, Constants DEF Index, Call, Has, Current, Holds, TypeOK
<1>2. ASSUME NEW d \in Docs, Delete(d)
      PROVE  Current'
  BY <1>0, <1>2, Constants DEF Delete, Call, Current, Holds, TypeOK
<1>3. ASSUME NEW p \in Procs, Wait(p)
      PROVE  Current'
  BY <1>0, <1>3, Constants DEF Wait, Current, Holds, TypeOK
<1>4. ASSUME NEW p \in Procs, StoreDelete(p)
      PROVE  Current'
  BY <1>0, <1>4, Constants DEF StoreDelete, Current, Holds, TypeOK
<1>5. ASSUME NEW p \in Procs, StorePut(p)
      PROVE  Current'
  BY <1>0, <1>5, Constants DEF StorePut, Current, Holds, TypeOK
<1>6. ASSUME Start
      PROVE  Current'
  <2>1. each = "no" /\ jobs' = jobs /\ pc' = pc
    BY <1>0, <1>6 DEF Start, Phases
  <2>2. DOMAIN jobs' = {} /\ \A w \in Workers : ~ Holds(w)'
    BY <1>0, <2>1 DEF Phases, Holds
  <2> QED
    BY <2>2 DEF Current
<1>7. ASSUME EachStart
      PROVE  Current'
  BY <1>0, <1>7, Constants DEF EachStart, Current, Holds, TypeOK
<1>8. ASSUME NEW d \in Docs, Send(d)
      PROVE  Current'
  <2>1. d \notin touched => store[d] = want[d]
    BY <1>0, <1>8 DEF Send, Stored, PutsBack, Frozen
  <2>2. \A i \in DOMAIN jobs' :
           jobs'[i].doc \notin touched => jobs'[i].content = want[jobs'[i].doc]
    BY <1>0, <1>8, <2>1, SendFacts DEF Current
  <2> QED
    BY <1>0, <1>8, <2>2 DEF Send, Current, Holds
<1>9. ASSUME EachEnd
      PROVE  Current'
  BY <1>0, <1>9, Constants DEF EachEnd, Current, Holds, TypeOK
<1>10. ASSUME NEW w \in Workers, Receive(w)
       PROVE  Current'
  BY <1>0, <1>10, Constants DEF Receive, Current, Holds, TypeOK
<1>11. ASSUME NEW w \in Workers, WorkerFails(w)
       PROVE  Current'
  BY <1>0, <1>11, Constants DEF WorkerFails, Current, Holds, TypeOK
<1>12. ASSUME NEW w \in Workers, WorkerHas(w)
       PROVE  Current'
  BY <1>0, <1>12, Constants DEF WorkerHas, Has, Current, Holds, TypeOK
<1>13. ASSUME NEW w \in Workers, WorkerEnd(w)
       PROVE  Current'
  BY <1>0, <1>13, Constants DEF WorkerEnd, Current, Holds, TypeOK
<1>14. ASSUME Fail
       PROVE  Current'
  BY <1>0, <1>14, Constants DEF Fail, Current, Holds, TypeOK
<1>15. ASSUME Swap
       PROVE  Current'
  BY <1>0, <1>15, Constants DEF Swap, Current, Holds, TypeOK
<1>16. ASSUME UNCHANGED vars
       PROVE  Current'
  BY <1>0, <1>16 DEF vars, Current, Holds, TypeOK
<1> QED
  BY <1>1, <1>2, <1>3, <1>4, <1>5, <1>6, <1>7, <1>8, <1>9,
     <1>10, <1>11, <1>12, <1>13, <1>14, <1>15, <1>16
  DEF Next, LiveStarts, Sender, Storage, Worker, Procs

\* No document is forgotten.
LEMMA CoveredStep == IInv /\ [Next]_vars => Covered'
<1> SUFFICES ASSUME IInv, [Next]_vars
             PROVE  Covered'
  OBVIOUS
<1>0. TypeOK /\ Covered /\ Current /\ Hands /\ Phases /\ Stored
  BY DEF IInv
<1>1. ASSUME NEW d \in Docs, NEW c \in Contents, Index(d, c)
      PROVE  Covered'
  BY <1>0, <1>1, Constants DEF Index, Call, Has, Covered, InFlight, Holds, TypeOK
<1>2. ASSUME NEW d \in Docs, Delete(d)
      PROVE  Covered'
  BY <1>0, <1>2, Constants DEF Delete, Call, Covered, InFlight, Holds, TypeOK
<1>3. ASSUME NEW p \in Procs, Wait(p)
      PROVE  Covered'
  BY <1>0, <1>3, Constants DEF Wait, Covered, InFlight, Holds, TypeOK
<1>4. ASSUME NEW p \in Procs, StoreDelete(p)
      PROVE  Covered'
  <2>1. UNCHANGED <<want, touched, each, toSend, jobs, shadow>>
    BY <1>4 DEF StoreDelete
  <2>2. ASSUME NEW d, InFlight(d)
        PROVE  InFlight(d)'
    <3>1. ASSUME NEW w \in Workers, Holds(w), job[w].doc = d
          PROVE  Holds(w)' /\ job'[w].doc = d
      BY <1>0, <1>4, <3>1, DeleteFacts, Constants DEF Holds
    <3> QED
      BY <2>1, <2>2, <3>1 DEF InFlight
  <2> QED
    BY <1>0, <2>1, <2>2 DEF Covered
<1>5. ASSUME NEW p \in Procs, StorePut(p)
      PROVE  Covered'
  <2>1. UNCHANGED <<want, touched, each, toSend, jobs>>
    BY <1>5 DEF StorePut
  <2>2. ASSUME NEW d, InFlight(d), p = Live \/ d # job[p].doc
        PROVE  InFlight(d)'
    <3>1. ASSUME NEW w \in Workers, Holds(w), job[w].doc = d
          PROVE  Holds(w)' /\ job'[w].doc = d
      BY <1>0, <1>5, <2>2, <3>1, PutFacts, Constants DEF Holds
    <3> QED
      BY <2>1, <2>2, <3>1 DEF InFlight
  <2>3. CASE p = Live
    BY <1>0, <1>5, <2>1, <2>2, <2>3, PutFacts DEF Covered
  <2>4. CASE p # Live
    <3>1. p \in Workers /\ Holds(p)
      BY <1>0, <1>5, <2>4, PutFacts DEF Holds
    <3>2. job[p].doc \notin touched => shadow'[job[p].doc] = want[job[p].doc]
      BY <1>0, <1>5, <2>4, <3>1, PutFacts DEF Current
    <3>3. \A d \in Docs : d # job[p].doc => shadow'[d] = shadow[d]
      BY <1>0, <1>5, PutFacts
    <3> QED
      BY <1>0, <2>1, <2>2, <3>2, <3>3 DEF Covered
  <2> QED
    BY <2>3, <2>4
<1>6. ASSUME Start
      PROVE  Covered'
  <2>1. each' = "no"
    BY <1>0, <1>6 DEF Start, Phases
  <2> QED
    BY <2>1 DEF Covered
<1>7. ASSUME EachStart
      PROVE  Covered'
  <2>1. /\ want' = want /\ touched' = touched /\ shadow' = shadow
        /\ toSend' = {d \in Docs : store[d] # NoDoc}
        /\ \A w \in Workers : pc[w] = "idle"
        /\ shadow = [d \in Docs |-> NoDoc]
    BY <1>0, <1>7 DEF EachStart, Phases
  <2>2. \A d \in Docs \ touched : store[d] = want[d]
    BY <1>0, <2>1 DEF Stored, PutsBack
  <2>3. ASSUME NEW d \in Docs \ touched
        PROVE  InFlight(d)' \/ shadow[d] = want[d]
    BY <2>1, <2>2 DEF InFlight
  <2> QED
    BY <2>1, <2>3 DEF Covered
<1>8. ASSUME NEW d \in Docs, Send(d)
      PROVE  Covered'
  <2>1. PICK j \in Job : j.doc = d /\ jobs' = Append(jobs, j)
    <3>1. [doc |-> d, content |-> store[d]] \in Job
      BY <1>0 DEF TypeOK, Job
    <3> QED
      BY <1>8, <3>1 DEF Send
  <2>2. PICK n \in Nat : n = Len(jobs) /\ DOMAIN jobs = 1..n
    BY <1>0, LenProperties DEF TypeOK
  <2>3. /\ DOMAIN jobs' = 1..(n + 1) /\ jobs'[n + 1] = j
        /\ \A i \in 1..n : jobs'[i] = jobs[i]
    <3>1. /\ DOMAIN Append(jobs, j) = 1..(Len(jobs) + 1)
          /\ \A i \in 1..Len(jobs) : Append(jobs, j)[i] = jobs[i]
          /\ Append(jobs, j)[Len(jobs) + 1] = j
      BY <1>0, AppendFacts DEF TypeOK
    <3> QED
      BY <2>1, <2>2, <3>1
  <2>4. /\ UNCHANGED <<shadow, each, pc, job, want, touched>>
        /\ toSend' = toSend \ {d}
    BY <1>8 DEF Send
  <2>5. \A x : InFlight(x) => InFlight(x)'
    <3> SUFFICES ASSUME NEW x, InFlight(x)
                 PROVE  InFlight(x)'
      OBVIOUS
    <3>1. CASE x \in toSend
      <4>1. x # d => x \in toSend'
        BY <2>4, <3>1
      <4>2. n + 1 \in DOMAIN jobs' /\ jobs'[n + 1].doc = d
        BY <2>1, <2>2, <2>3
      <4> QED
        BY <4>1, <4>2 DEF InFlight
    <3>2. ASSUME NEW i \in DOMAIN jobs, jobs[i].doc = x
          PROVE  InFlight(x)'
      <4>1. i \in DOMAIN jobs' /\ jobs'[i].doc = x
        BY <2>2, <2>3, <3>2
      <4> QED
        BY <4>1 DEF InFlight
    <3>3. CASE \E w \in Workers : Holds(w) /\ job[w].doc = x
      BY <2>4, <3>3 DEF InFlight, Holds
    <3> QED
      BY <3>1, <3>2, <3>3 DEF InFlight
  <2> QED
    BY <1>0, <2>4, <2>5 DEF Covered
<1>9. ASSUME EachEnd
      PROVE  Covered'
  BY <1>0, <1>9, Constants DEF EachEnd, Covered, InFlight, Holds, TypeOK
<1>10. ASSUME NEW w \in Workers, Receive(w)
       PROVE  Covered'
  <2>1. UNCHANGED <<want, touched, each, toSend, shadow>>
    BY <1>10 DEF Receive
  <2>2. ASSUME NEW d, InFlight(d)
        PROVE  InFlight(d)'
    <3>1. ASSUME NEW i \in DOMAIN jobs, jobs[i].doc = d
          PROVE  InFlight(d)'
      <4>1. CASE i = 1
        <5>1. Holds(w)' /\ job'[w].doc = d
          BY <1>0, <1>10, <3>1, <4>1, ReceiveFacts DEF Holds
        <5> QED
          BY <5>1 DEF InFlight
      <4>2. CASE i # 1
        <5>1. i - 1 \in 1..(Len(jobs) - 1) /\ i - 1 + 1 = i
          BY <1>0, <1>10, <3>1, <4>2, ReceiveFacts
        <5>2. i - 1 \in DOMAIN jobs' /\ jobs'[i - 1] = jobs[i]
          BY <1>0, <1>10, <5>1, ReceiveFacts
        <5> QED
          BY <3>1, <5>2 DEF InFlight
      <4> QED
        BY <4>1, <4>2
    <3>2. ASSUME NEW v \in Workers, Holds(v), job[v].doc = d
          PROVE  Holds(v)' /\ job'[v].doc = d
      BY <1>0, <1>10, <3>2, ReceiveFacts DEF Holds
    <3> QED
      BY <2>1, <2>2, <3>1, <3>2 DEF InFlight
  <2> QED
    BY <1>0, <2>1, <2>2 DEF Covered
<1>11. ASSUME NEW w \in Workers, WorkerFails(w)
       PROVE  Covered'
  BY <1>0, <1>11, Constants DEF WorkerFails, Covered, InFlight, Holds, TypeOK
<1>12. ASSUME NEW w \in Workers, WorkerHas(w)
       PROVE  Covered'
  BY <1>0, <1>12, Constants DEF WorkerHas, Has, Covered, InFlight, Holds, TypeOK
<1>13. ASSUME NEW w \in Workers, WorkerEnd(w)
       PROVE  Covered'
  BY <1>0, <1>13, Constants DEF WorkerEnd, Covered, InFlight, Holds, TypeOK
<1>14. ASSUME Fail
       PROVE  Covered'
  BY <1>0, <1>14, Constants DEF Fail, Covered, InFlight, Holds, TypeOK
<1>15. ASSUME Swap
       PROVE  Covered'
  BY <1>0, <1>15, Constants DEF Swap, Covered, InFlight, Holds, TypeOK
<1>16. ASSUME UNCHANGED vars
       PROVE  Covered'
  BY <1>0, <1>16 DEF vars, Covered, InFlight, Holds, TypeOK
<1> QED
  BY <1>1, <1>2, <1>3, <1>4, <1>5, <1>6, <1>7, <1>8, <1>9,
     <1>10, <1>11, <1>12, <1>13, <1>14, <1>15, <1>16
  DEF Next, LiveStarts, Sender, Storage, Worker, Procs

\* No document vanishes.
LEMMA KeptStep == IInv /\ [Next]_vars => Kept'
<1> SUFFICES ASSUME IInv, [Next]_vars
             PROVE  Kept'
  OBVIOUS
<1>0. TypeOK /\ Kept /\ Hands /\ Phases
  BY DEF IInv
<1>1. ASSUME NEW d \in Docs, NEW c \in Contents, Index(d, c)
      PROVE  Kept'
  BY <1>0, <1>1, Constants DEF Index, Call, Has, Kept, TypeOK
<1>2. ASSUME NEW d \in Docs, Delete(d)
      PROVE  Kept'
  BY <1>0, <1>2, Constants DEF Delete, Call, Kept, TypeOK
<1>3. ASSUME NEW p \in Procs, Wait(p)
      PROVE  Kept'
  BY <1>0, <1>3, Constants DEF Wait, Kept, TypeOK
<1>4. ASSUME NEW p \in Procs, StoreDelete(p)
      PROVE  Kept'
  <2>1. want' = want
    BY <1>4 DEF StoreDelete
  <2> SUFFICES ASSUME NEW d \in Docs, want[d] # NoDoc
               PROVE  \/ store'[d] # NoDoc
                      \/ \E q \in Procs : pc'[q] = "put" /\ job'[q].doc = d
    BY <2>1 DEF Kept
  <2>2. CASE d = job[p].doc
    <3>1. job[p].content # NoDoc
      BY <1>0, <1>4, <2>2, DeleteFacts DEF Hands
    <3> QED
      BY <1>0, <1>4, <2>2, <3>1, DeleteFacts
  <2>3. CASE d # job[p].doc
    <3>1. store'[d] = store[d]
      BY <1>0, <1>4, <2>3, DeleteFacts
    <3>2. \A q \in Procs : pc[q] = "put" => pc'[q] = "put" /\ job'[q] = job[q]
      BY <1>0, <1>4, DeleteFacts
    <3> QED
      BY <1>0, <3>1, <3>2 DEF Kept
  <2> QED
    BY <2>2, <2>3
<1>5. ASSUME NEW p \in Procs, StorePut(p)
      PROVE  Kept'
  <2>1. want' = want
    BY <1>5 DEF StorePut
  <2> SUFFICES ASSUME NEW d \in Docs, want[d] # NoDoc
               PROVE  \/ store'[d] # NoDoc
                      \/ \E q \in Procs : pc'[q] = "put" /\ job'[q].doc = d
    BY <2>1 DEF Kept
  <2>2. CASE d = job[p].doc
    BY <1>0, <1>5, <2>2, PutFacts
  <2>3. CASE d # job[p].doc
    <3>1. store'[d] = store[d]
      BY <1>0, <1>5, <2>3, PutFacts
    <3>2. \A q \in Procs : pc[q] = "put" /\ job[q].doc = d => pc'[q] = "put" /\ job'[q] = job[q]
      BY <1>0, <1>5, <2>3, PutFacts
    <3> QED
      BY <1>0, <3>1, <3>2 DEF Kept
  <2> QED
    BY <2>2, <2>3
<1>6. ASSUME Start
      PROVE  Kept'
  BY <1>0, <1>6, Constants DEF Start, Kept, TypeOK
<1>7. ASSUME EachStart
      PROVE  Kept'
  BY <1>0, <1>7, Constants DEF EachStart, Kept, TypeOK
<1>8. ASSUME NEW d \in Docs, Send(d)
      PROVE  Kept'
  BY <1>0, <1>8, Constants DEF Send, Kept, TypeOK
<1>9. ASSUME EachEnd
      PROVE  Kept'
  BY <1>0, <1>9, Constants DEF EachEnd, Kept, TypeOK
<1>10. ASSUME NEW w \in Workers, Receive(w)
       PROVE  Kept'
  BY <1>0, <1>10, Constants DEF Receive, Kept, TypeOK
<1>11. ASSUME NEW w \in Workers, WorkerFails(w)
       PROVE  Kept'
  BY <1>0, <1>11, Constants DEF WorkerFails, Kept, TypeOK
<1>12. ASSUME NEW w \in Workers, WorkerHas(w)
       PROVE  Kept'
  BY <1>0, <1>12, Constants DEF WorkerHas, Has, Kept, TypeOK
<1>13. ASSUME NEW w \in Workers, WorkerEnd(w)
       PROVE  Kept'
  BY <1>0, <1>13, Constants DEF WorkerEnd, Kept, TypeOK
<1>14. ASSUME Fail
       PROVE  Kept'
  BY <1>0, <1>14, Constants DEF Fail, Kept, TypeOK
<1>15. ASSUME Swap
       PROVE  Kept'
  BY <1>0, <1>15, Constants DEF Swap, Kept, TypeOK
<1>16. ASSUME UNCHANGED vars
       PROVE  Kept'
  BY <1>0, <1>16 DEF vars, Kept, TypeOK
<1> QED
  BY <1>1, <1>2, <1>3, <1>4, <1>5, <1>6, <1>7, <1>8, <1>9,
     <1>10, <1>11, <1>12, <1>13, <1>14, <1>15, <1>16
  DEF Next, LiveStarts, Sender, Storage, Worker, Procs

\* The sets that are counted are finite.
LEMMA Finite ==
    ASSUME TypeOK
    PROVE  /\ IsFiniteSet(Docs) /\ Cardinality(Docs) \in Nat
           /\ IsFiniteSet(toSend) /\ Cardinality(toSend) \in Nat
           /\ Cardinality(toSend) <= Cardinality(Docs)
           /\ IsFiniteSet(Busy) /\ Cardinality(Busy) \in Nat
           /\ Len(jobs) \in Nat
<1>1. IsFiniteSet(Docs) /\ IsFiniteSet(Workers)
  BY DocsAssumption, WorkersAssumption
<1>2. toSend \in SUBSET Docs /\ Busy \in SUBSET Workers /\ Len(jobs) \in Nat
  BY DEF TypeOK, Busy
<1>3. /\ IsFiniteSet(toSend) /\ Cardinality(toSend) <= Cardinality(Docs)
      /\ IsFiniteSet(Busy)
  BY <1>1, <1>2, FS_Subset
<1> QED
  BY <1>1, <1>2, <1>3, FS_CardinalityType

\* Documents are sent once.
LEMMA CountedStep == IInv /\ [Next]_vars => Counted'
<1> SUFFICES ASSUME IInv, [Next]_vars
             PROVE  Counted'
  OBVIOUS
<1>0. TypeOK /\ Counted /\ Hands /\ Phases /\ Frozen
  BY DEF IInv
<1>1. ASSUME NEW d \in Docs, NEW c \in Contents, Index(d, c)
      PROVE  Counted'
  BY <1>0, <1>1, Constants DEF Index, Call, Has, Counted, Busy, TypeOK
<1>2. ASSUME NEW d \in Docs, Delete(d)
      PROVE  Counted'
  BY <1>0, <1>2, Constants DEF Delete, Call, Counted, Busy, TypeOK
<1>3. ASSUME NEW p \in Procs, Wait(p)
      PROVE  Counted'
  BY <1>0, <1>3, Constants DEF Wait, Counted, Busy, TypeOK
<1>4. ASSUME NEW p \in Procs, StoreDelete(p)
      PROVE  Counted'
  BY <1>0, <1>4, Constants DEF StoreDelete, Counted, Busy, TypeOK
<1>5. ASSUME NEW p \in Procs, StorePut(p)
      PROVE  Counted'
  BY <1>0, <1>5, Constants DEF StorePut, Counted, Busy, TypeOK
<1>6. ASSUME Start
      PROVE  Counted'
  BY <1>0, <1>6, Constants DEF Start, Counted, Busy, TypeOK
<1>7. ASSUME EachStart
      PROVE  Counted'
  <2>1. jobs = <<>> /\ Busy = {} /\ jobs' = jobs /\ Busy' = Busy
    BY <1>0, <1>7 DEF EachStart, Phases, Busy
  <2>2. toSend' \in SUBSET Docs
    BY <1>7 DEF EachStart
  <2>3. /\ Cardinality(toSend') <= Cardinality(Docs) /\ Cardinality(toSend') \in Nat
        /\ Cardinality({}) = 0 /\ Len(<<>>) = 0 /\ Cardinality(Docs) \in Nat
    BY <1>0, <2>2, Finite, FS_Subset, FS_EmptySet, FS_CardinalityType
  <2> QED
    BY <2>1, <2>3 DEF Counted
<1>8. ASSUME NEW d \in Docs, Send(d)
      PROVE  Counted'
  <2>1. Busy' = Busy /\ d \in toSend /\ toSend' = toSend \ {d} /\ each = "ranging"
    BY <1>8 DEF Send, Busy
  <2>2. Len(jobs') = Len(jobs) + 1
    BY <1>0, <1>8, SendFacts
  <2>3. Cardinality(toSend') = Cardinality(toSend) - 1
    BY <1>0, <2>1, Finite, FS_RemoveElement
  <2> QED
    BY <1>0, <2>1, <2>2, <2>3, Finite DEF Counted
<1>9. ASSUME EachEnd
      PROVE  Counted'
  BY <1>0, <1>9, Constants DEF EachEnd, Counted, Busy, TypeOK
<1>10. ASSUME NEW w \in Workers, Receive(w)
       PROVE  Counted'
  <2>1. Busy' = Busy \cup {w} /\ w \notin Busy
    BY <1>0, <1>10, ReceiveFacts DEF Busy
  <2>2. Cardinality(Busy') = Cardinality(Busy) + 1
    BY <1>0, <2>1, Finite, FS_AddElement
  <2>3. Len(jobs') = Len(jobs) - 1 /\ each' = each /\ toSend' = toSend
    BY <1>0, <1>10, ReceiveFacts DEF Receive
  <2> QED
    BY <1>0, <2>2, <2>3, Finite DEF Counted
<1>11. ASSUME NEW w \in Workers, WorkerFails(w)
       PROVE  Counted'
  BY <1>0, <1>11, Constants DEF WorkerFails, Counted, Busy, TypeOK
<1>12. ASSUME NEW w \in Workers, WorkerHas(w)
       PROVE  Counted'
  BY <1>0, <1>12, Constants DEF WorkerHas, Has, Counted, Busy, TypeOK
<1>13. ASSUME NEW w \in Workers, WorkerEnd(w)
       PROVE  Counted'
  BY <1>0, <1>13, Constants DEF WorkerEnd, Counted, Busy, TypeOK
<1>14. ASSUME Fail
       PROVE  Counted'
  BY <1>0, <1>14, Constants DEF Fail, Counted, Busy, TypeOK
<1>15. ASSUME Swap
       PROVE  Counted'
  BY <1>0, <1>15, Constants DEF Swap, Counted, Busy, TypeOK
<1>16. ASSUME UNCHANGED vars
       PROVE  Counted'
  BY <1>0, <1>16 DEF vars, Counted, Busy, TypeOK
<1> QED
  BY <1>1, <1>2, <1>3, <1>4, <1>5, <1>6, <1>7, <1>8, <1>9,
     <1>10, <1>11, <1>12, <1>13, <1>14, <1>15, <1>16
  DEF Next, LiveStarts, Sender, Storage, Worker, Procs

\* An engine with some documents, and no Reindex begun.
LEMMA InvInit == Init => IInv
<1> SUFFICES ASSUME Init
             PROVE  IInv
  OBVIOUS
<1>1. \A p \in Procs : pc[p] = "idle" /\ job[p] = NoJob
  BY DEF Init
<1>2. TypeOK
  <2>1. jobs \in Seq(Job) /\ Len(jobs) <= Capacity
    BY HiredFacts DEF Init
  <2>2. calls \in 0..MaxCalls
    BY BoundAssumption DEF Init
  <2> QED
    BY <2>1, <2>2, Constants DEF Init, TypeOK
<1>3. Hands /\ Phases
  BY <1>1, Constants DEF Init, Hands, Phases, Holds
<1>4. Frozen /\ Before /\ Stored /\ Found
  BY <1>1, Constants DEF Init, Frozen, Before, Stored, Found
<1>5. Current /\ Covered /\ Counted
  BY <1>1, Constants DEF Init, Current, Covered, Counted, Holds
<1>6. Kept
  BY DEF Init, Kept
<1> QED
  BY <1>2, <1>3, <1>4, <1>5, <1>6 DEF IInv

\* Every step keeps the invariant.
LEMMA InvStep == IInv /\ [Next]_vars => IInv'
BY TypeStep, HandsStep, PhasesStep, FrozenStep, BeforeStep, StoredStep,
   FoundStep, CurrentStep, CoveredStep, KeptStep, CountedStep
DEF IInv

\* It holds in every state of every behaviour.
LEMMA Invariance == Spec => []IInv
BY InvInit, InvStep, PTL DEF Spec

-----------------------------------------------------------------------------
(* The theorems.                                                           *)

\* The variables of Reindex, its goroutines, the store and its lock keep their
\* types, the channel of buildIndex never holds more than its capacity, and no
\* process is at a step it does not have.
THEOREM TypeCorrect == Spec => []TypeOK
<1>1. IInv => TypeOK
  BY DEF IInv
<1> QED
  BY Invariance, <1>1, PTL

\* When Reindex has swapped the index of the shadow engine in, every document
\* no call touched meanwhile is in the store and is found as before: no
\* document gets lost between the Each of buildIndex, its channel, the Delete
\* and Put of its workers and the swap, however they interleave.
THEOREM UntouchedCorrect == Spec => []UntouchedSurvive
<1>1. IInv => UntouchedSurvive
  <2> SUFFICES ASSUME IInv, reindex = "done", NEW d \in Docs \ touched
               PROVE  store[d] = want[d] /\ index[d] = want[d]
    BY DEF UntouchedSurvive
  <2>1. \A w \in Workers : pc[w] \in {"idle", "done"}
    BY DEF IInv, Phases
  <2>2. ~ PutsBack(d)
    BY <2>1 DEF PutsBack
  <2>3. store[d] = want[d]
    BY <2>2 DEF IInv, Stored
  <2>4. index[d] = want[d]
    BY DEF IInv, Found
  <2> QED
    BY <2>3, <2>4
<1> QED
  BY Invariance, <1>1, PTL

\* While Reindex runs, and when it failed, a document no call touched is found
\* by the live index, and is missing from the store only between the Delete
\* and the Put of a worker that has it in hand.
THEOREM InHandCorrect == Spec => []OnlyInHand
<1>1. IInv => OnlyInHand
  <2> SUFFICES ASSUME IInv, NEW d \in Docs \ touched
               PROVE  /\ index[d] = want[d]
                      /\ \/ store[d] = want[d]
                         \/ \E w \in Workers : Indexing(w) /\ job[w].doc = d
    BY DEF OnlyInHand
  <2>1. index[d] = want[d]
    BY DEF IInv, Found
  <2>2. PutsBack(d) => \E w \in Workers : Indexing(w) /\ job[w].doc = d
    BY DEF PutsBack, Indexing
  <2> QED
    BY <2>1, <2>2 DEF IInv, Stored
<1> QED
  BY Invariance, <1>1, PTL

\* Calls of the live engine and workers that delete and put back the same
\* document, in any interleaving, leave some content of it in the store.
THEOREM NoneVanishesCorrect == Spec => []NoneVanishes
<1>1. IInv => NoneVanishes
  <2> SUFFICES ASSUME IInv, Quiet, NEW d \in Docs, want[d] # NoDoc
               PROVE  store[d] # NoDoc
    BY DEF NoneVanishes
  <2>1. \A p \in Procs : pc[p] # "put"
    BY DEF Quiet
  <2> QED
    BY <2>1 DEF IInv, Kept
<1> QED
  BY Invariance, <1>1, PTL

\* With at most three documents per worker, the goroutine that ranges over the
\* store and holds its lock always finds room in the channel, or a worker that
\* receives before it needs that lock.
THEOREM RoomCorrect == Spec => []RoomToSend
<1>1. IInv => RoomToSend
  <2> SUFFICES ASSUME IInv, Cardinality(Docs) <= 3 * Cardinality(hired),
                      each = "ranging", toSend # {},
                      \A w \in hired : pc[w] # "idle"
               PROVE  Len(jobs) < Capacity
    BY DEF RoomToSend
  <2>0. TypeOK /\ Counted
    BY DEF IInv
  <2>1. Cardinality(hired) <= Cardinality(Busy)
    <3>1. hired \in SUBSET Busy
      BY <2>0 DEF Busy, TypeOK
    <3> QED
      BY <2>0, <3>1, Finite, FS_Subset
  <2>2. Cardinality(toSend) # 0
    BY <2>0, Finite, FS_EmptySet
  <2>3. Len(jobs) + Cardinality(Busy) + Cardinality(toSend) <= Cardinality(Docs)
    BY <2>0 DEF Counted
  <2>4. Cardinality(hired) \in Nat /\ Capacity = 2 * Cardinality(hired)
    BY <2>0, HiredFacts DEF TypeOK
  <2> QED
    BY <2>0, <2>1, <2>2, <2>3, <2>4, Finite
<1> QED
  BY Invariance, <1>1, PTL
=============================================================================
