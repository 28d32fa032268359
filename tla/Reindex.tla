------------------------------- MODULE Reindex -------------------------------
(***************************************************************************)
(* Reindex of engine/engine.go: a shadow engine is built from the document *)
(* store while the live engine goes on, and its index is swapped in.       *)
(*                                                                         *)
(* A goroutine ranges over the store and sends the documents to the jobs   *)
(* channel; the workers hand them to Index of the shadow engine.  Both     *)
(* engines use the same store.  Its Each holds the store's read lock from  *)
(* its first document to its last, also while it waits for room in the     *)
(* channel; every other operation of the store is one step.  A writer that *)
(* waits for the lock keeps new readers out, as sync.RWMutex does.         *)
(*                                                                         *)
(* Index and Delete of the live engine are the process Live: they hold     *)
(* e.mu, so there is one call at a time.  The index of either engine is,   *)
(* per document, the content it is found by; every field is stored, as it  *)
(* is unless a mapping says otherwise.  One Reindex at a time.             *)
(*                                                                         *)
(* A definition marked Slip is a mistake the code could have made in the   *)
(* definition that follows it; nothing here uses it.                       *)
(***************************************************************************)
EXTENDS Integers, Sequences, FiniteSets

CONSTANTS
    Docs,      \* document ids
    Contents,  \* what a document may contain
    NoDoc,     \* a document that does not exist
    Workers,   \* the workers there may be
    Live,      \* the caller of the live engine
    NoJob,     \* a process that has no document in hand
    MaxCalls   \* bound: calls of the live engine

ASSUME DocsAssumption == IsFiniteSet(Docs) /\ NoDoc \notin Contents
ASSUME WorkersAssumption ==
    IsFiniteSet(Workers) /\ Workers # {} /\ Live \notin Workers
ASSUME NoJobAssumption ==
    NoJob \notin [doc : Docs, content : Contents \cup {NoDoc}]
ASSUME BoundAssumption == MaxCalls \in Nat

VARIABLES
    store,    \* the document store both engines use
    index,    \* e.index
    shadow,   \* the index of the shadow engine
    reindex,  \* Reindex: "idle", "building", "failed" or "done"
    each,     \* the sending goroutine: "no", "ranging" or "closed"
    toSend,   \* documents Each has not come to
    jobs,     \* the jobs channel
    pc,       \* what each process does next
    job,      \* the document it has in hand
    waiting,  \* processes waiting for the store's write lock
    calls,    \* calls of the live engine
    want,     \* ghost: the content each document should have
    touched,  \* ghost: documents of live calls since Reindex began
    hired     \* the workers Reindex started, as many as parallelism says

vars == <<store, index, shadow, reindex, each, toSend, jobs, pc, job,
          waiting, calls, want, touched, hired>>

Maybe == Contents \cup {NoDoc}
Job   == [doc : Docs, content : Maybe]
Procs == Workers \cup {Live}

\* Slip: the channel does not grow with the parallelism.
CapacityOne == 1

\* make(chan job, parallelism*2)
Capacity == 2 * Cardinality(hired)

\* A worker is inside Index of the shadow engine, and holds its lock.
Indexing(w) == pc[w] \in {"delete", "put"}

-----------------------------------------------------------------------------
\* An engine with some documents.
Init ==
    /\ want \in [Docs -> Maybe]
    /\ store = want /\ index = want
    /\ shadow = [d \in Docs |-> NoDoc]
    /\ reindex = "idle" /\ each = "no"
    /\ toSend = {} /\ jobs = <<>>
    /\ pc = [p \in Procs |-> "idle"]
    /\ job = [p \in Procs |-> NoJob]
    /\ waiting = {}
    /\ calls = 0
    /\ touched = {} /\ hired = {}

(* The document store.                                                     *)

\* Has: it waits for a writer that waits.
Has(p, d, present, absent) ==
    /\ waiting = {}
    /\ pc' = [pc EXCEPT ![p] = IF store[d] # NoDoc THEN present ELSE absent]

\* A call of Delete or Put finds the lock taken and waits for it.
Wait(p) ==
    /\ pc[p] \in {"delete", "put"} /\ each = "ranging"
    /\ waiting' = waiting \cup {p}
    /\ UNCHANGED <<store, index, shadow, reindex, each, toSend, jobs, pc, job,
                   calls, want, touched, hired>>

\* Slip: the deletion of an update is its end.
StoreDeleteOnly(p) ==
    /\ pc[p] = "delete" /\ each # "ranging"
    /\ store' = [store EXCEPT ![job[p].doc] = NoDoc]
    /\ waiting' = waiting \ {p}
    /\ pc' = [pc EXCEPT ![p] = "idle"]
    /\ job' = [job EXCEPT ![p] = NoJob]
    /\ UNCHANGED <<index, shadow, reindex, each, toSend, jobs, calls, want,
                   touched, hired>>

\* docStorage.Delete: the end of Delete; Index goes on.
StoreDelete(p) ==
    /\ pc[p] = "delete" /\ each # "ranging"
    /\ store' = [store EXCEPT ![job[p].doc] = NoDoc]
    /\ waiting' = waiting \ {p}
    /\ IF job[p].content = NoDoc
       THEN /\ pc'  = [pc EXCEPT ![p] = "idle"]
            /\ job' = [job EXCEPT ![p] = NoJob]
       ELSE pc' = [pc EXCEPT ![p] = "put"] /\ UNCHANGED job
    /\ UNCHANGED <<index, shadow, reindex, each, toSend, jobs, calls, want,
                   touched, hired>>

\* indexInternal: the fields go to the index of the process' engine, then the
\* document to the store.
StorePut(p) ==
    /\ pc[p] = "put" /\ each # "ranging"
    /\ LET d == job[p].doc
           c == job[p].content
       IN  /\ store' = [store EXCEPT ![d] = c]
           /\ IF p = Live
              THEN index' = [index EXCEPT ![d] = c] /\ UNCHANGED shadow
              ELSE shadow' = [shadow EXCEPT ![d] = c] /\ UNCHANGED index
    /\ waiting' = waiting \ {p}
    /\ pc'  = [pc EXCEPT ![p] = "idle"]
    /\ job' = [job EXCEPT ![p] = NoJob]
    /\ UNCHANGED <<reindex, each, toSend, jobs, calls, want,
                   touched, hired>>

-----------------------------------------------------------------------------
(* The live engine.                                                        *)

Call(d, c) ==
    /\ pc[Live] = "idle"
    /\ calls < MaxCalls /\ calls' = calls + 1
    /\ job' = [job EXCEPT ![Live] = [doc |-> d, content |-> c]]
    /\ want' = [want EXCEPT ![d] = c]
    /\ touched' = touched \cup {d}
    /\ UNCHANGED <<store, shadow, reindex, each, toSend, jobs, waiting, hired>>

\* Index: when the store has the document it is deleted from both.
Index(d, c) ==
    /\ Call(d, c)
    /\ Has(Live, d, "delete", "put")
    /\ index' = IF store[d] # NoDoc THEN [index EXCEPT ![d] = NoDoc] ELSE index

Delete(d) ==
    /\ Call(d, NoDoc)
    /\ pc' = [pc EXCEPT ![Live] = "delete"]
    /\ index' = [index EXCEPT ![d] = NoDoc]

-----------------------------------------------------------------------------
(* Reindex and the goroutines of buildIndex.                               *)

\* On a store that is not in memory, with any parallelism.  A call of the live
\* engine that is under way counts as touching its document.
Start ==
    /\ reindex = "idle"
    /\ reindex' = "building"
    /\ hired' \in SUBSET Workers /\ hired' # {}
    /\ touched' = IF pc[Live] = "idle" THEN {} ELSE {job[Live].doc}
    /\ UNCHANGED <<store, index, shadow, each, toSend, jobs, pc, job, waiting,
                   calls, want>>

\* Each takes the read lock of the store.
EachStart ==
    /\ reindex = "building" /\ each = "no"
    /\ waiting = {}
    /\ each' = "ranging"
    /\ toSend' = {d \in Docs : store[d] # NoDoc}
    /\ UNCHANGED <<store, index, shadow, reindex, jobs, pc, job, waiting,
                   calls, want, touched, hired>>

\* jobs <- job{v}, in the order of a Go map.
Send(d) ==
    /\ each = "ranging" /\ d \in toSend
    /\ Len(jobs) < Capacity
    /\ jobs' = Append(jobs, [doc |-> d, content |-> store[d]])
    /\ toSend' = toSend \ {d}
    /\ UNCHANGED <<store, index, shadow, reindex, each, pc, job, waiting,
                   calls, want, touched, hired>>

\* Slip: nobody closes the channel.
EachLeavesOpen ==
    /\ each = "ranging" /\ toSend = {}
    /\ each' = "open"
    /\ UNCHANGED <<store, index, shadow, reindex, toSend, jobs, pc, job, waiting,
                   calls, want, touched, hired>>

\* Each releases the lock; close(jobs).
EachEnd ==
    /\ each = "ranging" /\ toSend = {}
    /\ each' = "closed"
    /\ UNCHANGED <<store, index, shadow, reindex, toSend, jobs, pc, job, waiting,
                   calls, want, touched, hired>>

\* for j := range jobs
Receive(w) ==
    /\ w \in hired
    /\ w \in hired
    /\ pc[w] = "idle" /\ jobs # <<>>
    /\ job' = [job EXCEPT ![w] = Head(jobs)]
    /\ jobs' = Tail(jobs)
    /\ pc' = [pc EXCEPT ![w] = "has"]
    /\ UNCHANGED <<store, index, shadow, reindex, each, toSend, waiting, calls,
                   want, touched, hired>>

\* Slip: the document is decoded when the old one is deleted already.
WorkerFailsLate(w) ==
    /\ pc[w] = "put" /\ w \notin waiting
    /\ pc' = [pc EXCEPT ![w] = "failed"]
    /\ UNCHANGED <<store, index, shadow, reindex, each, toSend, jobs, job,
                   waiting, calls, want, touched, hired>>

\* The document does not decode: errc <- err, and the worker returns.
WorkerFails(w) ==
    /\ pc[w] = "has"
    /\ pc' = [pc EXCEPT ![w] = "failed"]
    /\ UNCHANGED <<store, index, shadow, reindex, each, toSend, jobs, job,
                   waiting, calls, want, touched, hired>>

\* Index of the shadow engine, under its lock.
WorkerHas(w) ==
    /\ pc[w] = "has"
    /\ \A v \in Workers : ~ Indexing(v)
    /\ LET d == job[w].doc
       IN  /\ Has(w, d, "delete", "put")
           /\ shadow' = IF store[d] # NoDoc THEN [shadow EXCEPT ![d] = NoDoc] ELSE shadow
    /\ UNCHANGED <<store, index, reindex, each, toSend, jobs, job, waiting,
                   calls, want, touched, hired>>

WorkerEnd(w) ==
    /\ w \in hired
    /\ w \in hired
    /\ pc[w] = "idle" /\ each = "closed" /\ jobs = <<>>
    /\ pc' = [pc EXCEPT ![w] = "done"]
    /\ UNCHANGED <<store, index, shadow, reindex, each, toSend, jobs, job,
                   waiting, calls, want, touched, hired>>

\* The first error ends Reindex; the other goroutines go on.
Fail ==
    /\ reindex = "building"
    /\ \E w \in Workers : pc[w] = "failed"
    /\ reindex' = "failed"
    /\ UNCHANGED <<store, index, shadow, each, toSend, jobs, pc, job, waiting,
                   calls, want, touched, hired>>

\* Slip: errc is closed without waiting for the workers.
SwapEarly ==
    /\ reindex = "building" /\ each = "closed" /\ jobs = <<>>
    /\ \A w \in Workers : pc[w] # "failed"
    /\ pc[Live] = "idle"
    /\ reindex' = "done"
    /\ index' = shadow
    /\ UNCHANGED <<store, shadow, each, toSend, jobs, pc, job, waiting, calls,
                   want, touched, hired>>

\* All workers returned without an error; the swap takes e.mu.
Swap ==
    /\ reindex = "building" /\ each = "closed"
    /\ \A w \in hired : pc[w] = "done"
    /\ pc[Live] = "idle"
    /\ reindex' = "done"
    /\ index' = shadow
    /\ UNCHANGED <<store, shadow, each, toSend, jobs, pc, job, waiting, calls,
                   want, touched, hired>>

LiveStarts == \E d \in Docs : Delete(d) \/ \E c \in Contents : Index(d, c)
Storage(p) == Wait(p) \/ StoreDelete(p) \/ StorePut(p)
Sender     == EachStart \/ EachEnd \/ \E d \in Docs : Send(d)
Worker(w)  == Receive(w) \/ WorkerHas(w) \/ WorkerFails(w) \/ WorkerEnd(w) \/ Storage(w)

Next ==
    \/ LiveStarts \/ Storage(Live)
    \/ Start \/ Sender \/ Fail \/ Swap
    \/ \E w \in Workers : Worker(w)

Spec == Init /\ [][Next]_vars

\* Goroutines and calls under way go on when they can.
FairSpec ==
    /\ Spec
    /\ WF_vars(Storage(Live)) /\ WF_vars(Sender) /\ WF_vars(Fail \/ Swap)
    /\ \A w \in Workers : WF_vars(Worker(w))

-----------------------------------------------------------------------------
(* Properties.                                                             *)

TypeOK ==
    /\ store \in [Docs -> Maybe] /\ index \in [Docs -> Maybe]
    /\ shadow \in [Docs -> Maybe]
    /\ reindex \in {"idle", "building", "failed", "done"}
    /\ each \in {"no", "ranging", "closed"}
    /\ toSend \subseteq Docs
    /\ jobs \in Seq(Job) /\ Len(jobs) <= Capacity
    /\ pc \in [Procs -> {"idle", "has", "delete", "put", "failed", "done"}]
    /\ job \in [Procs -> Job \cup {NoJob}]
    /\ waiting \subseteq Procs
    /\ calls \in 0..MaxCalls
    /\ want \in [Docs -> Maybe]
    /\ touched \subseteq Docs
    /\ hired \subseteq Workers

\* "atomically swaps the index state when complete" (README.md:619): after a
\* Reindex that succeeded, every document no call wrote meanwhile is stored
\* and found as before.  A document that was written meanwhile need not be.
UntouchedSurvive ==
    reindex = "done" =>
        \A d \in Docs \ touched : store[d] = want[d] /\ index[d] = want[d]

\* Until the swap, a document that no call wrote during the rebuild is always
\* found by the live index, and is missing from the store, and so from the
\* results, only while a worker rewrites it, whether Reindex fails or not.
OnlyInHand ==
    \A d \in Docs \ touched :
        /\ reindex # "done" => index[d] = want[d]
        /\ store[d] = want[d] \/ \E w \in Workers : Indexing(w) /\ job[w].doc = d

\* No worker and no call is at a document.
Quiet == \A p \in Procs : pc[p] \in {"idle", "failed", "done"}

\* A call and a worker that rewrite the same document, in any interleaving of
\* their Has, Delete and Put, may leave its older content, but never no
\* document at all.
NoneVanishes ==
    Quiet => \A d \in Docs : want[d] # NoDoc => store[d] # NoDoc

\* With at most three documents per worker, Each never waits for ever with the
\* store's lock in its hand: the channel has room, or a worker will take a
\* document without writing to the store before.
RoomToSend ==
    /\ Cardinality(Docs) <= 3 * Cardinality(hired)
    /\ each = "ranging" /\ toSend # {}
    => Len(jobs) < Capacity \/ \E w \in hired : pc[w] = "idle"

\* "Rebuild the index from scratch without taking the engine offline"
\* (README.md:608): a Reindex comes to its end.  With more documents than
\* that it does not: the workers wait for the lock that Each holds while it
\* waits for them, and so does every call of the live engine that writes.
RebuildEnds == reindex = "building" ~> reindex # "building"
=============================================================================
