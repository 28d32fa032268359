----------------------------- MODULE Durability ------------------------------
(***************************************************************************)
(* How the engine survives a crash: engine/engine.go and                   *)
(* engine/snapshot.go on top of the write-ahead log of wal/wal.go, an      *)
(* append-only document store and a snapshot of the inverted index.        *)
(*                                                                         *)
(* Index, Delete and Save hold e.mu, so one runs at a time; a crash may    *)
(* fall between any two of their durable effects, which are the actions    *)
(* here.  Replay on restart carries out the same steps as Index and Delete *)
(* do after they wrote their log entry, so both share the actions DeleteDoc   *)
(* and PutDoc, working off the entries of todo.                            *)
(*                                                                         *)
(* The document store writes a record in several pieces, and the engine    *)
(* drops the errors of its Put and Delete: a write may fail and leave      *)
(* nothing or part of a record behind, and a crash may fall into it.       *)
(*                                                                         *)
(* Abstractions.  The index is, per document, the content it is guaranteed *)
(* to be found by (live and current of InvertedIndex).  The store is what  *)
(* its entries lead to; its file is what New would make of it, as long as  *)
(* nothing was written behind a torn record.  LocalStore has the bytes,    *)
(* and Compact, which the engine never calls.  A crash is one of the       *)
(* process: what was written to a file stays written.  The log is the      *)
(* sequence of its readable lines plus the state of its last line.         *)
(*                                                                         *)
(* A definition marked Slip is a mistake the code could have made in the   *)
(* definition that follows it; nothing here uses it.                       *)
(***************************************************************************)
EXTENDS Integers, Sequences

CONSTANTS
    Docs,      \* document ids
    Contents,  \* what a document may contain
    NoDoc,     \* a document that does not exist
    None,      \* there is no snapshot file
    Partial,   \* a snapshot file that does not decode
    Broken,    \* a stored document whose value cannot be read
    MaxLog,    \* bound: entries in the log
    MaxFaults  \* bound: failed or torn writes and failed encodings

ASSUME ContentsAssumption ==
    NoDoc \notin Contents /\ Broken \notin Contents \cup {NoDoc}
ASSUME SnapshotAssumption ==
    {None, Partial} \cap [Docs -> Contents \cup {NoDoc}] = {}
ASSUME BoundAssumption == MaxLog \in Nat /\ MaxFaults \in Nat

VARIABLES
    store,     \* what the entries of the open document store lead to
    disk,      \* what New would find in its file, durable
    diskEnd,   \* the file ends in a "whole" record, in a "torn" one, or has
               \* records "buried" behind a torn one; durable
    wal,       \* the readable lines of wal.log, durable
    lastLine,  \* wal.log ends in a "newline", in an entry that lacks one
               \* ("open"), or in a fragment of an entry ("cut"); durable
    snap,      \* the snapshot file, durable: an image of index
    up,        \* the process runs
    index,     \* what Search finds each document by
    todo,      \* entries still to be applied: by a call, or by replay
    halfway,   \* the first of them is an update that has deleted its document
    saving,    \* how far Save is: "no", "created", "written"
    walFails,  \* the bufio writer of the log keeps returning its error
    faults,    \* faults so far
    want,      \* ghost: the content each document should have
    lost,      \* ghost: documents the store may not hold as they should be
    harmed     \* ghost: a fault happened that recovery does not repair

docVars == <<store, disk, diskEnd, lost>>
vars == <<store, disk, diskEnd, wal, lastLine, snap, up, index, todo, halfway,
          saving, walFails, faults, want, lost, harmed>>

NoDocs == [d \in Docs |-> NoDoc]
Maybe  == Contents \cup {NoDoc}
Stored == Maybe \cup {Broken}
Entry  == [op : {"index"}, doc : Docs, content : Contents]
          \cup [op : {"delete"}, doc : Docs, content : {NoDoc}]

\* Slip: a deletion is logged as an index operation.
entryIndex(d, c) == [op |-> "index", doc |-> d, content |-> c]

entry(d, c) == [op |-> IF c = NoDoc THEN "delete" ELSE "index",
                doc |-> d, content |-> c]

\* What Load makes of the snapshot file; New ignores its errors.
Image == IF snap \in {None, Partial} THEN NoDocs ELSE snap

\* e.mu is free: no call, replay or snapshot is at work.
Ready == up /\ todo = <<>> /\ saving = "no"

-----------------------------------------------------------------------------
Init ==
    /\ store = NoDocs /\ disk = NoDocs /\ diskEnd = "whole"
    /\ wal = <<>> /\ lastLine = "newline"
    /\ snap = None
    /\ up = TRUE
    /\ index = NoDocs
    /\ todo = <<>> /\ halfway = FALSE
    /\ saving = "no"
    /\ walFails = FALSE
    /\ faults = 0
    /\ want = NoDocs /\ lost = {}
    /\ harmed = FALSE

\* The log once its last line is spoilt.
Spoilt == SubSeq(wal, 1, Len(wal) - 1)

\* Append: a line written behind an unfinished one fuses with it, and replay
\* can parse neither.
AppendLine(e) ==
    /\ Len(wal) < MaxLog
    /\ lastLine' = "newline"
    /\ wal' = CASE lastLine = "newline" -> Append(wal, e)
                [] lastLine = "open"    -> Spoilt
                [] OTHER                -> wal
    /\ harmed' = (harmed \/ lastLine # "newline")

\* The same cut short: nothing of the line is written, a fragment of it, or
\* all but its newline.
AppendCut(e) ==
    /\ Len(wal) < MaxLog
    /\ faults < MaxFaults /\ faults' = faults + 1
    /\ \/ UNCHANGED <<wal, lastLine>>
       \/ /\ lastLine' = "cut"
          /\ wal' = IF lastLine = "open" THEN Spoilt ELSE wal
       \/ /\ lastLine = "newline"
          /\ lastLine' = "open" /\ wal' = Append(wal, e)

\* Index or Delete of a document: the log entry comes first.
Log(d, c) ==
    /\ Ready /\ ~ walFails
    /\ AppendLine(entry(d, c))
    /\ todo' = <<entry(d, c)>>
    /\ want' = [want EXCEPT ![d] = c]
    /\ UNCHANGED <<docVars, snap, up, index, halfway, saving, walFails, faults>>

\* The log entry fails, now or because it failed before: Index returns the
\* error.  The line may be readable all the same.
IndexFails(d, c) ==
    /\ Ready
    /\ \/ walFails /\ UNCHANGED <<wal, lastLine, faults>>
       \/ ~ walFails /\ AppendCut(entry(d, c))
    /\ walFails' = TRUE
    /\ harmed' = (harmed \/ wal' # wal)
    /\ UNCHANGED <<docVars, snap, up, index, todo, halfway, saving, want>>

\* Delete prints the error and goes on.
DeleteUnlogged(d) ==
    /\ Ready
    /\ \/ walFails /\ UNCHANGED <<wal, lastLine, faults>>
       \/ ~ walFails /\ AppendCut(entry(d, NoDoc))
    /\ walFails' = TRUE
    /\ todo' = <<entry(d, NoDoc)>>
    /\ want' = [want EXCEPT ![d] = NoDoc]
    /\ harmed' = (harmed \/ Len(wal') <= Len(wal))
    /\ UNCHANGED <<docVars, snap, up, index, halfway, saving>>

\* A record that makes document d what c says goes to the end of the file.
StoreWritten(d, c) ==
    /\ store' = [store EXCEPT ![d] = c]
    /\ lost' = lost \ {d}
    /\ \/ diskEnd = "whole" /\ disk' = [disk EXCEPT ![d] = c] /\ diskEnd' = diskEnd
       \/ diskEnd # "whole" /\ diskEnd' = "buried" /\ UNCHANGED disk
    /\ UNCHANGED faults

\* Part of it does.  A reader that finds the whole key of a Put takes the
\* document for stored.
StoreCut(d, c) ==
    /\ diskEnd' = IF diskEnd = "whole" THEN "torn" ELSE "buried"
    /\ \/ UNCHANGED disk
       \/ diskEnd = "whole" /\ c # NoDoc /\ disk' = [disk EXCEPT ![d] = Broken]
    /\ faults < MaxFaults /\ faults' = faults + 1

\* Put or Delete returns an error: its entry stays as it was.
StoreFails(d, c) ==
    /\ \/ StoreCut(d, c)
       \/ faults < MaxFaults /\ faults' = faults + 1 /\ UNCHANGED <<disk, diskEnd>>
    /\ lost' = lost \cup {d}
    /\ UNCHANGED store

\* Has finds an earlier document, or there is nothing but to delete.
DeleteDue ==
    /\ up /\ todo # <<>> /\ ~ halfway
    /\ Head(todo).op = "delete" \/ store[Head(todo).doc] # NoDoc

PutDue ==
    /\ up /\ todo # <<>> /\ Head(todo).op = "index"
    /\ halfway \/ store[Head(todo).doc] = NoDoc

\* deleteInternal, and the same two deletions where Index or replay finds the
\* document in the store.  What becomes of the tombstone nobody asks.
DeleteDoc ==
    /\ DeleteDue
    /\ LET e == Head(todo)
       IN  /\ index' = [index EXCEPT ![e.doc] = NoDoc]
           /\ StoreWritten(e.doc, NoDoc) \/ StoreFails(e.doc, NoDoc)
           /\ todo' = IF e.op = "delete" THEN Tail(todo) ELSE todo
           /\ halfway' = (e.op = "index")
    /\ UNCHANGED <<wal, lastLine, snap, up, saving, walFails, want, harmed>>

\* indexInternal: the fields go to the index, then the document to the store;
\* nor does anybody ask whether it arrived.
PutDoc ==
    /\ PutDue
    /\ LET e == Head(todo)
       IN  /\ index' = [index EXCEPT ![e.doc] = e.content]
           /\ StoreWritten(e.doc, e.content) \/ StoreFails(e.doc, e.content)
    /\ todo' = Tail(todo)
    /\ halfway' = FALSE
    /\ UNCHANGED <<wal, lastLine, snap, up, saving, walFails, want, harmed>>

\* Slip: Save does not wait for e.mu.
SaveCreateUnlocked ==
    /\ up /\ saving = "no"
    /\ saving' = "created"
    /\ snap' = Partial
    /\ UNCHANGED <<docVars, wal, lastLine, up, index, todo, halfway, walFails,
                   faults, want, harmed>>

\* Save: os.Create empties the file of the last snapshot.
SaveCreate ==
    /\ Ready
    /\ saving' = "created"
    /\ snap' = Partial
    /\ UNCHANGED <<docVars, wal, lastLine, up, index, todo, halfway, walFails,
                   faults, want, harmed>>

SaveEncode ==
    /\ saving = "created"
    /\ saving' = "written"
    /\ snap' = index
    /\ UNCHANGED <<docVars, wal, lastLine, up, index, todo, halfway, walFails,
                   faults, want, harmed>>

\* Encoding fails half way; the deferred calls run nevertheless.
SaveEncodeFails ==
    /\ saving = "created"
    /\ faults < MaxFaults /\ faults' = faults + 1
    /\ saving' = "written"
    /\ harmed' = TRUE
    /\ UNCHANGED <<docVars, wal, lastLine, snap, up, index, todo, halfway,
                   walFails, want>>

\* wal.Truncate gives up when the writer is in error.
SaveTruncate ==
    /\ saving = "written"
    /\ saving' = "no"
    /\ \/ walFails /\ UNCHANGED <<wal, lastLine>>
       \/ ~ walFails /\ wal' = <<>> /\ lastLine' = "newline"
    /\ UNCHANGED <<docVars, snap, up, index, todo, halfway, walFails, faults,
                   want, harmed>>

Down ==
    /\ up' = FALSE
    /\ index' = NoDocs /\ todo' = <<>> /\ halfway' = FALSE
    /\ saving' = "no" /\ walFails' = FALSE

Crash ==
    /\ up
    /\ Down
    /\ harmed' = (harmed \/ saving = "created")
    /\ UNCHANGED <<docVars, wal, lastLine, snap, faults, want>>

\* A crash in the middle of writing a log entry: a readable one counts.
CrashInLog(d, c) ==
    /\ Ready /\ ~ walFails
    /\ AppendCut(entry(d, c))
    /\ Down
    /\ want' = IF Len(wal') > Len(wal) THEN [want EXCEPT ![d] = c] ELSE want
    /\ harmed' = (harmed \/ Len(wal') < Len(wal))
    /\ UNCHANGED <<docVars, snap>>

\* A crash in the middle of writing a record.
CrashInStore ==
    /\ \/ DeleteDue /\ StoreCut(Head(todo).doc, NoDoc)
       \/ PutDue /\ StoreCut(Head(todo).doc, Head(todo).content)
    /\ Down
    /\ UNCHANGED <<store, lost, wal, lastLine, snap, want, harmed>>

\* What New finds in the store's file: its records up to a torn one; where
\* others follow that, it may take any bytes for a header.
OpenedStore ==
    /\ \/ diskEnd # "buried" /\ store' = disk /\ lost' = lost
       \/ diskEnd = "buried" /\ store' \in [Docs -> Stored] /\ lost' = Docs
    /\ disk' = store' /\ diskEnd' = diskEnd

\* Slip: the log is only replayed when there is no snapshot.
RestartSnapshotOnly ==
    /\ ~ up
    /\ up' = TRUE
    /\ index' = Image
    /\ todo' = IF snap = None THEN wal ELSE <<>>
    /\ OpenedStore
    /\ UNCHANGED <<wal, lastLine, snap, halfway, saving, walFails, faults,
                   want, harmed>>

\* New: the snapshot if it decodes, then the log on top of it.
Restart ==
    /\ ~ up
    /\ up' = TRUE
    /\ index' = Image
    /\ todo' = wal
    /\ OpenedStore
    /\ UNCHANGED <<wal, lastLine, snap, halfway, saving, walFails, faults,
                   want, harmed>>

Next ==
    \/ \E d \in Docs :
         \/ \E c \in Maybe : Log(d, c) \/ CrashInLog(d, c)
         \/ \E c \in Contents : IndexFails(d, c)
         \/ DeleteUnlogged(d)
    \/ DeleteDoc \/ PutDoc
    \/ SaveCreate \/ SaveEncode \/ SaveEncodeFails \/ SaveTruncate
    \/ Crash \/ CrashInStore \/ Restart

Spec == Init /\ [][Next]_vars

-----------------------------------------------------------------------------
(* Properties.                                                             *)

\* Types; a process that is down has nothing to do, as its call, replay or
\* Save is gone; and only an update can be half way.
TypeOK ==
    /\ store \in [Docs -> Stored] /\ disk \in [Docs -> Stored]
    /\ diskEnd \in {"whole", "torn", "buried"}
    /\ index \in [Docs -> Maybe]
    /\ wal \in Seq(Entry) /\ Len(wal) <= MaxLog
    /\ lastLine \in {"newline", "open", "cut"}
    /\ snap \in [Docs -> Maybe] \cup {None, Partial}
    /\ up \in BOOLEAN
    /\ todo \in Seq(Entry)
    /\ halfway \in BOOLEAN /\ (halfway => todo # <<>> /\ Head(todo).op = "index")
    /\ saving \in {"no", "created", "written"}
    /\ walFails \in BOOLEAN
    /\ faults \in 0..MaxFaults
    /\ want \in [Docs -> Maybe] /\ lost \in SUBSET Docs /\ harmed \in BOOLEAN
    /\ up \/ (todo = <<>> /\ saving = "no" /\ ~ walFails)

\* "the WAL is replayed from the last snapshot checkpoint, reproducing every
\* operation in order" (README.md:526): whenever no call is at work, every
\* document is found as its last logged operation left it, and stored like
\* that unless the store failed to write it or had to read what was written
\* behind a torn record.  A crash inside a write of the store needs no
\* exception: the log still has the operation, however often its replay is
\* interrupted in turn.
LoggedSurvives ==
    Ready => /\ index = want
             /\ \A d \in Docs \ lost : store[d] = want[d]

\* This holds as long as no crash or failure fell into Save's rewriting of the
\* snapshot file in place, which loses what only the old snapshot held, no
\* entry was written behind a torn line of the log and no deletion went
\* unlogged.
UnharmedSurvives == ~ harmed => LoggedSurvives

\* What a restart would rebuild from the snapshot and the log.
Replayed ==
    [d \in Docs |->
        LET own == {i \in DOMAIN wal : wal[i].doc = d}
        IN  IF own = {} THEN Image[d]
            ELSE wal[CHOOSE i \in own : \A j \in own : j <= i].content]

\* Snapshot and log always hold the whole index between them, at whatever
\* point a call, a replay or a Save is interrupted: the log is cut only when
\* the snapshot covers it, and no call takes effect before its entry.
DiskHoldsIndex == ~ harmed /\ saving # "created" => Replayed = want
=============================================================================
