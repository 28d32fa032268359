-------------------------- MODULE PersistenceProofs --------------------------
(***************************************************************************)
(* What is on disk: proofs about crash recovery of the engine (Durability) *)
(* and about the log of the local document store (LocalStore, KVStore).    *)
(*                                                                         *)
(* Recovery, for every set of documents and contents, every length of the  *)
(* log and every number of faults.  As long as no harm was done, the       *)
(* entries still to be applied are the end of the log (Suffix), so that    *)
(* applying the last one of a document gives it what the last logged       *)
(* operation wanted; documents without an entry to apply already have it   *)
(* (Applied), and those without any entry in the log have it on disk, in   *)
(* the snapshot, unless Save is rewriting it, and in the store (Covered).  *)
(* What is said of the store leaves out documents it failed to write, and  *)
(* its file once records were written behind a torn one.                   *)
(*                                                                         *)
(* The document store, for any documents, any number of keys and a log of  *)
(* any length: a restart changes no answer, a completed write reads back,  *)
(* compaction changes no answer, and what is on disk is the map of         *)
(* KVStore.  This rests on how New parses the log.  Chain describes the    *)
(* records that Records finds without its recursion; a log is Whole when   *)
(* the last one ends it.  Bytes behind a whole log are found as one record *)
(* more, or not at all, and decide about their key only.                   *)
(***************************************************************************)
EXTENDS Durability, LocalStore, SequenceFacts, TLAPS

(***************************************************************************)
(*                        Recovery of the engine                           *)
(***************************************************************************)

-----------------------------------------------------------------------------
(* The inductive invariant.                                                *)

InLog(d) == \E i \in DOMAIN wal : wal[i].doc = d

InTodo(d) == \E i \in DOMAIN todo : todo[i].doc = d

\* The i-th entry of the log is the last one of document d.
LastOf(d, i) ==
    /\ i \in DOMAIN wal /\ wal[i].doc = d
    /\ \A j \in DOMAIN wal : j > i => wal[j].doc # d

\* The last entry of each document in the log says what it should contain.
LastWanted ==
    \A d \in Docs :
        /\ InLog(d) => \E i \in DOMAIN wal : LastOf(d, i)
        /\ \A i \in DOMAIN wal : LastOf(d, i) => wal[i].content = want[d]

\* The file of the store has document d as it should be, if it can be read.
Kept(d) == d \notin lost /\ diskEnd # "buried" => disk[d] = want[d]

\* A document without an entry in the log is up to date on disk.
Covered ==
    \A d \in Docs : ~ InLog(d) =>
        /\ Kept(d)
        /\ saving # "created" => Image[d] = want[d]

\* Document d is up to date in the process.
Settled(d) ==
    /\ index[d] = want[d]
    /\ d \notin lost => store[d] = want[d]
    /\ Kept(d)

\* A document without an entry to be applied is.
Applied == up => \A d \in Docs : ~ InTodo(d) => Settled(d)

\* The entries to be applied are the end of the log.
Suffix ==
    up => /\ Len(todo) <= Len(wal)
          /\ \A i \in 1..Len(todo) : todo[i] = wal[Len(wal) - Len(todo) + i]

\* Save runs alone, and the snapshot it wrote is the index.
SaveAlone ==
    /\ saving # "no" => up /\ todo = <<>>
    /\ saving = "written" => Image = index

Unharmed == LastWanted /\ Covered /\ Applied /\ Suffix /\ SaveAlone

IInv == TypeOK /\ (~ harmed => Unharmed)

-----------------------------------------------------------------------------
(* Entries, and writing them.                                              *)

\* A log that lost its last line is shorter, or was empty.
LEMMA SpoiltFacts ==
    ASSUME TypeOK
    PROVE  /\ Spoilt \in Seq(Entry)
           /\ Len(Spoilt) <= Len(wal)
           /\ Spoilt = wal \/ Len(Spoilt) < Len(wal)
<1>1. wal \in Seq(Entry) /\ Len(wal) \in Nat
  BY DEF TypeOK
<1>2. CASE wal = <<>>
  <2>1. Spoilt = <<>>
    BY <1>2 DEF Spoilt
  <2> QED
    BY <1>1, <1>2, <2>1
<1>3. CASE wal # <<>>
  <2>1. Len(wal) >= 1
    BY <1>1, <1>3
  <2>2. Spoilt \in Seq(Entry) /\ Len(Spoilt) = Len(wal) - 1
    BY <1>1, <2>1, ButLastFacts DEF Spoilt
  <2> QED
    BY <1>1, <2>2
<1> QED
  BY <1>2, <1>3

\* The entry logged for an operation says what the operation wants.
LEMMA EntryFacts ==
    ASSUME NEW d \in Docs, NEW c \in Maybe
    PROVE  /\ entry(d, c) \in Entry
           /\ entry(d, c).doc = d /\ entry(d, c).content = c
BY ContentsAssumption DEF entry, Entry, Maybe

\* What an entry may hold; only a deletion wants no document.
LEMMA EntryFields ==
    ASSUME NEW e \in Entry
    PROVE  /\ e.doc \in Docs /\ e.content \in Maybe
           /\ e.op = "delete" => e.content = NoDoc
           /\ e.op \in {"index", "delete"}
BY DEF Entry, Maybe

\* What writing a whole line does to the log.
LEMMA AppendLineFacts ==
    ASSUME TypeOK, NEW e \in Entry, AppendLine(e)
    PROVE  /\ wal' \in Seq(Entry) /\ Len(wal') <= MaxLog
           /\ lastLine' = "newline" /\ harmed' \in BOOLEAN
           /\ ~ harmed' => ~ harmed /\ wal' = Append(wal, e)
<1>1. /\ Append(wal, e) \in Seq(Entry) /\ Len(wal) \in Nat
      /\ Len(Append(wal, e)) = Len(wal) + 1
  BY AppendFacts DEF TypeOK
<1>2. Len(wal) < MaxLog /\ MaxLog \in Nat
  BY BoundAssumption DEF AppendLine
<1>3. wal' \in {Append(wal, e), Spoilt, wal}
  BY DEF AppendLine
<1>4. wal' \in Seq(Entry) /\ Len(wal') <= MaxLog
  <2>1. wal \in Seq(Entry) /\ Spoilt \in Seq(Entry)
    BY SpoiltFacts DEF TypeOK
  <2>2. Len(Spoilt) \in Nat /\ Len(Spoilt) <= Len(wal)
    BY <2>1, SpoiltFacts
  <2>3. Len(wal) + 1 <= MaxLog /\ Len(wal) <= MaxLog /\ Len(Spoilt) <= MaxLog
    BY <1>1, <1>2, <2>2
  <2>4. CASE wal' = Append(wal, e)
    BY <1>1, <2>3, <2>4
  <2>5. CASE wal' \in {Spoilt, wal}
    BY <2>1, <2>3, <2>5
  <2> QED
    BY <1>3, <2>4, <2>5
<1>5. lastLine' = "newline" /\ harmed' \in BOOLEAN
  BY DEF AppendLine, TypeOK
<1>6. ~ harmed' => ~ harmed /\ wal' = Append(wal, e)
  BY DEF AppendLine
<1> QED
  BY <1>4, <1>5, <1>6

\* What writing part of a line does to the log.
LEMMA AppendCutFacts ==
    ASSUME TypeOK, NEW e \in Entry, AppendCut(e)
    PROVE  /\ wal' \in Seq(Entry) /\ Len(wal') <= MaxLog
           /\ lastLine' \in {"newline", "open", "cut"}
           /\ faults' \in 0..MaxFaults
           /\ wal' = wal \/ Len(wal') < Len(wal) \/ wal' = Append(wal, e)
<1>1. /\ Append(wal, e) \in Seq(Entry) /\ Len(wal) \in Nat
      /\ Len(Append(wal, e)) = Len(wal) + 1
  BY AppendFacts DEF TypeOK
<1>2. Len(wal) < MaxLog /\ MaxLog \in Nat /\ MaxFaults \in Nat
  BY BoundAssumption DEF AppendCut
<1>3. wal' \in {Append(wal, e), Spoilt, wal}
  BY DEF AppendCut
<1>4. wal' \in Seq(Entry) /\ Len(wal') <= MaxLog
  <2>1. wal \in Seq(Entry) /\ Spoilt \in Seq(Entry)
    BY SpoiltFacts DEF TypeOK
  <2>2. Len(Spoilt) \in Nat /\ Len(Spoilt) <= Len(wal)
    BY <2>1, SpoiltFacts
  <2>3. Len(wal) + 1 <= MaxLog /\ Len(wal) <= MaxLog /\ Len(Spoilt) <= MaxLog
    BY <1>1, <1>2, <2>2
  <2>4. CASE wal' = Append(wal, e)
    BY <1>1, <2>3, <2>4
  <2>5. CASE wal' \in {Spoilt, wal}
    BY <2>1, <2>3, <2>5
  <2> QED
    BY <1>3, <2>4, <2>5
<1>5. lastLine' \in {"newline", "open", "cut"}
  BY DEF AppendCut, TypeOK
<1>6. faults' \in 0..MaxFaults
  BY <1>2 DEF AppendCut, TypeOK
<1>7. wal' = wal \/ Len(wal') < Len(wal) \/ wal' = Append(wal, e)
  BY <1>3, SpoiltFacts
<1> QED
  BY <1>4, <1>5, <1>6, <1>7

-----------------------------------------------------------------------------
(* Type correctness.                                                       *)

\* The initial state has its types.
LEMMA TypeInit == Init => TypeOK
<1>1. /\ NoDocs \in [Docs -> Maybe] /\ NoDocs \in [Docs -> Stored]
      /\ <<>> \in Seq(Entry) /\ Len(<<>>) = 0
      /\ 0 <= MaxLog /\ 0 \in 0..MaxFaults
  BY BoundAssumption DEF NoDocs, Maybe, Stored
<1> QED
  BY <1>1 DEF Init, TypeOK

\* What the types say of the store.
StoreTypes ==
    /\ store \in [Docs -> Stored] /\ disk \in [Docs -> Stored]
    /\ diskEnd \in {"whole", "torn", "buried"}
    /\ faults \in 0..MaxFaults
    /\ lost \in SUBSET Docs

\* Writing a record, wholly or in part, keeps the types.
LEMMA StoreWriteFacts ==
    ASSUME TypeOK, NEW d \in Docs, NEW c \in Maybe
    PROVE  /\ StoreWritten(d, c) => StoreTypes'
           /\ StoreFails(d, c) => StoreTypes'
           /\ StoreCut(d, c) /\ store' = store /\ lost' = lost => StoreTypes'
<1>1. c \in Stored /\ Broken \in Stored
  BY DEF Stored
<1>2. StoreTypes
  BY DEF TypeOK, StoreTypes
<1>3. faults < MaxFaults => faults + 1 \in 0..MaxFaults
  BY <1>2, BoundAssumption DEF StoreTypes
<1>4. StoreWritten(d, c) => StoreTypes'
  BY <1>1, <1>2 DEF StoreWritten, StoreTypes
<1>5. StoreCut(d, c) => /\ disk' \in [Docs -> Stored]
                        /\ diskEnd' \in {"whole", "torn", "buried"}
                        /\ faults' \in 0..MaxFaults
  BY <1>1, <1>2, <1>3 DEF StoreCut, StoreTypes
<1>6. StoreFails(d, c) => StoreTypes'
  BY <1>2, <1>3, <1>5 DEF StoreFails, StoreTypes
<1> QED
  BY <1>2, <1>4, <1>5, <1>6 DEF StoreTypes

\* The snapshot, when it is loaded, is an index.
LEMMA ImageFacts == TypeOK => Image \in [Docs -> Maybe]
BY DEF TypeOK, Image, NoDocs, Maybe

\* Every step keeps the types.
LEMMA TypeStep == TypeOK /\ [Next]_vars => TypeOK'
<1> SUFFICES ASSUME TypeOK, [Next]_vars
             PROVE  TypeOK'
  OBVIOUS
<1>0. NoDocs \in [Docs -> Maybe] /\ <<>> \in Seq(Entry) /\ Len(<<>>) <= MaxLog
  BY BoundAssumption DEF NoDocs, Maybe
<1>1. ASSUME NEW d \in Docs, NEW c \in Maybe, Log(d, c)
      PROVE  TypeOK'
  <2>1. entry(d, c) \in Entry
    BY EntryFacts
  <2>2. /\ wal' \in Seq(Entry) /\ Len(wal') <= MaxLog
        /\ lastLine' = "newline" /\ harmed' \in BOOLEAN
    BY <1>1, <2>1, AppendLineFacts DEF Log
  <2>3. todo' \in Seq(Entry)
    BY <1>1, <2>1 DEF Log
  <2> QED
    BY <1>1, <2>2, <2>3 DEF Log, Ready, docVars, TypeOK
<1>2. ASSUME NEW d \in Docs, NEW c \in Maybe, CrashInLog(d, c)
      PROVE  TypeOK'
  <2>1. /\ wal' \in Seq(Entry) /\ Len(wal') <= MaxLog
        /\ lastLine' \in {"newline", "open", "cut"}
        /\ faults' \in 0..MaxFaults
    BY <1>2, EntryFacts, AppendCutFacts DEF CrashInLog
  <2> QED
    BY <1>0, <1>2, <2>1 DEF CrashInLog, Down, docVars, TypeOK
<1>3. ASSUME NEW d \in Docs, NEW c \in Contents, IndexFails(d, c)
      PROVE  TypeOK'
  <2>1. entry(d, c) \in Entry
    BY EntryFacts DEF Maybe
  <2>2. /\ wal' \in Seq(Entry) /\ Len(wal') <= MaxLog
        /\ lastLine' \in {"newline", "open", "cut"}
        /\ faults' \in 0..MaxFaults
    BY <1>3, <2>1, AppendCutFacts DEF IndexFails, TypeOK
  <2> QED
    BY <1>3, <2>2 DEF IndexFails, Ready, docVars, TypeOK
<1>4. ASSUME NEW d \in Docs, DeleteUnlogged(d)
      PROVE  TypeOK'
  <2>1. entry(d, NoDoc) \in Entry /\ NoDoc \in Maybe
    BY EntryFacts DEF Maybe
  <2>2. /\ wal' \in Seq(Entry) /\ Len(wal') <= MaxLog
        /\ lastLine' \in {"newline", "open", "cut"}
        /\ faults' \in 0..MaxFaults
    BY <1>4, <2>1, AppendCutFacts DEF DeleteUnlogged, TypeOK
  <2>3. todo' \in Seq(Entry)
    BY <1>4, <2>1 DEF DeleteUnlogged
  <2> QED
    BY <1>4, <2>1, <2>2, <2>3 DEF DeleteUnlogged, Ready, docVars, TypeOK
<1>5. ASSUME DeleteDoc
      PROVE  TypeOK'
  <2>1. /\ Head(todo) \in Entry /\ Tail(todo) \in Seq(Entry)
    BY <1>5, TailFacts DEF DeleteDoc, DeleteDue, TypeOK
  <2>2. Head(todo).doc \in Docs /\ NoDoc \in Maybe
    BY <2>1, EntryFields DEF Maybe
  <2>3. StoreTypes'
    BY <1>5, <2>2, StoreWriteFacts DEF DeleteDoc
  <2>4. /\ todo' \in Seq(Entry) /\ halfway' \in BOOLEAN
        /\ halfway' => todo' # <<>> /\ Head(todo').op = "index"
    BY <1>5, <2>1 DEF DeleteDoc, DeleteDue, TypeOK
  <2>5. index' \in [Docs -> Maybe]
    BY <1>5, <2>2 DEF DeleteDoc, TypeOK
  <2>6. up /\ up' = up
    BY <1>5 DEF DeleteDoc, DeleteDue
  <2> QED
    BY <1>5, <2>3, <2>4, <2>5, <2>6 DEF DeleteDoc, StoreTypes, TypeOK
<1>6. ASSUME PutDoc
      PROVE  TypeOK'
  <2>1. /\ Head(todo) \in Entry /\ Tail(todo) \in Seq(Entry)
    BY <1>6, TailFacts DEF PutDoc, PutDue, TypeOK
  <2>2. Head(todo).doc \in Docs /\ Head(todo).content \in Maybe
    BY <2>1, EntryFields
  <2>3. StoreTypes'
    BY <1>6, <2>2, StoreWriteFacts DEF PutDoc
  <2>4. /\ todo' \in Seq(Entry) /\ halfway' \in BOOLEAN
        /\ halfway' => todo' # <<>> /\ Head(todo').op = "index"
    BY <1>6, <2>1 DEF PutDoc
  <2>5. index' \in [Docs -> Maybe]
    BY <1>6, <2>2 DEF PutDoc, TypeOK
  <2>6. up /\ up' = up
    BY <1>6 DEF PutDoc, PutDue
  <2> QED
    BY <1>6, <2>3, <2>4, <2>5, <2>6 DEF PutDoc, StoreTypes, TypeOK
<1>7. ASSUME SaveCreate \/ SaveEncode \/ SaveEncodeFails \/ SaveTruncate
      PROVE  TypeOK'
  <2>1. CASE SaveCreate
    BY <2>1 DEF SaveCreate, Ready, docVars, TypeOK
  <2>2. CASE SaveEncode
    BY <2>2 DEF SaveEncode, docVars, TypeOK
  <2>3. CASE SaveEncodeFails
    BY <2>3, BoundAssumption DEF SaveEncodeFails, docVars, TypeOK
  <2>4. CASE SaveTruncate
    BY <1>0, <2>4 DEF SaveTruncate, docVars, TypeOK
  <2> QED
    BY <1>7, <2>1, <2>2, <2>3, <2>4
<1>8. ASSUME Crash
      PROVE  TypeOK'
  BY <1>0, <1>8 DEF Crash, Down, docVars, TypeOK
<1>9. ASSUME Restart
      PROVE  TypeOK'
  <2>1. StoreTypes'
    BY <1>9 DEF Restart, OpenedStore, StoreTypes, TypeOK
  <2> QED
    BY <1>9, <2>1, ImageFacts DEF Restart, StoreTypes, TypeOK
<1>10. ASSUME CrashInStore
       PROVE  TypeOK'
  <2>1. Head(todo) \in Entry
    BY <1>10, TailFacts DEF CrashInStore, DeleteDue, PutDue, TypeOK
  <2>2. Head(todo).doc \in Docs /\ Head(todo).content \in Maybe /\ NoDoc \in Maybe
    BY <2>1, EntryFields DEF Maybe
  <2>3. store' = store /\ lost' = lost
    BY <1>10 DEF CrashInStore
  <2>4. StoreTypes'
    BY <1>10, <2>2, <2>3, StoreWriteFacts DEF CrashInStore
  <2> QED
    BY <1>0, <1>10, <2>4 DEF CrashInStore, Down, StoreTypes, TypeOK
<1>11. ASSUME UNCHANGED vars
       PROVE  TypeOK'
  BY <1>11 DEF vars, TypeOK
<1> QED
  BY <1>1, <1>2, <1>3, <1>4, <1>5, <1>6, <1>7, <1>8, <1>9, <1>10, <1>11 DEF Next

-----------------------------------------------------------------------------
(* The steps keep Unharmed.                                                *)

\* An operation that wrote its entry: it is the last one of its document,
\* and says what the document should now contain.
LEMMA LoggedWanted ==
    ASSUME TypeOK, LastWanted, Covered, NEW d \in Docs, NEW c \in Maybe,
           wal' = Append(wal, entry(d, c)), want' = [want EXCEPT ![d] = c],
           UNCHANGED docVars, snap' = snap, saving = "no"
    PROVE  LastWanted' /\ Covered'
<1>0. PICK n \in Nat : n = Len(wal) + 1
  BY AppendFacts DEF TypeOK
<1>1. /\ DOMAIN wal = 1..(n - 1) /\ DOMAIN wal' = 1..n
      /\ \A i \in 1..(n - 1) : wal'[i] = wal[i]
      /\ wal'[n].doc = d /\ wal'[n].content = c
  BY <1>0, EntryFacts, AppendFacts DEF TypeOK
<1>2. /\ want'[d] = c
      /\ \A x \in Docs : x # d => want'[x] = want[x]
  BY DEF TypeOK
<1>3. LastOf(d, n)'
  BY <1>1 DEF LastOf
<1>4. ASSUME NEW i \in DOMAIN wal', LastOf(d, i)'
      PROVE  wal'[i].content = want'[d]
  <2>1. i = n
    BY <1>1, <1>4 DEF LastOf
  <2> QED
    BY <1>1, <1>2, <2>1
<1>5. ASSUME NEW x \in Docs, x # d
      PROVE  /\ InLog(x)' <=> InLog(x)
             /\ \A i \in 1..(n - 1) : LastOf(x, i)' <=> LastOf(x, i)
             /\ ~ LastOf(x, n)'
  BY <1>1, <1>5 DEF InLog, LastOf
<1>6. ASSUME NEW x \in Docs, x # d
      PROVE  /\ InLog(x)' => \E i \in DOMAIN wal' : LastOf(x, i)'
             /\ \A i \in DOMAIN wal' : LastOf(x, i)' => wal'[i].content = want'[x]
  BY <1>1, <1>2, <1>5, <1>6 DEF LastWanted
<1>7. LastWanted'
  BY <1>1, <1>3, <1>4, <1>6 DEF LastWanted
<1>8. InLog(d)'
  BY <1>1 DEF InLog
<1>9. Image' = Image
  BY DEF Image
<1>10. Covered'
  BY <1>2, <1>5, <1>8, <1>9 DEF Covered, Kept, docVars
<1> QED
  BY <1>7, <1>10

\* With nothing to be applied, every document is up to date.
LEMMA IdleHoldsWanted ==
    ASSUME TypeOK, Applied, up, todo = <<>>
    PROVE  index = want /\ \A d \in Docs : Settled(d)
<1>1. \A d \in Docs : ~ InTodo(d)
  BY DEF InTodo
<1>2. \A d \in Docs : Settled(d)
  BY <1>1 DEF Applied
<1>3. \A d \in Docs : index[d] = want[d]
  BY <1>2 DEF Settled
<1> QED
  BY <1>2, <1>3 DEF TypeOK

\* A call that has logged its entry and has yet to apply it.
LEMMA LoggedApplied ==
    ASSUME TypeOK, Applied, NEW d \in Docs, NEW c \in Maybe,
           up, todo = <<>>,
           wal' = Append(wal, entry(d, c)), want' = [want EXCEPT ![d] = c],
           todo' = <<entry(d, c)>>, UNCHANGED docVars, index' = index
    PROVE  Applied' /\ Suffix'
<1>1. /\ DOMAIN todo' = 1..1 /\ Len(todo') = 1 /\ todo'[1] = entry(d, c)
      /\ Len(wal) \in Nat /\ Len(wal') = Len(wal) + 1
      /\ wal'[Len(wal) + 1] = entry(d, c)
  BY EntryFacts, AppendFacts DEF TypeOK
<1>2. entry(d, c).doc = d
  BY EntryFacts
<1>3. InTodo(d)'
  BY <1>1, <1>2 DEF InTodo
<1>4. \A x \in Docs : x # d => want'[x] = want[x]
  BY DEF TypeOK
<1>5. Applied'
  BY <1>3, <1>4, IdleHoldsWanted DEF Applied, Settled, Kept, docVars
<1>6. Suffix'
  BY <1>1 DEF Suffix
<1> QED
  BY <1>5, <1>6

\* The entry to be applied next is in the log.  When it is the last one to be
\* applied to its document, it says what is wanted.
LEMMA HeadWanted ==
    ASSUME TypeOK, LastWanted, Suffix, up, todo # <<>>
    PROVE  /\ Head(todo) \in Entry
           /\ InLog(Head(todo).doc)
           /\ (\A i \in DOMAIN Tail(todo) : Tail(todo)[i].doc # Head(todo).doc)
                => want[Head(todo).doc] = Head(todo).content
<1> DEFINE e == Head(todo)
<1>0. PICK k \in Int : k = Len(wal) - Len(todo) + 1
  <2>1. Len(wal) \in Nat /\ Len(todo) \in Nat
    BY DEF TypeOK
  <2>2. Len(wal) - Len(todo) + 1 \in Int
    BY <2>1
  <2> QED
    BY <2>2
<1>1. /\ Len(todo) \in Nat /\ Len(todo) >= 1
      /\ e = todo[1] /\ e \in Entry
      /\ DOMAIN Tail(todo) = 1..(Len(todo) - 1)
      /\ \A i \in 1..(Len(todo) - 1) : Tail(todo)[i] = todo[i + 1]
  BY TailFacts DEF TypeOK
<1>2. /\ Len(wal) \in Nat /\ DOMAIN wal = 1..Len(wal)
      /\ Len(todo) <= Len(wal)
      /\ \A i \in 1..Len(todo) : todo[i] = wal[k - 1 + i]
  BY <1>0 DEF TypeOK, Suffix
<1>3. k \in 1..Len(wal) /\ wal[k] = e
  <2>1. k - 1 + 1 = k /\ 1 \in 1..Len(todo)
    BY <1>1
  <2> QED
    BY <1>0, <1>1, <1>2, <2>1
<1>4. \A j \in DOMAIN wal : j > k => /\ j - k \in DOMAIN Tail(todo)
                                     /\ wal[j] = Tail(todo)[j - k]
  <2> SUFFICES ASSUME NEW j \in DOMAIN wal, j > k
               PROVE  /\ j - k \in DOMAIN Tail(todo)
                      /\ wal[j] = Tail(todo)[j - k]
    OBVIOUS
  <2>1. j - k \in 1..(Len(todo) - 1)
    BY <1>0, <1>1, <1>2, <1>3
  <2>2. j - k + 1 \in 1..Len(todo)
    BY <1>1, <2>1
  <2>3. k - 1 + (j - k + 1) = j
    <3>1. j \in Int
      BY <1>2
    <3> QED
      BY <3>1
  <2>4. Tail(todo)[j - k] = todo[j - k + 1]
    BY <1>1, <2>1
  <2>5. todo[j - k + 1] = wal[j]
    BY <1>2, <2>2, <2>3
  <2> QED
    BY <1>1, <2>1, <2>4, <2>5
<1> HIDE DEF e
<1>5. e.doc \in Docs
  BY <1>1, EntryFields
<1>6. InLog(e.doc)
  BY <1>2, <1>3 DEF InLog
<1>7. ASSUME \A i \in DOMAIN Tail(todo) : Tail(todo)[i].doc # e.doc
      PROVE  want[e.doc] = e.content
  <2>1. LastOf(e.doc, k)
    BY <1>2, <1>3, <1>4, <1>7 DEF LastOf
  <2> QED
    BY <1>2, <1>3, <1>5, <2>1 DEF LastWanted
<1> QED
  BY <1>1, <1>6, <1>7 DEF e

\* Dropping the entry that was applied leaves the end of the log to do.
LEMMA DropKeepsSuffix ==
    ASSUME TypeOK, Suffix, up, todo # <<>>, todo' = Tail(todo), wal' = wal
    PROVE  Suffix'
<1>1. /\ Len(todo) \in Nat /\ Len(todo) >= 1
      /\ Len(todo') = Len(todo) - 1
      /\ \A i \in 1..(Len(todo) - 1) : todo'[i] = todo[i + 1]
  BY TailFacts DEF TypeOK
<1>2. Len(wal) \in Nat
  BY DEF TypeOK
<1>3. Len(todo') <= Len(wal')
  BY <1>1, <1>2 DEF Suffix
<1>4. ASSUME NEW i \in 1..Len(todo')
      PROVE  todo'[i] = wal'[Len(wal') - Len(todo') + i]
  <2>1. i + 1 \in 1..Len(todo) /\ i \in 1..(Len(todo) - 1)
    BY <1>1, <1>4
  <2>2. Len(wal) - Len(todo) + (i + 1) = Len(wal') - Len(todo') + i
    BY <1>1, <1>2, <2>1
  <2>3. todo[i + 1] = wal[Len(wal) - Len(todo) + (i + 1)]
    BY <2>1 DEF Suffix
  <2> QED
    BY <1>1, <2>1, <2>2, <2>3
<1> QED
  BY <1>3, <1>4 DEF Suffix

\* A document other than the one of the dropped entry is still to be applied
\* if it was.
LEMMA DropKeepsTodo ==
    ASSUME TypeOK, todo # <<>>, todo' = Tail(todo),
           NEW d, d # Head(todo).doc, ~ InTodo(d)'
    PROVE  ~ InTodo(d)
<1>1. /\ Len(todo) \in Nat /\ DOMAIN todo = 1..Len(todo)
      /\ Head(todo) = todo[1]
      /\ DOMAIN Tail(todo) = 1..(Len(todo) - 1)
      /\ \A i \in 1..(Len(todo) - 1) : Tail(todo)[i] = todo[i + 1]
  BY TailFacts DEF TypeOK
<1>2. ASSUME NEW i \in DOMAIN todo
      PROVE  todo[i].doc # d
  <2>1. CASE i = 1
    BY <1>1, <2>1
  <2>2. CASE i # 1
    <3>1. i - 1 \in 1..(Len(todo) - 1) /\ i - 1 + 1 = i
      BY <1>1, <1>2, <2>2
    <3>2. Tail(todo)[i - 1] = todo[i]
      BY <1>1, <3>1
    <3>3. Tail(todo)[i - 1].doc # d
      BY <1>1, <3>1 DEF InTodo
    <3> QED
      BY <3>2, <3>3
  <2> QED
    BY <2>1, <2>2
<1> QED
  BY <1>2 DEF InTodo

\* A step that changes neither disk nor process, but for the state of the
\* log's writer.
LEMMA IdleStep ==
    ASSUME Unharmed,
           UNCHANGED <<docVars, wal, snap, up, index, todo, saving, want>>
    PROVE  Unharmed'
<1>1. \A d : /\ InLog(d)' <=> InLog(d)
             /\ InTodo(d)' <=> InTodo(d)
             /\ \A i : LastOf(d, i)' <=> LastOf(d, i)
  BY DEF InLog, InTodo, LastOf
<1>2. /\ Image' = Image
      /\ \A d : (Kept(d)' <=> Kept(d)) /\ (Settled(d)' <=> Settled(d))
  BY DEF Image, Kept, Settled, docVars
<1>3. LastWanted' /\ Covered'
  BY <1>1, <1>2 DEF Unharmed, LastWanted, Covered
<1>4. Applied' /\ Suffix' /\ SaveAlone'
  BY <1>1, <1>2 DEF Unharmed, Applied, Suffix, SaveAlone
<1> QED
  BY <1>3, <1>4 DEF Unharmed

\* Log, DeleteUnlogged and CrashInLog, when the entry is readable.
LEMMA LoggedStep ==
    ASSUME TypeOK, Unharmed, NEW d \in Docs, NEW c \in Maybe, Ready,
           wal' = Append(wal, entry(d, c)), want' = [want EXCEPT ![d] = c],
           UNCHANGED docVars, snap' = snap, saving' = "no",
           \/ todo' = <<entry(d, c)>> /\ index' = index
           \/ ~ up'
    PROVE  Unharmed'
<1>1. LastWanted' /\ Covered'
  BY LoggedWanted DEF Unharmed, Ready
<1>2. Applied' /\ Suffix'
  <2>1. CASE todo' = <<entry(d, c)>> /\ index' = index
    BY <2>1, LoggedApplied DEF Unharmed, Ready
  <2>2. CASE ~ up'
    BY <2>2 DEF Applied, Suffix
  <2> QED
    BY <2>1, <2>2
<1>3. SaveAlone'
  BY DEF SaveAlone
<1> QED
  BY <1>1, <1>2, <1>3 DEF Unharmed

\* Writing a record of document d, or failing to, leaves the others alone.
\* If d is not lost, it is as the record says.
LEMMA StoreEffect ==
    ASSUME TypeOK, NEW d \in Docs, NEW c \in Maybe, want' = want,
           StoreWritten(d, c) \/ StoreFails(d, c)
    PROVE  /\ d \notin lost' => store'[d] = c
           /\ d \notin lost' /\ diskEnd' # "buried" => disk'[d] = c
           /\ \A x \in Docs \ {d} : /\ store'[x] = store[x]
                                    /\ x \in lost' <=> x \in lost
                                    /\ Kept(x) => Kept(x)'
<1>1. /\ store \in [Docs -> Stored] /\ disk \in [Docs -> Stored]
      /\ lost \in SUBSET Docs
  BY DEF TypeOK
<1>2. /\ \/ store' = [store EXCEPT ![d] = c] /\ lost' = lost \ {d}
         \/ store' = store /\ lost' = lost \cup {d}
      /\ \/ diskEnd' = "buried"
         \/ /\ diskEnd # "buried"
            /\ \/ disk' = disk \/ disk' = [disk EXCEPT ![d] = Broken]
               \/ disk' = [disk EXCEPT ![d] = c]
  <2>1. CASE StoreWritten(d, c)
    BY <2>1 DEF StoreWritten
  <2>2. CASE StoreFails(d, c)
    BY <2>2 DEF StoreFails, StoreCut
  <2> QED
    BY <2>1, <2>2
<1>3. d \notin lost' => store'[d] = c
  BY <1>1, <1>2
<1>4. ASSUME d \notin lost', diskEnd' # "buried"
      PROVE  disk'[d] = c
  <2>1. StoreWritten(d, c)
    BY <1>4 DEF StoreFails
  <2>2. disk' = [disk EXCEPT ![d] = c]
    BY <1>4, <2>1 DEF StoreWritten
  <2> QED
    BY <1>1, <2>2
<1>5. ASSUME NEW x \in Docs \ {d}
      PROVE  store'[x] = store[x] /\ (x \in lost' <=> x \in lost)
  BY <1>1, <1>2, <1>5
<1>6. ASSUME NEW x \in Docs \ {d}, Kept(x)
      PROVE  Kept(x)'
  <2>1. diskEnd' = "buried" \/ (diskEnd # "buried" /\ disk'[x] = disk[x])
    BY <1>1, <1>2
  <2> QED
    BY <1>5, <1>6, <2>1 DEF Kept
<1> QED
  BY <1>3, <1>4, <1>5, <1>6

\* Applying the next entry, or the deletion it begins with.
LEMMA ApplyStep ==
    ASSUME TypeOK, Unharmed, DeleteDoc \/ PutDoc
    PROVE  Unharmed'
<1> DEFINE e == Head(todo)
<1>1. /\ up /\ todo # <<>> /\ up' = up /\ saving' = saving
      /\ wal' = wal /\ snap' = snap /\ want' = want
      /\ todo' \in {todo, Tail(todo)}
  BY DEF DeleteDoc, PutDoc, DeleteDue, PutDue
<1>2. /\ e \in Entry /\ InLog(e.doc) /\ e.doc \in Docs
      /\ (\A i \in DOMAIN Tail(todo) : Tail(todo)[i].doc # e.doc)
           => want[e.doc] = e.content
  BY <1>1, HeadWanted, EntryFields DEF Unharmed
<1>3. PICK c \in Maybe :
        /\ StoreWritten(e.doc, c) \/ StoreFails(e.doc, c)
        /\ index' = [index EXCEPT ![e.doc] = c]
        /\ todo' = Tail(todo) => c = e.content
  <2>1. CASE DeleteDoc
    <3>1. todo # Tail(todo)
      <4>1. todo \in Seq(Entry)
        BY DEF TypeOK
      <4>2. Len(Tail(todo)) = Len(todo) - 1 /\ Len(todo) \in Nat
        BY <1>1, <4>1, TailFacts
      <4> QED
        BY <4>2
    <3>2. todo' = Tail(todo) => e.op = "delete"
      BY <2>1, <3>1 DEF DeleteDoc
    <3>3. todo' = Tail(todo) => e.content = NoDoc
      BY <1>2, <3>2, EntryFields
    <3>4. NoDoc \in Maybe
      BY DEF Maybe
    <3>5. /\ StoreWritten(e.doc, NoDoc) \/ StoreFails(e.doc, NoDoc)
          /\ index' = [index EXCEPT ![e.doc] = NoDoc]
      BY <2>1 DEF DeleteDoc
    <3> QED
      BY <3>3, <3>4, <3>5
  <2>2. CASE PutDoc
    <3>1. e.content \in Maybe
      BY <1>2, EntryFields
    <3>2. /\ StoreWritten(e.doc, e.content) \/ StoreFails(e.doc, e.content)
          /\ index' = [index EXCEPT ![e.doc] = e.content]
      BY <2>2 DEF PutDoc
    <3> QED
      BY <3>1, <3>2
  <2> QED
    BY <2>1, <2>2
<1> HIDE DEF e
<1>30. /\ e.doc \notin lost' => store'[e.doc] = c
       /\ e.doc \notin lost' /\ diskEnd' # "buried" => disk'[e.doc] = c
       /\ \A x \in Docs \ {e.doc} : /\ store'[x] = store[x]
                                    /\ x \in lost' <=> x \in lost
                                    /\ Kept(x) => Kept(x)'
  BY <1>1, <1>2, <1>3, StoreEffect
<1>31. ASSUME NEW d \in Docs \ {e.doc}, Settled(d)
       PROVE  Settled(d)'
  <2>1. index'[d] = index[d]
    BY <1>2, <1>3, <1>31 DEF TypeOK
  <2> QED
    BY <1>1, <1>30, <1>31, <2>1 DEF Settled
<1>32. ASSUME NEW d \in Docs, d = e.doc, want[d] = c
       PROVE  Settled(d)'
  <2>1. index'[d] = c
    BY <1>3, <1>32 DEF TypeOK
  <2> QED
    BY <1>1, <1>30, <1>32, <2>1 DEF Settled, Kept
<1>4. \A d : /\ InLog(d)' <=> InLog(d)
             /\ \A i : LastOf(d, i)' <=> LastOf(d, i)
  BY <1>1 DEF InLog, LastOf
<1>5. Image' = Image
  BY <1>1 DEF Image
<1>6. LastWanted'
  BY <1>1, <1>4 DEF Unharmed, LastWanted
<1>7. Covered'
  BY <1>1, <1>2, <1>30, <1>4, <1>5 DEF Unharmed, Covered
<1>8. Suffix'
  <2>1. CASE todo' = todo
    BY <1>1, <2>1 DEF Unharmed, Suffix
  <2>2. CASE todo' = Tail(todo)
    BY <1>1, <2>2, DropKeepsSuffix DEF Unharmed
  <2> QED
    BY <1>1, <2>1, <2>2
<1>9. ASSUME NEW d \in Docs, ~ InTodo(d)'
      PROVE  Settled(d)'
  <2>1. CASE todo' = todo
    <3>1. ~ InTodo(d) /\ d # e.doc
      <4>1. ~ InTodo(d)
        BY <1>9, <2>1 DEF InTodo
      <4>2. 1 \in DOMAIN todo /\ e = todo[1]
        BY <1>1, TailFacts DEF TypeOK, e
      <4> QED
        BY <4>1, <4>2 DEF InTodo
    <3>2. Settled(d)
      BY <1>1, <3>1 DEF Unharmed, Applied
    <3> QED
      BY <1>31, <3>1, <3>2
  <2>2. CASE todo' = Tail(todo) /\ d # e.doc
    <3>1. ~ InTodo(d)
      BY <1>1, <1>9, <2>2, DropKeepsTodo DEF e
    <3>2. Settled(d)
      BY <1>1, <3>1 DEF Unharmed, Applied
    <3> QED
      BY <1>31, <2>2, <3>2
  <2>3. CASE todo' = Tail(todo) /\ d = e.doc
    <3>1. \A i \in DOMAIN Tail(todo) : Tail(todo)[i].doc # e.doc
      BY <1>9, <2>3 DEF InTodo
    <3>2. want[e.doc] = e.content
      BY <1>2, <3>1
    <3> QED
      BY <1>3, <1>32, <2>3, <3>2
  <2> QED
    BY <1>1, <2>1, <2>2, <2>3
<1>10. Applied'
  BY <1>9 DEF Applied
<1>11. SaveAlone'
  BY <1>1 DEF Unharmed, SaveAlone
<1> QED
  BY <1>6, <1>7, <1>8, <1>10, <1>11 DEF Unharmed

\* Save: it changes the snapshot and, when that is complete, cuts the log.
LEMMA SaveStep ==
    ASSUME TypeOK, Unharmed, SaveCreate \/ SaveEncode \/ SaveTruncate
    PROVE  Unharmed'
<1>1. /\ UNCHANGED docVars /\ up' = up /\ index' = index /\ todo' = todo
      /\ want' = want
      /\ up /\ todo = <<>>
  BY DEF SaveCreate, SaveEncode, SaveTruncate, Ready, Unharmed, SaveAlone
<1>2. index = want /\ \A d \in Docs : Settled(d)
  BY <1>1, IdleHoldsWanted DEF Unharmed
<1>20. \A d \in Docs : Settled(d)' /\ Kept(d)'
  BY <1>1, <1>2 DEF Settled, Kept, docVars
<1>3. /\ Len(todo) = 0
      /\ wal' = wal \/ wal' = <<>>
      /\ Len(wal) \in Nat /\ Len(<<>>) = 0
  BY <1>1 DEF SaveCreate, SaveEncode, SaveTruncate, TypeOK
<1>4. Applied'
  BY <1>20 DEF Applied
<1>5. Suffix'
  BY <1>1, <1>3 DEF Suffix
<1>6. LastWanted'
  <2>1. CASE wal' = wal
    <3>1. \A d : /\ InLog(d)' <=> InLog(d)
                 /\ \A i : LastOf(d, i)' <=> LastOf(d, i)
      BY <2>1 DEF InLog, LastOf
    <3> QED
      BY <1>1, <2>1, <3>1 DEF Unharmed, LastWanted
  <2>2. CASE wal' = <<>>
    <3>1. DOMAIN wal' = {}
      BY <2>2
    <3> QED
      BY <3>1 DEF LastWanted, InLog
  <2> QED
    BY <1>3, <2>1, <2>2
<1>7. saving' = "created" \/ Image' = index
  <2>1. CASE SaveCreate
    BY <2>1 DEF SaveCreate
  <2>2. CASE SaveEncode
    <3>1. snap' = index /\ index \notin {None, Partial}
      BY <2>2, SnapshotAssumption DEF SaveEncode, TypeOK, Maybe
    <3> QED
      BY <3>1 DEF Image
  <2>3. CASE SaveTruncate
    BY <2>3 DEF SaveTruncate, Unharmed, SaveAlone, Image
  <2> QED
    BY <2>1, <2>2, <2>3
<1>8. Covered'
  BY <1>1, <1>2, <1>20, <1>7 DEF Covered
<1>9. SaveAlone'
  BY <1>1, <1>7 DEF SaveAlone
<1> QED
  BY <1>4, <1>5, <1>6, <1>8, <1>9 DEF Unharmed

\* A crash, unless it falls into the rewriting of the snapshot: all that is
\* lost is what the disk covers.
LEMMA CrashStep ==
    ASSUME Unharmed, saving # "created", Down,
           UNCHANGED <<wal, snap, want>>,
           \A d \in Docs : ~ InLog(d) /\ Kept(d) => Kept(d)'
    PROVE  Unharmed'
<1>1. \A d : /\ InLog(d)' <=> InLog(d)
             /\ \A i : LastOf(d, i)' <=> LastOf(d, i)
  BY DEF InLog, LastOf
<1>2. Image' = Image
  BY DEF Image
<1>3. LastWanted' /\ Covered'
  BY <1>1, <1>2 DEF Unharmed, LastWanted, Covered
<1>4. Applied' /\ Suffix' /\ SaveAlone'
  BY DEF Down, Applied, Suffix, SaveAlone
<1> QED
  BY <1>3, <1>4 DEF Unharmed

\* One that falls into the writing of a record: the record belongs to a
\* document the log has an entry of.
LEMMA CrashInStoreStep ==
    ASSUME TypeOK, Unharmed, CrashInStore
    PROVE  Unharmed'
<1> DEFINE e == Head(todo)
<1>1. up /\ todo # <<>>
  BY DEF CrashInStore, DeleteDue, PutDue
<1>2. InLog(e.doc)
  BY <1>1, HeadWanted DEF Unharmed
<1>3. \E c : StoreCut(e.doc, c)
  BY DEF CrashInStore
<1>4. /\ diskEnd' # "buried" => diskEnd # "buried"
      /\ disk' = disk \/ disk' = [disk EXCEPT ![e.doc] = Broken]
  <2> HIDE DEF e
  <2> QED
    BY <1>3 DEF StoreCut
<1>5. ASSUME NEW d \in Docs, ~ InLog(d), Kept(d)
      PROVE  Kept(d)'
  <2>1. d # e.doc
    BY <1>2, <1>5
  <2>2. disk'[d] = disk[d]
    <3> HIDE DEF e
    <3>1. disk \in [Docs -> Stored]
      BY DEF TypeOK
    <3> QED
      BY <1>4, <2>1, <3>1
  <2>3. lost' = lost /\ want' = want
    BY DEF CrashInStore
  <2> QED
    BY <1>4, <1>5, <2>2, <2>3 DEF Kept
<1>6. saving # "created"
  BY <1>1 DEF Unharmed, SaveAlone, TypeOK
<1> QED
  BY <1>5, <1>6, CrashStep DEF CrashInStore

\* A restart: the whole log is to be applied to what the disk covers.
LEMMA RestartStep ==
    ASSUME TypeOK, Unharmed, Restart
    PROVE  Unharmed'
<1>1. /\ up' /\ index' = Image /\ todo' = wal /\ saving' = "no" /\ saving = "no"
      /\ wal' = wal /\ snap' = snap /\ want' = want
  BY DEF Restart, TypeOK
<1>2. \A d : /\ InLog(d)' <=> InLog(d)
             /\ InTodo(d)' <=> InLog(d)
             /\ \A i : LastOf(d, i)' <=> LastOf(d, i)
  BY <1>1 DEF InLog, InTodo, LastOf
<1>3. Image' = Image
  BY <1>1 DEF Image
<1>30. ASSUME NEW d \in Docs, Kept(d)
       PROVE  Kept(d)' /\ (d \notin lost' => store'[d] = want'[d])
  BY <1>1, <1>30 DEF Restart, OpenedStore, Kept
<1>4. LastWanted' /\ Covered'
  BY <1>1, <1>2, <1>3, <1>30 DEF Unharmed, LastWanted, Covered
<1>5. Applied'
  <2> SUFFICES ASSUME NEW d \in Docs, ~ InTodo(d)'
               PROVE  Settled(d)'
    BY DEF Applied
  <2>1. Kept(d) /\ Image[d] = want[d]
    BY <1>1, <1>2 DEF Unharmed, Covered
  <2> QED
    BY <1>1, <1>30, <2>1 DEF Settled
<1>6. Suffix'
  <2>1. Len(wal) \in Nat
    BY DEF TypeOK
  <2>2. \A i \in 1..Len(wal) : Len(wal) - Len(wal) + i = i
    BY <2>1
  <2> QED
    BY <1>1, <2>1, <2>2 DEF Suffix
<1>7. SaveAlone'
  BY <1>1 DEF SaveAlone
<1> QED
  BY <1>4, <1>5, <1>6, <1>7 DEF Unharmed

\* The invariant holds of an engine that starts on empty files.
LEMMA InvInit == Init => IInv
<1> SUFFICES ASSUME Init PROVE IInv
  OBVIOUS
<1>1. /\ wal = <<>> /\ todo = <<>> /\ DOMAIN wal = {} /\ DOMAIN todo = {}
      /\ Len(wal) = 0 /\ Len(todo) = 0
  BY DEF Init
<1>2. store = want /\ disk = want /\ index = want /\ Image = want /\ saving = "no"
  BY DEF Init, Image
<1>3. LastWanted /\ Suffix /\ SaveAlone
  BY <1>1, <1>2 DEF LastWanted, InLog, Suffix, SaveAlone
<1>4. Covered /\ Applied
  BY <1>2 DEF Covered, Applied, Kept, Settled
<1> QED
  BY <1>3, <1>4, TypeInit DEF IInv, Unharmed

\* Every step keeps the invariant.
LEMMA InvStep == IInv /\ [Next]_vars => IInv'
<1> SUFFICES ASSUME IInv, [Next]_vars, ~ harmed'
             PROVE  Unharmed'
  BY TypeStep DEF IInv
<1>0. TypeOK /\ (~ harmed => Unharmed)
  BY DEF IInv
<1>1. ASSUME NEW d \in Docs, NEW c \in Maybe, Log(d, c)
      PROVE  Unharmed'
  <2>1. ~ harmed /\ wal' = Append(wal, entry(d, c))
    BY <1>0, <1>1, EntryFacts, AppendLineFacts DEF Log
  <2> QED
    BY <1>0, <1>1, <2>1, LoggedStep DEF Log, Ready
<1>2. ASSUME NEW d \in Docs, NEW c \in Maybe, CrashInLog(d, c)
      PROVE  Unharmed'
  <2>1. ~ harmed /\ ~ (Len(wal') < Len(wal))
    BY <1>2 DEF CrashInLog
  <2>2. CASE wal' = wal
    <3>1. want' = want
      <4>1. ~ (Len(wal') > Len(wal))
        BY <1>0, <2>2 DEF TypeOK
      <4> QED
        BY <1>2, <4>1 DEF CrashInLog
    <3> QED
      BY <1>0, <1>2, <2>1, <2>2, <3>1, CrashStep DEF CrashInLog, Ready, docVars, Kept
  <2>3. CASE wal' = Append(wal, entry(d, c))
    <3>1. Len(wal') > Len(wal)
      BY <1>0, <2>3, EntryFacts, AppendFacts DEF TypeOK
    <3>2. want' = [want EXCEPT ![d] = c]
      BY <1>2, <3>1 DEF CrashInLog
    <3> QED
      BY <1>0, <1>2, <2>1, <2>3, <3>2, LoggedStep DEF CrashInLog, Down
  <2> QED
    BY <1>0, <1>2, <2>1, <2>2, <2>3, EntryFacts, AppendCutFacts DEF CrashInLog
<1>3. ASSUME NEW d \in Docs, NEW c \in Contents, IndexFails(d, c)
      PROVE  Unharmed'
  <2>1. ~ harmed /\ wal' = wal
    BY <1>3 DEF IndexFails
  <2> QED
    BY <1>0, <1>3, <2>1, IdleStep DEF IndexFails
<1>4. ASSUME NEW d \in Docs, DeleteUnlogged(d)
      PROVE  Unharmed'
  <2>1. ~ harmed /\ ~ (Len(wal') <= Len(wal)) /\ NoDoc \in Maybe
    BY <1>4 DEF DeleteUnlogged, Maybe
  <2>2. wal' # wal /\ ~ (Len(wal') < Len(wal))
    <3>1. Len(wal) \in Nat /\ Len(wal') \in Nat
      <4>1. TypeOK'
        BY <1>0, TypeStep
      <4> QED
        BY <1>0, <4>1 DEF TypeOK
    <3> QED
      BY <2>1, <3>1
  <2>3. wal' = Append(wal, entry(d, NoDoc))
    BY <1>0, <1>4, <2>1, <2>2, EntryFacts, AppendCutFacts DEF DeleteUnlogged
  <2> QED
    BY <1>0, <1>4, <2>1, <2>3, LoggedStep DEF DeleteUnlogged, Ready
<1>5. ASSUME DeleteDoc \/ PutDoc
      PROVE  Unharmed'
  <2>1. ~ harmed
    BY <1>5 DEF DeleteDoc, PutDoc
  <2> QED
    BY <1>0, <1>5, <2>1, ApplyStep
<1>6. ASSUME SaveCreate \/ SaveEncode \/ SaveTruncate
      PROVE  Unharmed'
  <2>1. ~ harmed
    BY <1>6 DEF SaveCreate, SaveEncode, SaveTruncate
  <2> QED
    BY <1>0, <1>6, <2>1, SaveStep
<1>7. ASSUME SaveEncodeFails
      PROVE  FALSE
  BY <1>7 DEF SaveEncodeFails
<1>8. ASSUME Crash
      PROVE  Unharmed'
  <2>1. ~ harmed /\ saving # "created"
    BY <1>8 DEF Crash
  <2> QED
    BY <1>0, <1>8, <2>1, CrashStep DEF Crash, docVars, Kept
<1>9. ASSUME Restart
      PROVE  Unharmed'
  <2>1. ~ harmed
    BY <1>9 DEF Restart
  <2> QED
    BY <1>0, <1>9, <2>1, RestartStep
<1>10. ASSUME CrashInStore
       PROVE  Unharmed'
  <2>1. ~ harmed
    BY <1>10 DEF CrashInStore
  <2> QED
    BY <1>0, <1>10, <2>1, CrashInStoreStep
<1>11. ASSUME UNCHANGED vars
       PROVE  Unharmed'
  <2>1. ~ harmed
    BY <1>11 DEF vars
  <2> QED
    BY <1>0, <1>11, <2>1, IdleStep DEF vars, docVars
<1> QED
  BY <1>1, <1>2, <1>3, <1>4, <1>5, <1>6, <1>7, <1>8, <1>9, <1>10, <1>11 DEF Next

-----------------------------------------------------------------------------
(* The theorems.                                                           *)

\* The engine's variables keep their types, and a process that is down has
\* nothing to do.
THEOREM TypeCorrect == Spec => []TypeOK
<1>1. IInv => TypeOK
  BY DEF IInv
<1> QED
  BY <1>1, InvInit, InvStep, PTL DEF Spec

\* Index, Delete, Save and New, with crashes anywhere, inside the writes of the
\* log and of the store as well: unless recovery was harmed, every document is
\* found as its last logged operation left it whenever no call is at work, and
\* stored like that unless the store failed to write it or had to read behind
\* a torn record.
THEOREM RecoveryCorrect == Spec => []UnharmedSurvives
<1>1. IInv => UnharmedSurvives
  <2> SUFFICES ASSUME IInv, ~ harmed, Ready
               PROVE  index = want /\ \A d \in Docs \ lost : store[d] = want[d]
    BY DEF UnharmedSurvives, LoggedSurvives
  <2>1. index = want /\ \A d \in Docs : Settled(d)
    BY IdleHoldsWanted DEF IInv, Unharmed, Ready
  <2> QED
    BY <2>1 DEF Settled
<1> QED
  BY <1>1, InvInit, InvStep, PTL DEF Spec

\* Save and the write-ahead log: unless recovery was harmed, snapshot and log
\* hold the whole index between them, except while the snapshot file is being
\* rewritten.
THEOREM DiskCorrect == Spec => []DiskHoldsIndex
<1>1. IInv => DiskHoldsIndex
  <2> SUFFICES ASSUME IInv, ~ harmed, saving # "created"
               PROVE  Replayed = want
    BY DEF DiskHoldsIndex
  <2>1. LastWanted /\ Covered /\ TypeOK
    BY DEF IInv, Unharmed
  <2>2. ASSUME NEW d \in Docs
        PROVE  Replayed[d] = want[d]
    <3> DEFINE own == {i \in DOMAIN wal : wal[i].doc = d}
               last(i) == i \in own /\ \A j \in own : j <= i
    <3>1. Replayed[d] = IF own = {} THEN Image[d]
                        ELSE wal[CHOOSE i \in own : \A j \in own : j <= i].content
      BY DEF Replayed
    <3>2. CASE own = {}
      <4>1. ~ InLog(d)
        BY <3>2 DEF InLog
      <4> QED
        BY <2>1, <3>1, <3>2, <4>1 DEF Covered
    <3>3. CASE own # {}
      <4>1. DOMAIN wal \in SUBSET Nat
        BY <2>1 DEF TypeOK
      <4>2. \A i : last(i) <=> LastOf(d, i)
        BY <4>1 DEF LastOf
      <4>3. \E i \in own : \A j \in own : j <= i
        <5>1. InLog(d)
          BY <3>3 DEF InLog
        <5>2. PICK i \in DOMAIN wal : LastOf(d, i)
          BY <2>1, <5>1 DEF LastWanted
        <5> QED
          BY <4>2, <5>2
      <4> DEFINE m == CHOOSE i \in own : \A j \in own : j <= i
      <4>4. last(m)
        BY <4>3
      <4>5. wal[m].content = want[d]
        <5>1. LastOf(d, m)
          BY <4>2, <4>4
        <5>2. m \in DOMAIN wal
          BY <5>1 DEF LastOf
        <5> QED
          BY <2>1, <5>1, <5>2 DEF LastWanted
      <4> QED
        BY <3>1, <3>3, <4>5
    <3> QED
      BY <3>2, <3>3
  <2>3. Replayed = [d \in Docs |-> Replayed[d]]
    BY DEF Replayed
  <2> QED
    BY <2>1, <2>2, <2>3 DEF TypeOK
<1> QED
  BY <1>1, InvInit, InvStep, PTL DEF Spec

(***************************************************************************)
(*                     The log of the document store                       *)
(***************************************************************************)

-----------------------------------------------------------------------------
(* The records of a log.                                                   *)

Rec == [type : Nat, key : Seq(Nat), offset : Nat, size : Nat]

\* A whole header and key at this offset, and the record they make.
Fits(f, o) == o + headerSize <= Len(f) /\ o + headerSize + KeyLen(f, o) <= Len(f)

RecordAt(f, o) ==
    [type   |-> f[o + 1],
     key    |-> SubSeq(f, o + headerSize + 1, o + headerSize + KeyLen(f, o)),
     offset |-> o,
     size   |-> headerSize + KeyLen(f, o) + ValLen(f, o)]

\* The header, key and size of the record at an offset are what the bytes there say.
LEMMA RecordAtFacts ==
    ASSUME NEW f \in Seq(Nat), NEW o \in Nat, Fits(f, o)
    PROVE  /\ KeyLen(f, o) \in Nat /\ ValLen(f, o) \in Nat
           /\ f[o + 1] \in Nat
           /\ RecordAt(f, o) \in Rec
           /\ RecordAt(f, o).type = f[o + 1]
           /\ Len(RecordAt(f, o).key) = KeyLen(f, o)
           /\ \A i \in 1..KeyLen(f, o) : RecordAt(f, o).key[i] = f[o + headerSize + i]
           /\ RecordAt(f, o).offset = o
           /\ RecordAt(f, o).size = headerSize + KeyLen(f, o) + ValLen(f, o)
<1>1. PICK n \in Nat : n = Len(f)
  BY LenProperties
<1>2. o + headerSize <= n /\ o + headerSize + KeyLen(f, o) <= n
  BY <1>1 DEF Fits
<1>3. headerSize = 3
  BY DEF headerSize
<1>4. o + 1 \in 1..n /\ o + 2 \in 1..n /\ o + 3 \in 1..n
  BY <1>2, <1>3
<1>5. \A i \in 1..n : f[i] \in Nat
  BY <1>1, ElementOfSeq
<1>6. PICK k \in Nat, l \in Nat, t \in Nat : k = KeyLen(f, o) /\ l = ValLen(f, o) /\ t = f[o + 1]
  BY <1>4, <1>5 DEF KeyLen, ValLen
<1>7. PICK key : key = SubSeq(f, o + headerSize + 1, o + headerSize + KeyLen(f, o))
  OBVIOUS
<1>8. key \in Seq(Nat) /\ Len(key) = k /\ \A i \in 1..k : key[i] = f[o + headerSize + i]
  <2>1. \A i \in (o + 4)..(o + 3 + k) : f[i] \in Nat
    BY <1>1, <1>2, <1>3, <1>5, <1>6
  <2>2. o + 4 \in Int /\ o + 3 + k \in Int
    OBVIOUS
  <2>3. /\ SubSeq(f, o + 4, o + 3 + k) \in Seq(Nat)
        /\ Len(SubSeq(f, o + 4, o + 3 + k)) = IF o + 4 <= o + 3 + k THEN o + 3 + k - (o + 4) + 1 ELSE 0
        /\ \A i \in 1..(o + 3 + k - (o + 4) + 1) : SubSeq(f, o + 4, o + 3 + k)[i] = f[o + 4 + i - 1]
    BY <2>1, <2>2, SubSeqProperties
  <2>4. key = SubSeq(f, o + 4, o + 3 + k)
    <3>1. o + headerSize + 1 = o + 4 /\ o + headerSize + KeyLen(f, o) = o + 3 + k
      BY <1>3, <1>6
    <3> QED
      BY <1>7, <3>1
  <2>5. o + 3 + k - (o + 4) + 1 = k /\ \A i \in 1..k : o + 4 + i - 1 = o + headerSize + i
    BY <1>3
  <2>6. (IF o + 4 <= o + 3 + k THEN k ELSE 0) = k
    OBVIOUS
  <2> QED
    BY <2>3, <2>4, <2>5, <2>6
<1>9. headerSize + k + l \in Nat
  BY <1>3
<1>10. RecordAt(f, o) = [type |-> t, key |-> key, offset |-> o, size |-> headerSize + k + l]
  BY <1>6, <1>7 DEF RecordAt
<1>11. RecordAt(f, o) \in Rec
  BY <1>8, <1>9, <1>10 DEF Rec
<1> QED
  BY <1>6, <1>8, <1>10, <1>11

\* The bytes of a key.
KeyIs(f, o, key) ==
    /\ key \in Seq(Nat) /\ Len(key) = KeyLen(f, o)
    /\ \A i \in 1..KeyLen(f, o) : key[i] = f[o + 3 + i]

\* The key of the record at an offset is made of the bytes behind its header.
LEMMA KeyFacts ==
    ASSUME NEW f \in Seq(Nat), NEW o \in Nat, Fits(f, o)
    PROVE  KeyIs(f, o, RecordAt(f, o).key)
<1>1. headerSize = 3
  BY DEF headerSize
<1>2. RecordAt(f, o) \in Rec
  BY RecordAtFacts
<1>3. RecordAt(f, o).key \in Seq(Nat)
  BY <1>2 DEF Rec
<1>4. Len(RecordAt(f, o).key) = KeyLen(f, o)
  BY RecordAtFacts
<1>5. \A i \in 1..KeyLen(f, o) : RecordAt(f, o).key[i] = f[o + headerSize + i]
  BY RecordAtFacts
<1> QED
  BY <1>1, <1>3, <1>4, <1>5 DEF KeyIs

\* The recursion of Records.
Recurs(g, f) ==
    g = [offset \in 0..Len(f) |->
          IF offset + headerSize > Len(f) THEN <<>>
          ELSE LET keyEnd == offset + headerSize + KeyLen(f, offset)
                   next   == keyEnd + ValLen(f, offset)
                   record == [type   |-> f[offset + 1],
                              key    |-> SubSeq(f, offset + headerSize + 1, keyEnd),
                              offset |-> offset,
                              size   |-> next - offset]
               IN  IF keyEnd > Len(f) THEN <<>>
                   ELSE <<record>> \o (IF next > Len(f) THEN <<>> ELSE g[next])]

\* What follows a record.
Rest(g, f, o) ==
    LET next == o + RecordAt(f, o).size IN IF next > Len(f) THEN <<>> ELSE g[next]

Body(g, f, o) == IF Fits(f, o) THEN <<RecordAt(f, o)>> \o Rest(g, f, o) ELSE <<>>

\* Body is the body of the recursion of Records.
LEMMA BodyFacts ==
    ASSUME NEW f \in Seq(Nat), NEW g, NEW offset \in 0..Len(f)
    PROVE  Body(g, f, offset) =
             IF offset + headerSize > Len(f) THEN <<>>
             ELSE LET keyEnd == offset + headerSize + KeyLen(f, offset)
                      next   == keyEnd + ValLen(f, offset)
                      record == [type   |-> f[offset + 1],
                                 key    |-> SubSeq(f, offset + headerSize + 1, keyEnd),
                                 offset |-> offset,
                                 size   |-> next - offset]
                  IN  IF keyEnd > Len(f) THEN <<>>
                      ELSE <<record>> \o (IF next > Len(f) THEN <<>> ELSE g[next])
<1>1. Len(f) \in Nat /\ offset \in Nat /\ headerSize = 3
  BY LenProperties DEF headerSize
<1>2. CASE offset + headerSize > Len(f)
  BY <1>1, <1>2 DEF Body, Fits
<1>3. CASE ~ (offset + headerSize > Len(f))
  <2>1. KeyLen(f, offset) \in Nat /\ ValLen(f, offset) \in Nat
    <3>1. offset + 2 \in 1..Len(f) /\ offset + 3 \in 1..Len(f)
      BY <1>1, <1>3
    <3> QED
      BY <3>1, ElementOfSeq DEF KeyLen, ValLen
  <2>2. CASE offset + headerSize + KeyLen(f, offset) > Len(f)
    BY <1>1, <1>3, <2>1, <2>2 DEF Body, Fits
  <2>3. CASE ~ (offset + headerSize + KeyLen(f, offset) > Len(f))
    <3>1. Fits(f, offset)
      BY <1>1, <1>3, <2>1, <2>3 DEF Fits
    <3>2. PICK k \in Nat, l \in Nat : k = KeyLen(f, offset) /\ l = ValLen(f, offset)
      BY <2>1
    <3>3. (offset + headerSize + k + l) - offset = headerSize + k + l
      BY <1>1
    <3>4. offset + RecordAt(f, offset).size = offset + headerSize + k + l
      BY <1>1, <3>1, <3>2, RecordAtFacts
    <3>5. RecordAt(f, offset) = [type   |-> f[offset + 1],
                                 key    |-> SubSeq(f, offset + headerSize + 1, offset + headerSize + KeyLen(f, offset)),
                                 offset |-> offset,
                                 size   |-> (offset + headerSize + KeyLen(f, offset) + ValLen(f, offset)) - offset]
      BY <3>2, <3>3 DEF RecordAt
    <3>6. Rest(g, f, offset) = IF offset + headerSize + KeyLen(f, offset) + ValLen(f, offset) > Len(f)
                               THEN <<>> ELSE g[offset + headerSize + KeyLen(f, offset) + ValLen(f, offset)]
      BY <3>2, <3>4 DEF Rest
    <3>7. Body(g, f, offset) = <<RecordAt(f, offset)>> \o Rest(g, f, offset)
      BY <3>1 DEF Body
    <3> DEFINE record == [type   |-> f[offset + 1],
                          key    |-> SubSeq(f, offset + headerSize + 1, offset + headerSize + KeyLen(f, offset)),
                          offset |-> offset,
                          size   |-> (offset + headerSize + KeyLen(f, offset) + ValLen(f, offset)) - offset]
               rest   == IF offset + headerSize + KeyLen(f, offset) + ValLen(f, offset) > Len(f)
                         THEN <<>> ELSE g[offset + headerSize + KeyLen(f, offset) + ValLen(f, offset)]
    <3>8. Body(g, f, offset) = <<record>> \o rest
      <4>1. RecordAt(f, offset) = record /\ Rest(g, f, offset) = rest
        BY <3>5, <3>6
      <4> HIDE DEF record, rest
      <4> QED
        BY <3>7, <4>1
    <3>9. Body(g, f, offset) =
             IF offset + headerSize > Len(f) THEN <<>>
             ELSE IF offset + headerSize + KeyLen(f, offset) > Len(f) THEN <<>>
             ELSE <<record>> \o rest
      <4> HIDE DEF record, rest
      <4> QED
        BY <1>3, <2>3, <3>8
    <3> QED
      BY <3>9
  <2> QED
    BY <2>2, <2>3
<1> QED
  BY <1>2, <1>3

\* A function with the recursion of Records is one whose values are given by Body.
LEMMA RecursIs ==
    ASSUME NEW f \in Seq(Nat), NEW g
    PROVE  Recurs(g, f) <=> g = [o \in 0..Len(f) |-> Body(g, f, o)]
BY BodyFacts DEF Recurs

\* Its value at one offset.
LEMMA RecursAt ==
    ASSUME NEW f \in Seq(Nat), NEW g, Recurs(g, f), NEW o \in 0..Len(f)
    PROVE  g[o] = Body(g, f, o)
<1> DEFINE h == [p \in 0..Len(f) |-> Body(g, f, p)]
<1>1. g = h
  BY RecursIs
<1>2. h[o] = Body(g, f, o)
  OBVIOUS
<1> HIDE DEF h
<1> QED
  BY <1>1, <1>2

\* There is a function with this recursion, by induction from the end of the log.
LEMMA RecursExists ==
    ASSUME NEW f \in Seq(Nat)
    PROVE  \E g \in [0..Len(f) -> Seq(Rec)] : Recurs(g, f)
<1> PICK n \in Nat : n = Len(f)
  BY LenProperties
<1> DEFINE Good(m) == \E g \in [m..n -> Seq(Rec)] : \A o \in m..n : g[o] = Body(g, f, o)
           P == {m \in Nat : m <= n + 1 => Good(n + 1 - m)}
<1>1. Good(n + 1)
  <2>1. [o \in (n + 1)..n |-> <<>>] \in [(n + 1)..n -> Seq(Rec)] /\ (n + 1)..n = {}
    OBVIOUS
  <2> QED
    BY <2>1
<1>2. ASSUME NEW m \in 0..n, Good(m + 1)
      PROVE  Good(m)
  <2>1. PICK g \in [(m + 1)..n -> Seq(Rec)] : \A o \in (m + 1)..n : g[o] = Body(g, f, o)
    BY <1>2
  <2> DEFINE h == [o \in m..n |-> IF o = m THEN Body(g, f, m) ELSE g[o]]
  <2>2. ASSUME NEW o \in m..n, Fits(f, o)
        PROVE  /\ RecordAt(f, o) \in Rec
               /\ o + RecordAt(f, o).size \in Nat /\ o + RecordAt(f, o).size > o
    <3>1. o \in Nat
      OBVIOUS
    <3>2. /\ RecordAt(f, o) \in Rec /\ KeyLen(f, o) \in Nat /\ ValLen(f, o) \in Nat
          /\ RecordAt(f, o).size = headerSize + KeyLen(f, o) + ValLen(f, o)
      BY <2>2, <3>1, RecordAtFacts
    <3> QED
      BY <3>1, <3>2 DEF headerSize
  <2>3. ASSUME NEW o \in m..n
        PROVE  Body(h, f, o) = Body(g, f, o)
    <3>1. CASE Fits(f, o)
      <4> DEFINE next == o + RecordAt(f, o).size
      <4>1. next \in Nat /\ next > o
        BY <2>2, <3>1
      <4> HIDE DEF next
      <4>2. ~ (next > n) => next \in (m + 1)..n /\ h[next] = g[next]
        BY <4>1
      <4> HIDE DEF h
      <4>3. Rest(h, f, o) = Rest(g, f, o)
        BY <4>2 DEF Rest, next
      <4> QED
        BY <4>3 DEF Body
    <3>2. CASE ~ Fits(f, o)
      BY <3>2 DEF Body
    <3> QED
      BY <3>1, <3>2
  <2>4. Body(g, f, m) \in Seq(Rec)
    <3>1. CASE Fits(f, m)
      <4> DEFINE next == m + RecordAt(f, m).size
      <4>1. next \in Nat /\ next > m /\ RecordAt(f, m) \in Rec
        BY <2>2, <3>1
      <4> HIDE DEF next
      <4>2. ~ (next > n) => next \in (m + 1)..n
        BY <4>1
      <4>3. Rest(g, f, m) \in Seq(Rec)
        BY <4>2, EmptySeq DEF Rest, next
      <4> QED
        BY <3>1, <4>1, <4>3, ConsFacts DEF Body
    <3>2. CASE ~ Fits(f, m)
      BY <3>2, EmptySeq DEF Body
    <3> QED
      BY <3>1, <3>2
  <2>5. h \in [m..n -> Seq(Rec)]
    <3>1. \A o \in m..n : o # m => o \in (m + 1)..n
      OBVIOUS
    <3>2. \A o \in m..n : (IF o = m THEN Body(g, f, m) ELSE g[o]) \in Seq(Rec)
      BY <2>1, <2>4, <3>1
    <3> QED
      BY <3>2
  <2>6. ASSUME NEW o \in m..n
        PROVE  h[o] = Body(h, f, o)
    <3>1. h[o] = Body(g, f, o)
      <4>1. o # m => o \in (m + 1)..n
        OBVIOUS
      <4> QED
        BY <2>1, <4>1
    <3> QED
      BY <2>3, <3>1
  <2> HIDE DEF h
  <2> QED
    BY <2>5, <2>6
<1> HIDE DEF Good
<1>3. Nat \subseteq P
  <2>1. 0 \in P
    BY <1>1
  <2>2. ASSUME NEW m \in Nat, m \in P
        PROVE  m + 1 \in P
    <3> SUFFICES ASSUME m + 1 <= n + 1
                 PROVE  Good(n + 1 - (m + 1))
      OBVIOUS
    <3>1. PICK k \in 0..n : k = n + 1 - (m + 1)
      OBVIOUS
    <3>2. n + 1 - m = k + 1 /\ m <= n + 1
      BY <3>1
    <3>3. Good(k + 1)
      BY <2>2, <3>2
    <3> QED
      BY <1>2, <3>1, <3>3
  <2> HIDE DEF P
  <2> QED
    BY <2>1, <2>2, NaturalInduction
<1>4. Good(0)
  <2>1. n + 1 \in P
    BY <1>3
  <2>2. n + 1 - (n + 1) = 0
    OBVIOUS
  <2> QED
    BY <2>1, <2>2
<1>5. PICK g \in [0..n -> Seq(Rec)] : \A o \in 0..n : g[o] = Body(g, f, o)
  BY <1>4 DEF Good
<1>6. g = [o \in 0..n |-> g[o]]
  OBVIOUS
<1>7. g = [o \in 0..Len(f) |-> Body(g, f, o)]
  BY <1>5, <1>6
<1> QED
  BY <1>5, <1>7, RecursIs

\* Where the first i of these records end, if they start at o.
Ends(rs, i, o) == IF i = 0 THEN o ELSE rs[i].offset + rs[i].size

\* The records that are found from o on: each starts where the one before it ends,
\* and where the last one ends there is none.
Chain(f, rs, o) ==
    /\ rs \in Seq(Rec)
    /\ \A i \in DOMAIN rs : /\ Fits(f, Ends(rs, i - 1, o))
                            /\ rs[i] = RecordAt(f, Ends(rs, i - 1, o))
    /\ ~ Fits(f, Ends(rs, Len(rs), o))

\* No record where no header and key fit.
LEMMA EmptyChain ==
    ASSUME NEW f, NEW o, ~ Fits(f, o)
    PROVE  Chain(f, <<>>, o)
<1>1. <<>> \in Seq(Rec) /\ Len(<<>>) = 0 /\ DOMAIN <<>> = {}
  BY EmptySeq
<1>2. Ends(<<>>, 0, o) = o
  BY DEF Ends
<1> QED
  BY <1>1, <1>2 DEF Chain

\* A record in front of a chain.
LEMMA ConsChain ==
    ASSUME NEW f \in Seq(Nat), NEW o \in Nat, Fits(f, o),
           NEW rest, Chain(f, rest, o + RecordAt(f, o).size)
    PROVE  Chain(f, <<RecordAt(f, o)>> \o rest, o)
<1> PICK r \in Rec : r = RecordAt(f, o) /\ r.offset = o
  BY RecordAtFacts
<1> DEFINE rs == <<r>> \o rest
           next == o + r.size
<1>1. rest \in Seq(Rec)
  BY DEF Chain
<1>2. PICK n \in Nat : n = Len(rest) /\ DOMAIN rest = 1..n
  BY <1>1, LenProperties
<1>3. /\ rs \in Seq(Rec) /\ Len(rs) = n + 1 /\ DOMAIN rs = 1..(n + 1)
      /\ rs[1] = r /\ \A k \in 2..(n + 1) : rs[k] = rest[k - 1]
  BY <1>1, <1>2, ConsFacts
<1>4. /\ \A i \in 1..n : Fits(f, Ends(rest, i - 1, next)) /\ rest[i] = RecordAt(f, Ends(rest, i - 1, next))
      /\ ~ Fits(f, Ends(rest, n, next))
  BY <1>2 DEF Chain
<1> HIDE DEF rs
<1>5. \A i \in 1..(n + 1) : Ends(rs, i, o) = Ends(rest, i - 1, next)
  <2> SUFFICES ASSUME NEW i \in 1..(n + 1)
               PROVE  Ends(rs, i, o) = Ends(rest, i - 1, next)
    OBVIOUS
  <2>1. CASE i = 1
    BY <1>3, <2>1 DEF Ends
  <2>2. CASE i # 1
    <3>1. i \in 2..(n + 1) /\ i # 0 /\ i - 1 # 0
      BY <2>2
    <3> QED
      BY <1>3, <3>1 DEF Ends
  <2> QED
    BY <2>1, <2>2
<1>6. ASSUME NEW i \in 1..(n + 1)
      PROVE  Fits(f, Ends(rs, i - 1, o)) /\ rs[i] = RecordAt(f, Ends(rs, i - 1, o))
  <2>1. CASE i = 1
    <3>1. Ends(rs, i - 1, o) = o
      BY <2>1 DEF Ends
    <3> QED
      BY <1>3, <2>1, <3>1
  <2>2. CASE i # 1
    <3>1. i - 1 \in 1..n /\ i - 1 \in 1..(n + 1) /\ i \in 2..(n + 1)
      BY <2>2
    <3>2. Ends(rs, i - 1, o) = Ends(rest, i - 1 - 1, next)
      BY <1>5, <3>1
    <3>3. Fits(f, Ends(rest, i - 1 - 1, next)) /\ rest[i - 1] = RecordAt(f, Ends(rest, i - 1 - 1, next))
      BY <1>4, <3>1
    <3> QED
      BY <1>3, <3>1, <3>2, <3>3
  <2> QED
    BY <2>1, <2>2
<1>7. ~ Fits(f, Ends(rs, n + 1, o))
  <2>1. n + 1 \in 1..(n + 1) /\ n + 1 - 1 = n
    OBVIOUS
  <2> QED
    BY <1>4, <1>5, <2>1
<1>8. Chain(f, rs, o)
  BY <1>3, <1>6, <1>7 DEF Chain
<1> QED
  BY <1>8 DEF rs

\* The recursion gives a chain, by induction from the end of the log.
LEMMA RecursChain ==
    ASSUME NEW f \in Seq(Nat), NEW g, Recurs(g, f)
    PROVE  Chain(f, g[0], 0)
<1> PICK n \in Nat : n = Len(f)
  BY LenProperties
<1> DEFINE Good(o) == Chain(f, g[o], o)
           P == {m \in Nat : \A o \in 0..n : n - o <= m => Good(o)}
<1>1. ASSUME NEW o \in 0..n, \A p \in 0..n : p > o => Good(p)
      PROVE  Good(o)
  <2>1. g[o] = Body(g, f, o)
    BY RecursAt
  <2>2. CASE ~ Fits(f, o)
    BY <2>1, <2>2, EmptyChain DEF Body
  <2>3. CASE Fits(f, o)
    <3> PICK next \in Nat : next = o + RecordAt(f, o).size /\ next > o
      <4>1. /\ KeyLen(f, o) \in Nat /\ ValLen(f, o) \in Nat
            /\ RecordAt(f, o).size = headerSize + KeyLen(f, o) + ValLen(f, o)
        BY <2>3, RecordAtFacts
      <4> QED
        BY <4>1 DEF headerSize
    <3>1. Chain(f, Rest(g, f, o), next)
      <4>1. CASE next > n
        <5>1. ~ Fits(f, next)
          BY <4>1 DEF Fits, headerSize
        <5> QED
          BY <4>1, <5>1, EmptyChain DEF Rest
      <4>2. CASE ~ (next > n)
        <5>1. next \in 0..n
          BY <4>2
        <5>2. Rest(g, f, o) = g[next]
          BY <4>2 DEF Rest
        <5> QED
          BY <1>1, <5>1, <5>2
      <4> QED
        BY <4>1, <4>2
    <3>2. Body(g, f, o) = <<RecordAt(f, o)>> \o Rest(g, f, o)
      BY <2>3 DEF Body
    <3> QED
      BY <2>1, <2>3, <3>1, <3>2, ConsChain
  <2> QED
    BY <2>2, <2>3
<1> HIDE DEF Good
<1>2. 0 \in P
  <2> SUFFICES ASSUME NEW o \in 0..n, n - o <= 0
               PROVE  Good(o)
    OBVIOUS
  <2> QED
    BY <1>1
<1>3. ASSUME NEW m \in Nat, m \in P
      PROVE  m + 1 \in P
  <2> SUFFICES ASSUME NEW o \in 0..n, n - o <= m + 1
               PROVE  Good(o)
    OBVIOUS
  <2>1. \A p \in 0..n : p > o => n - p <= m
    OBVIOUS
  <2>2. \A p \in 0..n : n - p <= m => Good(p)
    BY <1>3
  <2> QED
    BY <1>1, <2>1, <2>2
<1>4. Nat \subseteq P
  <2> HIDE DEF P
  <2> QED
    BY <1>2, <1>3, NaturalInduction
<1>5. n \in P /\ 0 \in 0..n /\ n - 0 <= n
  BY <1>4
<1> QED
  BY <1>5 DEF Good

\* What Records returns is a chain from the beginning of the log.
LEMMA RecordsChain ==
    ASSUME NEW f \in Seq(Nat)
    PROVE  Chain(f, Records(f), 0)
<1> DEFINE c == CHOOSE g : Recurs(g, f)
<1>1. Recurs(c, f)
  BY RecursExists
<1>2. Records(f) = c[0]
  BY DEF Records, Recurs
<1> HIDE DEF c
<1> QED
  BY <1>1, <1>2, RecursChain

\* Two chains from the same place agree, one record after the other.
LEMMA ChainsAgree ==
    ASSUME NEW f, NEW o, NEW rs, NEW ss, Chain(f, rs, o), Chain(f, ss, o)
    PROVE  /\ Len(rs) \in Nat /\ Len(ss) \in Nat
           /\ \A i \in Nat : i <= Len(rs) /\ i <= Len(ss) =>
                 (i # 0 => rs[i] = ss[i]) /\ Ends(rs, i, o) = Ends(ss, i, o)
<1> PICK n \in Nat, m \in Nat : /\ n = Len(rs) /\ DOMAIN rs = 1..n
                                /\ m = Len(ss) /\ DOMAIN ss = 1..m
  BY LenProperties DEF Chain
<1>1. /\ \A i \in 1..n : rs[i] = RecordAt(f, Ends(rs, i - 1, o))
      /\ \A i \in 1..m : ss[i] = RecordAt(f, Ends(ss, i - 1, o))
  BY DEF Chain
<1> DEFINE Same(i) == (i # 0 => rs[i] = ss[i]) /\ Ends(rs, i, o) = Ends(ss, i, o)
           P == {i \in Nat : i <= n /\ i <= m => Same(i)}
<1>2. Same(0)
  BY DEF Ends
<1>3. ASSUME NEW i \in Nat, i + 1 <= n, i + 1 <= m, Same(i)
      PROVE  Same(i + 1)
  <2>1. i + 1 \in 1..n /\ i + 1 \in 1..m /\ i + 1 - 1 = i /\ i + 1 # 0
    BY <1>3
  <2>2. rs[i + 1] = RecordAt(f, Ends(rs, i, o)) /\ ss[i + 1] = RecordAt(f, Ends(ss, i, o))
    BY <1>1, <2>1
  <2>3. rs[i + 1] = ss[i + 1]
    BY <1>3, <2>2
  <2> QED
    BY <2>1, <2>3 DEF Ends
<1> HIDE DEF Same
<1>4. Nat \subseteq P
  <2>1. 0 \in P
    BY <1>2
  <2>2. ASSUME NEW i \in Nat, i \in P
        PROVE  i + 1 \in P
    BY <1>3, <2>2
  <2> HIDE DEF P
  <2> QED
    BY <2>1, <2>2, NaturalInduction
<1> QED
  BY <1>4 DEF Same

\* So a chain from the beginning is what Records returns.
LEMMA ChainIsRecords ==
    ASSUME NEW f \in Seq(Nat), NEW rs, Chain(f, rs, 0)
    PROVE  Records(f) = rs
<1> PICK ss : ss = Records(f) /\ Chain(f, ss, 0)
  BY RecordsChain
<1> PICK n \in Nat, m \in Nat : /\ n = Len(rs) /\ DOMAIN rs = 1..n
                                /\ m = Len(ss) /\ DOMAIN ss = 1..m
  BY LenProperties DEF Chain
<1>1. \A i \in Nat : i <= n /\ i <= m =>
         (i # 0 => rs[i] = ss[i]) /\ Ends(rs, i, 0) = Ends(ss, i, 0)
  BY ChainsAgree
<1>2. /\ \A i \in 1..n : Fits(f, Ends(rs, i - 1, 0))
      /\ \A i \in 1..m : Fits(f, Ends(ss, i - 1, 0))
      /\ ~ Fits(f, Ends(rs, n, 0)) /\ ~ Fits(f, Ends(ss, m, 0))
      /\ rs \in Seq(Rec) /\ ss \in Seq(Rec)
  BY DEF Chain
<1>3. ~ (n < m)
  <2> SUFFICES ASSUME n < m
               PROVE  FALSE
    OBVIOUS
  <2>1. n + 1 \in 1..m /\ n + 1 - 1 = n
    OBVIOUS
  <2>2. Ends(rs, n, 0) = Ends(ss, n, 0)
    BY <1>1
  <2> QED
    BY <1>2, <2>1, <2>2
<1>4. ~ (m < n)
  <2> SUFFICES ASSUME m < n
               PROVE  FALSE
    OBVIOUS
  <2>1. m + 1 \in 1..n /\ m + 1 - 1 = m
    OBVIOUS
  <2>2. Ends(rs, m, 0) = Ends(ss, m, 0)
    BY <1>1
  <2> QED
    BY <1>2, <2>1, <2>2
<1>5. n = m
  BY <1>3, <1>4
<1>6. \A i \in 1..n : rs[i] = ss[i]
  BY <1>1, <1>5
<1>7. rs = ss
  BY <1>2, <1>5, <1>6, SeqEqual
<1> QED
  BY <1>7

-----------------------------------------------------------------------------
(* Appending to a log.                                                     *)

\* What a log holds is still there when it grows.
Grows(f, g) == Len(f) <= Len(g) /\ \A i \in 1..Len(f) : g[i] = f[i]

\* The bytes of a log that was appended to.
LEMMA GrownFacts ==
    ASSUME NEW f \in Seq(Nat), NEW x \in Seq(Nat)
    PROVE  /\ f \o x \in Seq(Nat)
           /\ Len(f \o x) = Len(f) + Len(x)
           /\ \A i \in 1..Len(f) : (f \o x)[i] = f[i]
           /\ \A i \in 1..Len(x) : (f \o x)[Len(f) + i] = x[i]
           /\ Grows(f, f \o x)
<1> PICK n \in Nat, m \in Nat : n = Len(f) /\ m = Len(x)
  BY LenProperties
<1>1. /\ f \o x \in Seq(Nat) /\ Len(f \o x) = n + m
      /\ \A i \in 1..(n + m) : (f \o x)[i] = IF i <= n THEN f[i] ELSE x[i - n]
  BY ConcatProperties
<1>2. \A i \in 1..n : i \in 1..(n + m) /\ i <= n
  OBVIOUS
<1>3. \A i \in 1..m : n + i \in 1..(n + m) /\ ~ (n + i <= n) /\ (n + i) - n = i
  OBVIOUS
<1>4. Len(f \o x) = n + m /\ \A i \in 1..n : (f \o x)[i] = f[i]
  BY <1>1, <1>2
<1>5. Grows(f, f \o x)
  BY <1>4 DEF Grows
<1> QED
  BY <1>1, <1>2, <1>3, <1>5

\* Two byte strings of one length with the same bytes.
SameBytes(s, t) ==
    /\ s \in Seq(Nat) /\ t \in Seq(Nat) /\ Len(s) = Len(t)
    /\ \A i \in 1..Len(s) : s[i] = t[i]

\* They are equal.
LEMMA BytesEqual ==
    ASSUME NEW s, NEW t, SameBytes(s, t)
    PROVE  s = t
<1>1. s \in Seq(Nat) /\ t \in Seq(Nat)
  BY DEF SameBytes
<1>2. Len(s) = Len(t) /\ \A i \in 1..Len(s) : s[i] = t[i]
  BY DEF SameBytes
<1> QED
  BY <1>1, <1>2, SeqEqual

\* A record found in a log is found in a longer one.
LEMMA GrownRecord ==
    ASSUME NEW f \in Seq(Nat), NEW g \in Seq(Nat), Grows(f, g),
           NEW o \in Nat, Fits(f, o)
    PROVE  Fits(g, o) /\ RecordAt(g, o) = RecordAt(f, o)
<1> PICK n \in Nat, m \in Nat : n = Len(f) /\ m = Len(g)
  BY LenProperties
<1>0. n <= m /\ \A i \in 1..n : g[i] = f[i]
  BY DEF Grows
<1>1. /\ KeyLen(f, o) \in Nat /\ ValLen(f, o) \in Nat
      /\ o + 3 <= n /\ o + 3 + KeyLen(f, o) <= n
  BY RecordAtFacts DEF Fits, headerSize
<1>2. o + 1 \in 1..n /\ o + 2 \in 1..n /\ o + 3 \in 1..n
  BY <1>1
<1>3. KeyLen(g, o) = KeyLen(f, o) /\ ValLen(g, o) = ValLen(f, o) /\ g[o + 1] = f[o + 1]
  BY <1>0, <1>2 DEF KeyLen, ValLen
<1>4. Fits(g, o)
  BY <1>0, <1>1, <1>3 DEF Fits, headerSize
<1>5. RecordAt(g, o).key = RecordAt(f, o).key
  <2>1. PICK k \in Nat : k = KeyLen(f, o)
    BY <1>1
  <2>a. PICK a \in Seq(Nat) : a = RecordAt(f, o).key /\ KeyIs(f, o, a)
    BY KeyFacts DEF KeyIs
  <2>b. PICK b \in Seq(Nat) : b = RecordAt(g, o).key /\ KeyIs(g, o, b)
    BY <1>4, KeyFacts DEF KeyIs
  <2>2. /\ Len(a) = k /\ \A i \in 1..k : a[i] = f[o + 3 + i]
        /\ Len(b) = k /\ \A i \in 1..k : b[i] = g[o + 3 + i]
    BY <1>3, <2>1, <2>a, <2>b DEF KeyIs
  <2>3. \A i \in 1..k : o + 3 + i \in 1..n /\ g[o + 3 + i] = f[o + 3 + i]
    <3>1. \A i \in 1..k : o + 3 + i \in 1..n
      BY <1>1, <2>1
    <3> QED
      BY <1>0, <3>1
  <2>4. \A i \in 1..k : a[i] = b[i]
    BY <2>2, <2>3
  <2>5. a = b
    <3>1. SameBytes(a, b)
      BY <2>2, <2>4, <2>a, <2>b DEF SameBytes
    <3> QED
      BY <3>1, BytesEqual
  <2> QED
    BY <2>5, <2>a, <2>b
<1> QED
  BY <1>3, <1>4, <1>5 DEF RecordAt

-----------------------------------------------------------------------------
(* The index of a log.                                                     *)

\* A chain from the beginning, record by record.
LEMMA ChainFacts ==
    ASSUME NEW f \in Seq(Nat), NEW rs, Chain(f, rs, 0)
    PROVE  /\ Len(rs) \in Nat /\ DOMAIN rs = 1..Len(rs)
           /\ \A i \in 0..Len(rs) : Ends(rs, i, 0) \in Nat
           /\ \A i \in 1..Len(rs) :
                /\ rs[i].offset \in Nat /\ Fits(f, rs[i].offset)
                /\ rs[i] = RecordAt(f, rs[i].offset)
                /\ rs[i].offset = Ends(rs, i - 1, 0)
                /\ i < Len(rs) => rs[i].offset + rs[i].size <= Len(f)
<1> PICK n \in Nat : n = Len(rs) /\ DOMAIN rs = 1..n
  BY LenProperties DEF Chain
<1>1. \A i \in 1..n : rs[i].offset \in Nat /\ rs[i].size \in Nat
  <2>1. \A i \in 1..n : rs[i] \in Rec
    BY ElementOfSeq DEF Chain
  <2> QED
    BY <2>1 DEF Rec
<1>2. \A i \in 0..n : Ends(rs, i, 0) \in Nat
  <2> SUFFICES ASSUME NEW i \in 0..n
               PROVE  Ends(rs, i, 0) \in Nat
    OBVIOUS
  <2>1. CASE i = 0
    BY <2>1 DEF Ends
  <2>2. CASE i # 0
    <3>1. i \in 1..n
      BY <2>2
    <3>2. rs[i].offset \in Nat /\ rs[i].size \in Nat
      BY <1>1, <3>1
    <3>3. rs[i].offset + rs[i].size \in Nat
      BY <3>2
    <3> QED
      BY <2>2, <3>3 DEF Ends
  <2> QED
    BY <2>1, <2>2
<1>3. \A i \in 1..n : Fits(f, Ends(rs, i - 1, 0)) /\ rs[i] = RecordAt(f, Ends(rs, i - 1, 0))
  BY DEF Chain
<1>4. ASSUME NEW i \in 1..n
      PROVE  rs[i].offset = Ends(rs, i - 1, 0)
  <2>1. PICK o \in Nat : o = Ends(rs, i - 1, 0)
    <3>1. i - 1 \in 0..n
      OBVIOUS
    <3> QED
      BY <1>2, <3>1
  <2>2. Fits(f, o) /\ rs[i] = RecordAt(f, o)
    BY <1>3, <2>1
  <2> QED
    BY <2>1, <2>2, RecordAtFacts
<1>5. ASSUME NEW i \in 1..n, i < n
      PROVE  rs[i].offset + rs[i].size <= Len(f)
  <2>1. i + 1 \in 1..n /\ i + 1 - 1 = i /\ i # 0 /\ i \in 0..n
    BY <1>5
  <2>2. PICK o \in Nat : o = Ends(rs, i, 0)
    BY <1>2, <2>1
  <2>3. Fits(f, o)
    BY <1>3, <2>1, <2>2
  <2>4. o <= Len(f)
    BY <2>3, LenProperties DEF Fits, headerSize
  <2>5. o = rs[i].offset + rs[i].size
    BY <2>1, <2>2 DEF Ends
  <2> QED
    BY <2>4, <2>5
<1> QED
  BY <1>1, <1>2, <1>3, <1>4, <1>5

\* What Load makes of the records.
LoadOf(records) ==
    LET last    == {i \in DOMAIN records :
                       \A j \in DOMAIN records : j > i => records[j].key # records[i].key}
        puts    == {i \in last : records[i].type = typePut}
        at(key) == CHOOSE i \in puts : records[i].key = key
    IN  [key \in {records[i].key : i \in puts} |->
            [offset |-> records[at(key)].offset, size |-> records[at(key)].size]]

\* The last record of a key.
Latest(rs, key, i) ==
    /\ i \in DOMAIN rs /\ rs[i].key = key
    /\ \A j \in DOMAIN rs : j > i => rs[j].key # key

\* An index in which the last record of each key decides.
LatestDecides(rs, idx) ==
    /\ \A key : key \in DOMAIN idx <=> \E i : Latest(rs, key, i) /\ rs[i].type = typePut
    /\ \A key, i : Latest(rs, key, i) /\ rs[i].type = typePut =>
          idx[key].offset = rs[i].offset /\ idx[key].size = rs[i].size

\* Load builds such an index from the records.
LEMMA LoadOfFacts ==
    ASSUME NEW rs, DOMAIN rs \subseteq Nat
    PROVE  LatestDecides(rs, LoadOf(rs))
<1> DEFINE last == {i \in DOMAIN rs : \A j \in DOMAIN rs : j > i => rs[j].key # rs[i].key}
           puts == {i \in last : rs[i].type = typePut}
           at(key) == CHOOSE i \in puts : rs[i].key = key
           D == {rs[i].key : i \in puts}
<1>1. LoadOf(rs) = [key \in D |-> [offset |-> rs[at(key)].offset, size |-> rs[at(key)].size]]
  BY DEF LoadOf
<1>2. \A key, i : (i \in puts /\ rs[i].key = key) <=> (Latest(rs, key, i) /\ rs[i].type = typePut)
  BY DEF Latest
<1>3. ASSUME NEW key, NEW i, i \in puts, rs[i].key = key
      PROVE  at(key) = i
  <2>1. at(key) \in puts /\ rs[at(key)].key = key
    BY <1>3
  <2>2. \A j \in puts : rs[j].key = key => j = i
    <3>1. ASSUME NEW j \in puts, rs[j].key = key
          PROVE  j = i
      <4>1. i \in Nat /\ j \in Nat /\ i \in DOMAIN rs /\ j \in DOMAIN rs
        BY <1>3, <3>1
      <4>2. ~ (j > i) /\ ~ (i > j)
        BY <1>3, <3>1, <4>1
      <4> QED
        BY <4>1, <4>2
    <3> QED
      BY <3>1
  <2> QED
    BY <2>1, <2>2
<1>4. \A key, i : (i \in puts /\ rs[i].key = key) => key \in D
  OBVIOUS
<1>5. \A key \in D : \E i \in puts : rs[i].key = key
  OBVIOUS
<1>6. DOMAIN LoadOf(rs) = D
  BY <1>1
<1>7. ASSUME NEW key, NEW i, i \in puts, rs[i].key = key
      PROVE  LoadOf(rs)[key].offset = rs[i].offset /\ LoadOf(rs)[key].size = rs[i].size
  <2>1. key \in D
    BY <1>4, <1>7
  <2>2. at(key) = i
    BY <1>3, <1>7
  <2> HIDE DEF puts, D, at
  <2>3. LoadOf(rs)[key] = [offset |-> rs[at(key)].offset, size |-> rs[at(key)].size]
    BY <1>1, <2>1
  <2>4. LoadOf(rs)[key] = [offset |-> rs[i].offset, size |-> rs[i].size]
    BY <2>2, <2>3
  <2> QED
    BY <2>4
<1> HIDE DEF puts, D
<1> QED
  BY <1>2, <1>4, <1>5, <1>6, <1>7 DEF LatestDecides

\* Load depends on the records only.
LEMMA LoadIs ==
    ASSUME NEW f
    PROVE  Load(f) = LoadOf(Records(f))
BY DEF Load, LoadOf

\* An entry that starts at a whole header and key of a Put, and ends where its
\* header says.
Sound(f, e, key) ==
    /\ e.offset \in Nat /\ e.size \in Nat
    /\ e.offset + headerSize + Len(key) <= Len(f)
    /\ f[e.offset + 1] = typePut
    /\ KeyLen(f, e.offset) = Len(key)
    /\ e.size = headerSize + Len(key) + ValLen(f, e.offset)

SoundIndex(f, idx) ==
    /\ IsFiniteSet(DOMAIN idx) /\ DOMAIN idx \subseteq Seq(Nat)
    /\ \A key \in DOMAIN idx : Sound(f, idx[key], key)

\* New builds such an index, of whatever log.
LEMMA LoadSound ==
    ASSUME NEW f \in Seq(Nat)
    PROVE  SoundIndex(f, Load(f))
<1> PICK rs : rs = Records(f) /\ Chain(f, rs, 0)
  BY RecordsChain
<1> PICK n \in Nat : n = Len(rs) /\ DOMAIN rs = 1..n
  BY ChainFacts
<1>1. Load(f) = LoadOf(rs)
  BY LoadIs
<1>2. DOMAIN rs \subseteq Nat
  OBVIOUS
<1>3. ASSUME NEW key \in DOMAIN Load(f)
      PROVE  \E i \in 1..n : /\ rs[i].key = key /\ rs[i].type = typePut
                             /\ Load(f)[key].offset = rs[i].offset
                             /\ Load(f)[key].size = rs[i].size
  BY <1>1, <1>2, <1>3, LoadOfFacts DEF LatestDecides, Latest
<1>4. ASSUME NEW i \in 1..n
      PROVE  /\ rs[i].key \in Seq(Nat) /\ rs[i].offset \in Nat /\ rs[i].size \in Nat
             /\ rs[i].offset + headerSize + Len(rs[i].key) <= Len(f)
             /\ rs[i].type = f[rs[i].offset + 1]
             /\ KeyLen(f, rs[i].offset) = Len(rs[i].key)
             /\ rs[i].size = headerSize + Len(rs[i].key) + ValLen(f, rs[i].offset)
  <2>1. PICK o \in Nat : o = rs[i].offset /\ Fits(f, o) /\ rs[i] = RecordAt(f, o)
    BY ChainFacts
  <2>2. /\ RecordAt(f, o) \in Rec
        /\ RecordAt(f, o).type = f[o + 1]
        /\ Len(RecordAt(f, o).key) = KeyLen(f, o)
        /\ RecordAt(f, o).size = headerSize + KeyLen(f, o) + ValLen(f, o)
    BY <2>1, RecordAtFacts
  <2>3. o + headerSize + KeyLen(f, o) <= Len(f)
    BY <2>1 DEF Fits
  <2>4. RecordAt(f, o).key \in Seq(Nat) /\ RecordAt(f, o).size \in Nat
    BY <2>2 DEF Rec
  <2> QED
    BY <2>1, <2>2, <2>3, <2>4
<1>5. ASSUME NEW key \in DOMAIN Load(f)
      PROVE  key \in Seq(Nat) /\ Sound(f, Load(f)[key], key)
  <2>1. PICK i \in 1..n : /\ rs[i].key = key /\ rs[i].type = typePut
                          /\ Load(f)[key].offset = rs[i].offset
                          /\ Load(f)[key].size = rs[i].size
    BY <1>3
  <2> QED
    BY <1>4, <2>1 DEF Sound
<1>6. IsFiniteSet(DOMAIN Load(f))
  <2> DEFINE K == {rs[i].key : i \in 1..n}
  <2>1. IsFiniteSet(1..n)
    BY FS_Interval
  <2>2. IsFiniteSet(K)
    <3> DEFINE g == [i \in 1..n |-> rs[i].key]
    <3>1. g \in Surjection(1..n, K)
      BY DEF Surjection
    <3> HIDE DEF g, K
    <3> QED
      BY <2>1, <3>1, FS_Surjection
  <2>3. DOMAIN Load(f) \subseteq K
    BY <1>3
  <2> HIDE DEF K
  <2> QED
    BY <2>2, <2>3, FS_Subset
<1> QED
  BY <1>5, <1>6 DEF SoundIndex

\* A log that ends with the last record, value included.
Whole(f) == Ends(Records(f), Len(Records(f)), 0) = Len(f)

\* Then every entry of its index ends in it.
LEMMA WholeFacts ==
    ASSUME NEW f \in Seq(Nat), Whole(f), NEW key \in DOMAIN Load(f)
    PROVE  Load(f)[key].offset + Load(f)[key].size <= Len(f)
<1> PICK rs : rs = Records(f) /\ Chain(f, rs, 0)
  BY RecordsChain
<1> PICK n \in Nat : n = Len(rs) /\ DOMAIN rs = 1..n
  BY ChainFacts
<1>1. Load(f) = LoadOf(rs) /\ DOMAIN rs \subseteq Nat
  BY LoadIs
<1>2. PICK i \in 1..n : /\ Load(f)[key].offset = rs[i].offset
                        /\ Load(f)[key].size = rs[i].size
  BY <1>1, LoadOfFacts DEF LatestDecides, Latest
<1>3. CASE i < n
  BY <1>2, <1>3, ChainFacts
<1>4. CASE ~ (i < n)
  <2>1. i = n /\ i # 0
    BY <1>4
  <2>2. rs[i].offset + rs[i].size = Len(f)
    BY <2>1 DEF Ends, Whole
  <2>3. Len(f) \in Nat
    BY LenProperties
  <2> QED
    BY <1>2, <2>2, <2>3
<1> QED
  BY <1>3, <1>4

-----------------------------------------------------------------------------
(* Records behind a whole log.                                             *)

\* What is found where the appended bytes start is what they hold by themselves.
LEMMA ShiftFacts ==
    ASSUME NEW f \in Seq(Nat), NEW x \in Seq(Nat)
    PROVE  /\ Fits(f \o x, Len(f)) <=> Fits(x, 0)
           /\ Fits(x, 0) => /\ RecordAt(f \o x, Len(f)) \in Rec
                            /\ RecordAt(f \o x, Len(f)).type = RecordAt(x, 0).type
                            /\ RecordAt(f \o x, Len(f)).key = RecordAt(x, 0).key
                            /\ RecordAt(f \o x, Len(f)).offset = Len(f)
                            /\ RecordAt(f \o x, Len(f)).size = RecordAt(x, 0).size
<1> PICK n \in Nat, m \in Nat : n = Len(f) /\ m = Len(x)
  BY LenProperties
<1>g. PICK g : g = f \o x
  OBVIOUS
<1>h. g \in Seq(Nat)
  BY <1>g, GrownFacts
<1>1. Len(g) = n + m /\ \A i \in 1..m : g[n + i] = x[i]
  BY <1>g, GrownFacts
<1>2. ASSUME 3 <= m
      PROVE  g[n + 1] = x[0 + 1] /\ KeyLen(g, n) = KeyLen(x, 0) /\ ValLen(g, n) = ValLen(x, 0)
  <2>1. 1 \in 1..m /\ 2 \in 1..m /\ 3 \in 1..m /\ 0 + 1 = 1 /\ 0 + 2 = 2 /\ 0 + 3 = 3
    BY <1>2
  <2>2. g[n + 1] = x[1] /\ g[n + 2] = x[2] /\ g[n + 3] = x[3]
    BY <1>1, <2>1
  <2> QED
    BY <2>1, <2>2 DEF KeyLen, ValLen
<1>3. ASSUME 3 <= m
      PROVE  KeyLen(x, 0) \in Nat
  <2>1. 2 \in 1..m /\ 0 + 2 = 2
    BY <1>3
  <2> QED
    BY <2>1, ElementOfSeq DEF KeyLen
<1>4. Fits(g, n) <=> Fits(x, 0)
  <2>1. (n + 3 <= n + m) <=> (0 + 3 <= m)
    OBVIOUS
  <2>2. ASSUME 3 <= m
        PROVE  (n + 3 + KeyLen(g, n) <= n + m) <=> (0 + 3 + KeyLen(x, 0) <= m)
    BY <1>2, <1>3, <2>2
  <2> QED
    BY <1>1, <2>1, <2>2 DEF Fits, headerSize
<1>5. ASSUME Fits(x, 0)
      PROVE  /\ RecordAt(g, n) \in Rec
             /\ RecordAt(g, n).type = RecordAt(x, 0).type
             /\ RecordAt(g, n).key = RecordAt(x, 0).key
             /\ RecordAt(g, n).offset = n
             /\ RecordAt(g, n).size = RecordAt(x, 0).size
  <2>1. Fits(g, n) /\ 3 <= m
    BY <1>4, <1>5 DEF Fits, headerSize
  <2>2. PICK k \in Nat : k = KeyLen(x, 0)
    BY <1>3, <2>1
  <2>3. KeyLen(g, n) = k /\ 3 + k <= m
    BY <1>2, <1>5, <2>1, <2>2 DEF Fits, headerSize
  <2>g. g \in Seq(Nat) /\ n \in Nat
    BY <1>h
  <2>4. PICK a : a = RecordAt(x, 0).key /\ KeyIs(x, 0, a)
    BY <1>5, KeyFacts
  <2>5. PICK b : b = RecordAt(g, n).key /\ KeyIs(g, n, b)
    <3>1. KeyIs(g, n, RecordAt(g, n).key)
      BY <2>g, <2>1, KeyFacts
    <3> QED
      BY <3>1
  <2>6. \A i \in 1..k : g[n + 3 + i] = x[0 + 3 + i]
    <3>1. \A i \in 1..k : 3 + i \in 1..m /\ n + 3 + i = n + (3 + i) /\ 0 + 3 + i = 3 + i
      BY <2>3
    <3> QED
      BY <1>1, <3>1
  <2>7. SameBytes(a, b)
    <3>1. a \in Seq(Nat) /\ Len(a) = k /\ \A i \in 1..k : a[i] = x[0 + 3 + i]
      BY <2>2, <2>4 DEF KeyIs
    <3>2. b \in Seq(Nat) /\ Len(b) = k /\ \A i \in 1..k : b[i] = g[n + 3 + i]
      BY <2>3, <2>5 DEF KeyIs
    <3> QED
      BY <2>6, <3>1, <3>2 DEF SameBytes
  <2>8. a = b
    BY <2>7, BytesEqual
  <2>9. RecordAt(g, n).type = RecordAt(x, 0).type /\ RecordAt(g, n).size = RecordAt(x, 0).size
    BY <1>2, <2>1 DEF RecordAt
  <2> QED
    BY <2>1, <2>4, <2>5, <2>8, <2>9, <2>g, RecordAtFacts
<1> QED
  BY <1>4, <1>5, <1>g

\* The same of one record of a chain.
LEMMA ChainParts ==
    ASSUME NEW f \in Seq(Nat), NEW rs, Chain(f, rs, 0), NEW i \in 1..Len(rs)
    PROVE  \E o \in Nat : o = Ends(rs, i - 1, 0) /\ Fits(f, o) /\ rs[i] = RecordAt(f, o)
<1>1. PICK o : o = rs[i].offset
  OBVIOUS
<1>2. o \in Nat /\ Fits(f, o) /\ rs[i] = RecordAt(f, o) /\ o = Ends(rs, i - 1, 0)
  BY <1>1, ChainFacts
<1> QED
  BY <1>2

\* Bytes behind a whole log that are too short for a header and key are not found.
LEMMA ShortTail ==
    ASSUME NEW f \in Seq(Nat), NEW x \in Seq(Nat), Whole(f), ~ Fits(x, 0)
    PROVE  Records(f \o x) = Records(f)
<1> PICK rs : rs = Records(f) /\ Chain(f, rs, 0)
  BY RecordsChain
<1> PICK n \in Nat : n = Len(rs) /\ DOMAIN rs = 1..n
  BY ChainFacts
<1>g. PICK g : g = f \o x
  OBVIOUS
<1>1. g \in Seq(Nat) /\ Grows(f, g)
  BY <1>g, GrownFacts
<1>2. ASSUME NEW i \in 1..n
      PROVE  Fits(g, Ends(rs, i - 1, 0)) /\ rs[i] = RecordAt(g, Ends(rs, i - 1, 0))
  <2>1. PICK o \in Nat : o = Ends(rs, i - 1, 0) /\ Fits(f, o) /\ rs[i] = RecordAt(f, o)
    BY ChainParts
  <2>2. Fits(g, o) /\ RecordAt(g, o) = RecordAt(f, o)
    BY <1>1, <2>1, GrownRecord
  <2> QED
    BY <2>1, <2>2
<1>3. ~ Fits(g, Ends(rs, n, 0))
  <2>1. Ends(rs, n, 0) = Len(f)
    BY DEF Whole
  <2> QED
    BY <1>g, <2>1, ShiftFacts
<1>4. Chain(g, rs, 0)
  BY <1>2, <1>3 DEF Chain
<1>5. Records(g) = rs
  BY <1>1, <1>4, ChainIsRecords
<1> QED
  BY <1>5, <1>g

\* Bytes behind a whole log that hold a header and key, and no more than one
\* record, are found as one record more.
LEMMA OneMore ==
    ASSUME NEW f \in Seq(Nat), NEW x \in Seq(Nat), Whole(f), Fits(x, 0),
           RecordAt(x, 0).size >= Len(x)
    PROVE  /\ Records(f \o x) = Append(Records(f), RecordAt(f \o x, Len(f)))
           /\ RecordAt(x, 0).size = Len(x) => Whole(f \o x)
<1> PICK rs \in Seq(Rec) : rs = Records(f) /\ Chain(f, rs, 0)
  BY RecordsChain DEF Chain
<1> PICK n \in Nat : n = Len(rs) /\ DOMAIN rs = 1..n
  BY ChainFacts
<1> PICK l \in Nat, m \in Nat : l = Len(f) /\ m = Len(x)
  BY LenProperties
<1>g. PICK g : g = f \o x
  OBVIOUS
<1>1. g \in Seq(Nat) /\ Len(g) = l + m /\ Grows(f, g)
  BY <1>g, GrownFacts
<1>2. PICK r \in Rec : r = RecordAt(g, l) /\ r.offset = l /\ r.size = RecordAt(x, 0).size
  BY <1>g, ShiftFacts
<1>3. Fits(g, l) /\ r.size \in Nat /\ r.size >= m
  BY <1>g, <1>2, ShiftFacts DEF Rec
<1>4. PICK ss \in Seq(Rec) : ss = Append(rs, r)
  BY AppendFacts
<1>5. /\ Len(ss) = n + 1 /\ DOMAIN ss = 1..(n + 1)
      /\ \A i \in 1..n : ss[i] = rs[i]
      /\ ss[n + 1] = r
  BY <1>4, AppendFacts
<1>6. \A i \in 0..n : Ends(ss, i, 0) = Ends(rs, i, 0)
  <2>1. \A i \in 0..n : i # 0 => i \in 1..n
    OBVIOUS
  <2> QED
    BY <1>5, <2>1 DEF Ends
<1>7. Ends(rs, n, 0) = l
  BY DEF Whole
<1>8. ASSUME NEW i \in 1..(n + 1)
      PROVE  Fits(g, Ends(ss, i - 1, 0)) /\ ss[i] = RecordAt(g, Ends(ss, i - 1, 0))
  <2>1. Ends(ss, i - 1, 0) = Ends(rs, i - 1, 0)
    <3>1. i - 1 \in 0..n
      OBVIOUS
    <3> QED
      BY <1>6, <3>1
  <2>2. CASE i = n + 1
    <3>1. i - 1 = n
      BY <2>2
    <3> QED
      BY <1>2, <1>3, <1>5, <1>7, <2>1, <2>2, <3>1
  <2>3. CASE i # n + 1
    <3>1. i \in 1..n
      BY <2>3
    <3>2. PICK o \in Nat : o = Ends(rs, i - 1, 0) /\ Fits(f, o) /\ rs[i] = RecordAt(f, o)
      BY <3>1, ChainParts
    <3>3. Fits(g, o) /\ RecordAt(g, o) = RecordAt(f, o)
      BY <1>1, <3>2, GrownRecord
    <3> QED
      BY <1>5, <2>1, <3>1, <3>2, <3>3
  <2> QED
    BY <2>2, <2>3
<1>9. Ends(ss, n + 1, 0) = l + r.size
  BY <1>2, <1>5 DEF Ends
<1>10. ~ Fits(g, Ends(ss, n + 1, 0))
  <2>1. ~ (l + r.size + 3 <= l + m)
    BY <1>3
  <2> QED
    BY <1>1, <1>9, <2>1 DEF Fits, headerSize
<1>11. Chain(g, ss, 0)
  BY <1>5, <1>8, <1>10 DEF Chain
<1>12. Records(g) = ss
  BY <1>1, <1>11, ChainIsRecords
<1>13. RecordAt(x, 0).size = m => Whole(g)
  BY <1>1, <1>2, <1>5, <1>9, <1>12 DEF Whole
<1> QED
  BY <1>g, <1>2, <1>4, <1>12, <1>13

\* The same answer about a key in two indexes.
SameEntry(a, b, key) ==
    /\ key \in DOMAIN a <=> key \in DOMAIN b
    /\ key \in DOMAIN a => a[key].offset = b[key].offset /\ a[key].size = b[key].size

\* One record more decides about its key and no other.
LEMMA LoadOfAppend ==
    ASSUME NEW rs \in Seq(Rec), NEW r \in Rec
    PROVE  /\ \A key : key # r.key => SameEntry(LoadOf(Append(rs, r)), LoadOf(rs), key)
           /\ r.key \in DOMAIN LoadOf(Append(rs, r)) <=> r.type = typePut
           /\ r.type = typePut => /\ LoadOf(Append(rs, r))[r.key].offset = r.offset
                                  /\ LoadOf(Append(rs, r))[r.key].size = r.size
<1> PICK n \in Nat : n = Len(rs) /\ DOMAIN rs = 1..n
  BY LenProperties
<1> PICK ss : ss = Append(rs, r)
  OBVIOUS
<1>1. /\ DOMAIN ss = 1..(n + 1)
      /\ \A i \in 1..n : ss[i] = rs[i]
      /\ ss[n + 1] = r
  BY AppendFacts
<1>2. DOMAIN rs \subseteq Nat /\ DOMAIN ss \subseteq Nat
  BY <1>1
<1>3. ASSUME NEW key, key # r.key, NEW i
      PROVE  Latest(ss, key, i) <=> Latest(rs, key, i)
  <2>1. ASSUME Latest(ss, key, i)
        PROVE  Latest(rs, key, i)
    <3>1. i \in 1..n
      <4>1. i \in 1..(n + 1) /\ i # n + 1
        BY <1>1, <1>3, <2>1 DEF Latest
      <4> QED
        BY <4>1
    <3>2. rs[i].key = key
      BY <1>1, <2>1, <3>1 DEF Latest
    <3>3. ASSUME NEW j \in 1..n, j > i
          PROVE  rs[j].key # key
      <4>1. j \in 1..(n + 1)
        OBVIOUS
      <4> QED
        BY <1>1, <2>1, <3>3, <4>1 DEF Latest
    <3> QED
      BY <3>1, <3>2, <3>3 DEF Latest
  <2>2. ASSUME Latest(rs, key, i)
        PROVE  Latest(ss, key, i)
    <3>1. i \in 1..n /\ i \in 1..(n + 1)
      BY <2>2 DEF Latest
    <3>2. ss[i].key = key
      BY <1>1, <2>2, <3>1 DEF Latest
    <3>3. ASSUME NEW j \in 1..(n + 1), j > i
          PROVE  ss[j].key # key
      <4>1. CASE j = n + 1
        BY <1>1, <1>3, <4>1
      <4>2. CASE j # n + 1
        <5>1. j \in 1..n
          BY <4>2
        <5> QED
          BY <1>1, <2>2, <3>3, <5>1 DEF Latest
      <4> QED
        BY <4>1, <4>2
    <3> QED
      BY <1>1, <3>1, <3>2, <3>3 DEF Latest
  <2> QED
    BY <2>1, <2>2
<1>4. ASSUME NEW i
      PROVE  Latest(ss, r.key, i) <=> i = n + 1
  <2>1. n + 1 \in 1..(n + 1) /\ \A j \in 1..(n + 1) : ~ (j > n + 1)
    OBVIOUS
  <2>2. Latest(ss, r.key, n + 1)
    BY <1>1, <2>1 DEF Latest
  <2>3. ASSUME i \in 1..(n + 1), i # n + 1
        PROVE  ~ Latest(ss, r.key, i)
    <3>1. n + 1 > i
      BY <2>3
    <3> QED
      BY <1>1, <2>1, <3>1 DEF Latest
  <2>4. Latest(ss, r.key, i) => i \in 1..(n + 1)
    BY <1>1 DEF Latest
  <2> QED
    BY <2>2, <2>3, <2>4
<1> PICK a, b : a = LoadOf(rs) /\ b = LoadOf(ss)
  OBVIOUS
<1>5. LatestDecides(rs, a)
  BY <1>2, LoadOfFacts
<1>6. LatestDecides(ss, b)
  BY <1>2, LoadOfFacts
<1>7. ASSUME NEW key, key # r.key
      PROVE  SameEntry(b, a, key)
  <2>1. \A i : Latest(ss, key, i) => i \in 1..n /\ ss[i] = rs[i]
    BY <1>1, <1>3, <1>7 DEF Latest
  <2>2. \A i : (Latest(ss, key, i) /\ ss[i].type = typePut) <=> (Latest(rs, key, i) /\ rs[i].type = typePut)
    <3> SUFFICES ASSUME NEW i
                 PROVE  (Latest(ss, key, i) /\ ss[i].type = typePut) <=> (Latest(rs, key, i) /\ rs[i].type = typePut)
      OBVIOUS
    <3>1. Latest(ss, key, i) <=> Latest(rs, key, i)
      BY <1>3, <1>7
    <3>2. Latest(ss, key, i) => ss[i] = rs[i]
      BY <2>1
    <3> QED
      BY <3>1, <3>2
  <2>3. key \in DOMAIN b <=> key \in DOMAIN a
    <3>1. key \in DOMAIN b <=> \E i : Latest(ss, key, i) /\ ss[i].type = typePut
      BY <1>6 DEF LatestDecides
    <3>2. key \in DOMAIN a <=> \E i : Latest(rs, key, i) /\ rs[i].type = typePut
      BY <1>5 DEF LatestDecides
    <3> QED
      BY <2>2, <3>1, <3>2
  <2>4. ASSUME key \in DOMAIN b
        PROVE  b[key].offset = a[key].offset /\ b[key].size = a[key].size
    <3>1. PICK i : Latest(ss, key, i) /\ ss[i].type = typePut
      BY <1>6, <2>4 DEF LatestDecides
    <3>2. b[key].offset = ss[i].offset /\ b[key].size = ss[i].size
      BY <1>6, <3>1 DEF LatestDecides
    <3>3. a[key].offset = rs[i].offset /\ a[key].size = rs[i].size
      BY <1>5, <2>2, <3>1 DEF LatestDecides
    <3> QED
      BY <2>1, <3>1, <3>2, <3>3
  <2> QED
    BY <2>3, <2>4 DEF SameEntry
<1>8. r.key \in DOMAIN b <=> r.type = typePut
  BY <1>1, <1>4, <1>6 DEF LatestDecides
<1>9. r.type = typePut => b[r.key].offset = r.offset /\ b[r.key].size = r.size
  BY <1>1, <1>4, <1>6 DEF LatestDecides
<1> QED
  BY <1>7, <1>8, <1>9

-----------------------------------------------------------------------------
(* Reading a record back.                                                  *)

\* The bytes that a Put or a Delete writes.
RecordIs(r, type, key, value) ==
    /\ r \in Seq(Nat)
    /\ Len(r) = 3 + Len(key) + Len(value)
    /\ r[1] = type /\ r[2] = Len(key) /\ r[3] = Len(value)
    /\ \A i \in 1..Len(key) : r[3 + i] = key[i]
    /\ \A i \in 1..Len(value) : r[3 + Len(key) + i] = value[i]

\* They are the header, the key and the value, one behind the other.
LEMMA RecordMade ==
    ASSUME NEW type \in Nat, NEW key \in Seq(Nat), NEW value \in Seq(Nat)
    PROVE  RecordIs(Record(type, key, value), type, key, value)
<1>0. PICK k \in Nat, l \in Nat : k = Len(key) /\ l = Len(value)
  BY LenProperties
<1>t. k \in Nat /\ l \in Nat
  BY <1>0
<1>1. PICK header : header = <<type, k, l>>
  OBVIOUS
<1>2. /\ header \in Seq(Nat) /\ Len(header) = 3
      /\ header[1] = type /\ header[2] = k /\ header[3] = l
  BY <1>1, <1>t
<1>h. header \in Seq(Nat)
  BY <1>2
<1>c. /\ header \o key \in Seq(Nat) /\ Len(header \o key) = Len(header) + Len(key)
      /\ \A i \in 1..(Len(header) + Len(key)) :
            (header \o key)[i] = IF i <= Len(header) THEN header[i] ELSE key[i - Len(header)]
  BY <1>h, ConcatProperties
<1>3. PICK hk : hk = header \o key
  OBVIOUS
<1>4. /\ hk \in Seq(Nat) /\ Len(hk) = 3 + k
      /\ \A i \in 1..(3 + k) : hk[i] = IF i <= 3 THEN header[i] ELSE key[i - 3]
  BY <1>0, <1>2, <1>3, <1>c
<1>k. hk \in Seq(Nat)
  BY <1>4
<1>d. /\ hk \o value \in Seq(Nat) /\ Len(hk \o value) = Len(hk) + Len(value)
      /\ \A i \in 1..(Len(hk) + Len(value)) :
            (hk \o value)[i] = IF i <= Len(hk) THEN hk[i] ELSE value[i - Len(hk)]
  BY <1>k, ConcatProperties
<1>5. PICK r : r = hk \o value
  OBVIOUS
<1>6. /\ r \in Seq(Nat) /\ Len(r) = 3 + k + l
      /\ \A i \in 1..(3 + k + l) : r[i] = IF i <= 3 + k THEN hk[i] ELSE value[i - (3 + k)]
  BY <1>0, <1>4, <1>5, <1>d
<1>7. r = Record(type, key, value)
  BY <1>0, <1>1, <1>3, <1>5 DEF Record
<1>8. \A i \in 1..3 : r[i] = header[i]
  <2>1. \A i \in 1..3 : i \in 1..(3 + k) /\ i \in 1..(3 + k + l) /\ i <= 3 /\ i <= 3 + k
    BY <1>t
  <2> QED
    BY <1>4, <1>6, <2>1
<1>9. \A i \in 1..k : r[3 + i] = key[i]
  <2>1. \A i \in 1..k : /\ 3 + i \in 1..(3 + k) /\ 3 + i \in 1..(3 + k + l)
                        /\ ~ (3 + i <= 3) /\ 3 + i <= 3 + k /\ (3 + i) - 3 = i
    BY <1>t
  <2> QED
    BY <1>4, <1>6, <2>1
<1>10. \A i \in 1..l : r[3 + k + i] = value[i]
  <2>1. \A i \in 1..l : /\ 3 + k + i \in 1..(3 + k + l)
                        /\ ~ (3 + k + i <= 3 + k) /\ (3 + k + i) - (3 + k) = i
    BY <1>t
  <2> QED
    BY <1>6, <2>1
<1>11. 1 \in 1..3 /\ 2 \in 1..3 /\ 3 \in 1..3
  OBVIOUS
<1>12. r[1] = type /\ r[2] = k /\ r[3] = l
  BY <1>2, <1>8, <1>11
<1>13. RecordIs(r, type, key, value)
  BY <1>0, <1>6, <1>9, <1>10, <1>12 DEF RecordIs
<1> QED
  BY <1>7, <1>13

\* The same, said of the record itself.
LEMMA RecordFacts ==
    ASSUME NEW type \in Nat, NEW key \in Seq(Nat), NEW value \in Seq(Nat)
    PROVE  /\ Record(type, key, value) \in Seq(Nat)
           /\ Len(Record(type, key, value)) = 3 + Len(key) + Len(value)
           /\ Record(type, key, value)[1] = type
           /\ Record(type, key, value)[2] = Len(key)
           /\ Record(type, key, value)[3] = Len(value)
           /\ \A i \in 1..Len(key) : Record(type, key, value)[3 + i] = key[i]
           /\ \A i \in 1..Len(value) : Record(type, key, value)[3 + Len(key) + i] = value[i]
<1>1. RecordIs(Record(type, key, value), type, key, value)
  BY RecordMade
<1> QED
  BY <1>1 DEF RecordIs

\* What New reads of a file with only this record.
WholeRecord(r, type, key) ==
    /\ Fits(r, 0)
    /\ RecordAt(r, 0).type = type /\ RecordAt(r, 0).key = key
    /\ RecordAt(r, 0).size = Len(r)

\* By itself, a record is one whole record.
LEMMA RecordFits ==
    ASSUME NEW type \in Nat, NEW key \in Seq(Nat), NEW value \in Seq(Nat)
    PROVE  WholeRecord(Record(type, key, value), type, key)
<1>0. PICK k \in Nat, l \in Nat : k = Len(key) /\ l = Len(value)
  BY LenProperties
<1>t. k \in Nat /\ l \in Nat
  BY <1>0
<1>1. PICK r : r = Record(type, key, value)
  OBVIOUS
<1>2. /\ r \in Seq(Nat) /\ Len(r) = 3 + k + l /\ r[1] = type /\ r[2] = k /\ r[3] = l
      /\ \A i \in 1..k : r[3 + i] = key[i]
  <2>1. RecordIs(Record(type, key, value), type, key, value)
    BY RecordMade
  <2>2. RecordIs(r, type, key, value)
    BY <1>1, <2>1
  <2> QED
    BY <1>0, <2>2 DEF RecordIs
<1>3. 0 + 1 = 1 /\ 0 + 2 = 2 /\ 0 + 3 = 3 /\ headerSize = 3
  BY DEF headerSize
<1>4. KeyLen(r, 0) = k /\ ValLen(r, 0) = l
  BY <1>2, <1>3 DEF KeyLen, ValLen
<1>5. Fits(r, 0)
  BY <1>2, <1>3, <1>4, <1>t DEF Fits
<1>6. PICK a \in Seq(Nat) : a = RecordAt(r, 0).key /\ KeyIs(r, 0, a)
  <2>1. r \in Seq(Nat) /\ 0 \in Nat
    BY <1>2
  <2> QED
    BY <2>1, <1>5, KeyFacts DEF KeyIs
<1>7. a = key
  <2>1. Len(a) = k /\ \A i \in 1..k : a[i] = r[0 + 3 + i]
    BY <1>4, <1>6 DEF KeyIs
  <2>2. \A i \in 1..k : 0 + 3 + i = 3 + i
    BY <1>t
  <2>3. \A i \in 1..k : a[i] = key[i]
    BY <1>2, <2>1, <2>2
  <2>4. SameBytes(a, key)
    BY <1>0, <1>6, <2>1, <2>3 DEF SameBytes
  <2> QED
    BY <2>4, BytesEqual
<1>8. RecordAt(r, 0).type = type /\ RecordAt(r, 0).size = 3 + k + l
  BY <1>2, <1>3, <1>4 DEF RecordAt
<1>9. WholeRecord(r, type, key)
  BY <1>2, <1>5, <1>6, <1>7, <1>8 DEF WholeRecord
<1> QED
  BY <1>1, <1>9

\* What Read returns of a sound entry.
ValueAt(f, e, key) ==
    IF e.offset + e.size > Len(f) THEN NoValue
    ELSE SubSeq(f, e.offset + 3 + Len(key) + 1, e.offset + e.size)

\* Get returns the bytes of the value, or nothing when they end behind the log.
LEMMA ReadIs ==
    ASSUME NEW f \in Seq(Nat), NEW idx, NEW key \in Seq(Nat),
           key \in DOMAIN idx => Sound(f, idx[key], key)
    PROVE  Read(f, idx, key) = IF key \in DOMAIN idx THEN ValueAt(f, idx[key], key) ELSE NoValue
<1>1. CASE key \notin DOMAIN idx
  BY <1>1 DEF Read
<1>2. CASE key \in DOMAIN idx
  <2>0. PICK o \in Nat, s \in Nat, k \in Nat, n \in Nat :
        o = idx[key].offset /\ s = idx[key].size /\ k = Len(key) /\ n = Len(f)
    BY <1>2, LenProperties DEF Sound
  <2>t. o \in Nat /\ s \in Nat /\ k \in Nat /\ n \in Nat
    BY <2>0
  <2>1. /\ o + 3 + k <= n /\ f[o + 1] = typePut /\ KeyLen(f, o) = k
        /\ s = 3 + k + ValLen(f, o)
    BY <1>2, <2>0 DEF Sound, headerSize
  <2>2. PICK l \in Nat : l = ValLen(f, o)
    <3>1. o + 3 \in 1..n
      BY <2>1, <2>t
    <3> QED
      BY <2>0, <3>1, ElementOfSeq DEF ValLen
  <2>3. o + 3 + k + l = o + s
    BY <2>1, <2>2, <2>t
  <2>4. Read(f, idx, key) =
          IF o + s > n THEN NoValue ELSE SubSeq(f, o + 3 + k + 1, o + 3 + k + l)
    BY <1>2, <2>0, <2>1, <2>2 DEF Read, headerSize
  <2>5. ValueAt(f, idx[key], key) =
          IF o + s > n THEN NoValue ELSE SubSeq(f, o + 3 + k + 1, o + s)
    BY <2>0 DEF ValueAt
  <2> QED
    BY <1>2, <2>3, <2>4, <2>5
<1> QED
  BY <1>1, <1>2

\* A value of this length, as the log has it behind the key.
ValueIs(w, f, e, key) ==
    /\ w \in Seq(Nat)
    /\ Len(w) = ValLen(f, e.offset) /\ ValLen(f, e.offset) \in Nat
    /\ \A i \in 1..ValLen(f, e.offset) : w[i] = f[e.offset + 3 + Len(key) + i]

\* A readable entry gives some bytes.
LEMMA ValueFacts ==
    ASSUME NEW f \in Seq(Nat), NEW e, NEW key \in Seq(Nat), Sound(f, e, key),
           e.offset + e.size <= Len(f)
    PROVE  ValueIs(ValueAt(f, e, key), f, e, key)
<1>0. PICK o \in Nat, s \in Nat, k \in Nat, n \in Nat :
      o = e.offset /\ s = e.size /\ k = Len(key) /\ n = Len(f)
  BY LenProperties DEF Sound
<1>t. o \in Nat /\ s \in Nat /\ k \in Nat /\ n \in Nat
  BY <1>0
<1>1. o + 3 + k <= n /\ s = 3 + k + ValLen(f, o) /\ o + s <= n
  BY <1>0 DEF Sound, headerSize
<1>2. PICK l \in Nat : l = ValLen(f, o)
  <2>1. o + 3 \in 1..n
    BY <1>1, <1>t
  <2> QED
    BY <1>0, <2>1, ElementOfSeq DEF ValLen
<1>3. PICK a, b : a = o + 3 + k + 1 /\ b = o + s
  OBVIOUS
<1>a. a \in Nat /\ b \in Nat /\ b - a + 1 = l
  <2>1. s = 3 + k + l
    BY <1>1, <1>2
  <2>2. (o + (3 + k + l)) - (o + 3 + k + 1) + 1 = l
    BY <1>2, <1>t
  <2> QED
    BY <1>3, <1>t, <2>1, <2>2
<1>4. \A i \in a..b : f[i] \in Nat
  <2>1. \A i \in a..b : i \in 1..n
    BY <1>1, <1>3, <1>t
  <2> QED
    BY <1>0, <2>1, ElementOfSeq
<1>5. /\ SubSeq(f, a, b) \in Seq(Nat)
      /\ Len(SubSeq(f, a, b)) = IF a <= b THEN b - a + 1 ELSE 0
      /\ \A i \in 1..(b - a + 1) : SubSeq(f, a, b)[i] = f[a + i - 1]
  <2>1. a \in Int /\ b \in Int
    BY <1>a
  <2> QED
    BY <1>4, <2>1, SubSeqProperties
<1>6. ValueAt(f, e, key) = SubSeq(f, a, b)
  <2>1. ~ (o + s > n)
    BY <1>1, <1>t
  <2> QED
    BY <1>0, <1>3, <2>1 DEF ValueAt
<1>7. (IF a <= b THEN b - a + 1 ELSE 0) = l
  BY <1>a, <1>2
<1>8. \A i \in 1..l : a + i - 1 = o + 3 + k + i
  BY <1>2, <1>3, <1>t
<1>9. \A i \in 1..l : SubSeq(f, a, b)[i] = f[o + 3 + k + i]
  BY <1>5, <1>8, <1>a
<1>10. PICK w : w = ValueAt(f, e, key)
  OBVIOUS
<1>11. w \in Seq(Nat) /\ Len(w) = l /\ \A i \in 1..l : w[i] = f[o + 3 + k + i]
  BY <1>5, <1>6, <1>7, <1>9, <1>10
<1>12. ValueIs(w, f, e, key)
  BY <1>0, <1>2, <1>11 DEF ValueIs
<1> QED
  BY <1>10, <1>12

\* An entry stays sound in a longer log, and one that could be read reads the same.
LEMMA SoundGrows ==
    ASSUME NEW f \in Seq(Nat), NEW g \in Seq(Nat), Grows(f, g),
           NEW e, NEW key \in Seq(Nat), Sound(f, e, key)
    PROVE  /\ Sound(g, e, key)
           /\ e.offset + e.size <= Len(f) => ValueAt(g, e, key) = ValueAt(f, e, key)
<1>0. PICK o \in Nat, s \in Nat, k \in Nat, n \in Nat, m \in Nat :
      o = e.offset /\ s = e.size /\ k = Len(key) /\ n = Len(f) /\ m = Len(g)
  BY LenProperties DEF Sound
<1>t. o \in Nat /\ s \in Nat /\ k \in Nat /\ n \in Nat /\ m \in Nat
  BY <1>0
<1>1. /\ o + 3 + k <= n /\ f[o + 1] = typePut /\ KeyLen(f, o) = k
      /\ s = 3 + k + ValLen(f, o)
  BY <1>0 DEF Sound, headerSize
<1>2. n <= m /\ \A i \in 1..n : g[i] = f[i]
  BY <1>0 DEF Grows
<1>3. o + 1 \in 1..n /\ o + 2 \in 1..n /\ o + 3 \in 1..n
  BY <1>1, <1>t
<1>4. g[o + 1] = f[o + 1] /\ KeyLen(g, o) = KeyLen(f, o) /\ ValLen(g, o) = ValLen(f, o)
  BY <1>2, <1>3 DEF KeyLen, ValLen
<1>b. o + 3 + k <= m
  BY <1>1, <1>2, <1>t
<1>5. Sound(g, e, key)
  BY <1>0, <1>1, <1>4, <1>b DEF Sound, headerSize
<1>6. ASSUME e.offset + e.size <= Len(f)
      PROVE  ValueAt(g, e, key) = ValueAt(f, e, key)
  <2> PICK v, w : v = ValueAt(f, e, key) /\ w = ValueAt(g, e, key)
    OBVIOUS
  <2>1. ValueIs(v, f, e, key)
    BY <1>6, ValueFacts
  <2>2. e.offset + e.size <= Len(g)
    BY <1>0, <1>2, <1>6, <1>t
  <2>3. ValueIs(w, g, e, key)
    BY <1>5, <2>2, ValueFacts
  <2>4. PICK l : l = ValLen(f, o)
    OBVIOUS
  <2>5. l \in Nat /\ o + 3 + k + l <= n
    <3>1. l \in Nat
      BY <1>0, <2>1, <2>4 DEF ValueIs
    <3>2. s = 3 + k + l
      BY <1>1, <2>4
    <3>3. o + s <= n
      BY <1>0, <1>6
    <3> QED
      BY <1>t, <3>1, <3>2, <3>3
  <2>6. \A i \in 1..l : o + 3 + k + i \in 1..n
    BY <1>t, <2>5
  <2>7. \A i \in 1..l : g[o + 3 + k + i] = f[o + 3 + k + i]
    BY <1>2, <2>6
  <2>8. v \in Seq(Nat) /\ Len(v) = l /\ \A i \in 1..l : v[i] = f[o + 3 + k + i]
    BY <1>0, <2>1, <2>4 DEF ValueIs
  <2>9. w \in Seq(Nat) /\ Len(w) = l /\ \A i \in 1..l : w[i] = g[o + 3 + k + i]
    BY <1>0, <1>4, <2>3, <2>4 DEF ValueIs
  <2>10. SameBytes(v, w)
    BY <2>7, <2>8, <2>9 DEF SameBytes
  <2> QED
    BY <2>10, BytesEqual
<1> QED
  BY <1>5, <1>6

\* These bytes are in the log from an offset on.
Holds(f, o, s) == o + Len(s) <= Len(f) /\ \A j \in 1..Len(s) : f[o + j] = s[j]

\* The record of a Put in the log, and the entry that leads to it.
LEMMA HoldsRead ==
    ASSUME NEW f \in Seq(Nat), NEW e, NEW key \in Seq(Nat), NEW value \in Seq(Nat),
           e.offset \in Nat, Holds(f, e.offset, Record(typePut, key, value)),
           e.size = Len(Record(typePut, key, value))
    PROVE  Sound(f, e, key) /\ e.offset + e.size <= Len(f) /\ ValueAt(f, e, key) = value
<1>0. PICK o \in Nat, k \in Nat, l \in Nat, n \in Nat :
      o = e.offset /\ k = Len(key) /\ l = Len(value) /\ n = Len(f)
  BY LenProperties
<1>t. o \in Nat /\ k \in Nat /\ l \in Nat /\ n \in Nat
  BY <1>0
<1>1. PICK r : r = Record(typePut, key, value)
  OBVIOUS
<1>2. /\ Len(r) = 3 + k + l /\ r[1] = typePut /\ r[2] = k /\ r[3] = l
      /\ \A i \in 1..l : r[3 + k + i] = value[i]
  <2>1. typePut \in Nat
    BY DEF typePut
  <2>2. RecordIs(Record(typePut, key, value), typePut, key, value)
    BY <2>1, RecordMade
  <2>3. RecordIs(r, typePut, key, value)
    BY <1>1, <2>2
  <2> QED
    BY <1>0, <2>3 DEF RecordIs
<1>3. o + (3 + k + l) <= n /\ \A j \in 1..(3 + k + l) : f[o + j] = r[j]
  BY <1>0, <1>1, <1>2 DEF Holds
<1>4. 1 \in 1..(3 + k + l) /\ 2 \in 1..(3 + k + l) /\ 3 \in 1..(3 + k + l)
  BY <1>t
<1>5. f[o + 1] = typePut /\ KeyLen(f, o) = k /\ ValLen(f, o) = l
  BY <1>2, <1>3, <1>4 DEF KeyLen, ValLen
<1>6. e.size = 3 + k + l
  BY <1>1, <1>2
<1>a. o + 3 + k <= n /\ e.size \in Nat
  BY <1>3, <1>6, <1>t
<1>7. Sound(f, e, key)
  BY <1>0, <1>5, <1>6, <1>a DEF Sound, headerSize
<1>8. e.offset + e.size <= Len(f)
  BY <1>0, <1>3, <1>6
<1>9. ValueIs(ValueAt(f, e, key), f, e, key)
  BY <1>7, <1>8, ValueFacts
<1>10. \A i \in 1..l : f[o + 3 + k + i] = value[i]
  <2> SUFFICES ASSUME NEW i \in 1..l
               PROVE  f[o + 3 + k + i] = value[i]
    OBVIOUS
  <2>1. PICK j \in 1..(3 + k + l) : j = 3 + k + i /\ o + j = o + 3 + k + i
    BY <1>t
  <2>2. r[j] = value[i]
    BY <1>2, <2>1
  <2>3. f[o + j] = r[j]
    BY <1>3
  <2> QED
    BY <2>1, <2>2, <2>3
<1>11. PICK w : w = ValueAt(f, e, key)
  OBVIOUS
<1>12. w \in Seq(Nat) /\ Len(w) = l /\ \A i \in 1..l : w[i] = f[o + 3 + k + i]
  <2>1. ValLen(f, e.offset) = l
    BY <1>0, <1>5
  <2>2. ValueIs(w, f, e, key)
    BY <1>9, <1>11
  <2> QED
    BY <1>0, <2>1, <2>2 DEF ValueIs
<1>13. \A i \in 1..l : w[i] = value[i]
  BY <1>12, <1>10
<1>14. w = value
  <2>1. SameBytes(w, value)
    BY <1>0, <1>12, <1>13 DEF SameBytes
  <2> QED
    BY <2>1, BytesEqual
<1> QED
  BY <1>7, <1>8, <1>11, <1>14

-----------------------------------------------------------------------------
(* What an append changes of the answers.                                  *)

\* An entry that could be read in a log reads the same in a longer one.
LEMMA KeptRead ==
    ASSUME NEW f \in Seq(Nat), NEW g \in Seq(Nat), Grows(f, g),
           NEW a, NEW b, NEW key \in Seq(Nat), SameEntry(a, b, key),
           key \in DOMAIN a => Sound(f, a[key], key) /\ a[key].offset + a[key].size <= Len(f)
    PROVE  Read(g, b, key) = Read(f, a, key)
<1>1. CASE key \notin DOMAIN a
  BY <1>1 DEF Read, SameEntry
<1>2. CASE key \in DOMAIN a
  <2>1. key \in DOMAIN b /\ b[key].offset = a[key].offset /\ b[key].size = a[key].size
    BY <1>2 DEF SameEntry
  <2>2. Sound(g, a[key], key) /\ ValueAt(g, a[key], key) = ValueAt(f, a[key], key)
    BY <1>2, SoundGrows
  <2>3. Sound(g, b[key], key) /\ ValueAt(g, b[key], key) = ValueAt(g, a[key], key)
    BY <2>1, <2>2 DEF Sound, ValueAt
  <2>4. Read(g, b, key) = ValueAt(g, b[key], key)
    BY <2>1, <2>3, ReadIs
  <2>5. Read(f, a, key) = ValueAt(f, a[key], key)
    BY <1>2, ReadIs
  <2> QED
    BY <2>2, <2>3, <2>4, <2>5
<1> QED
  BY <1>1, <1>2

\* What a restart finds of a key.
Found(f, k) == Read(f, Load(f), <<k>>)

\* What is written for a key: its record, or the beginning of it.
WrittenFor(x, k) == Fits(x, 0) => RecordAt(x, 0).key = <<k>> /\ RecordAt(x, 0).size >= Len(x)

\* The record is complete.
Complete(x) == Fits(x, 0) /\ RecordAt(x, 0).size = Len(x)

\* A document id makes a key of its own.
LEMMA OneKey ==
    ASSUME NEW k \in Nat
    PROVE  <<k>> \in Seq(Nat) /\ Len(<<k>>) = 1 /\ \A m \in Nat : <<m>> = <<k>> => m = k
OBVIOUS

\* Behind a whole log, it changes what a restart finds of this key only.
LEMMA AppendedEntries ==
    ASSUME NEW f \in Seq(Nat), NEW x \in Seq(Nat), NEW k \in Nat, Whole(f), WrittenFor(x, k),
           NEW key, key # <<k>> \/ ~ Fits(x, 0)
    PROVE  SameEntry(Load(f \o x), Load(f), key)
<1>1. CASE ~ Fits(x, 0)
  <2>1. Load(f \o x) = Load(f)
    BY <1>1, ShortTail, LoadIs
  <2> QED
    BY <2>1 DEF SameEntry
<1>2. CASE Fits(x, 0)
  <2>1. RecordAt(x, 0).key = <<k>> /\ RecordAt(x, 0).size >= Len(x)
    BY <1>2 DEF WrittenFor
  <2>2. PICK r \in Rec : r = RecordAt(f \o x, Len(f)) /\ r.key = <<k>>
    BY <1>2, <2>1, ShiftFacts
  <2>3. PICK rs \in Seq(Rec) : rs = Records(f)
    BY RecordsChain DEF Chain
  <2>4. Records(f \o x) = Append(rs, r)
    BY <1>2, <2>1, <2>2, <2>3, OneMore
  <2>5. SameEntry(LoadOf(Append(rs, r)), LoadOf(rs), key)
    BY <1>2, <2>2, LoadOfAppend
  <2> QED
    BY <2>3, <2>4, <2>5, LoadIs
<1> QED
  BY <1>1, <1>2

\* And so a restart reads every other key as before.
LEMMA AppendedReads ==
    ASSUME NEW f \in Seq(Nat), NEW x \in Seq(Nat), NEW k \in Nat, Whole(f), WrittenFor(x, k),
           NEW key \in Seq(Nat), key # <<k>> \/ ~ Fits(x, 0)
    PROVE  Read(f \o x, Load(f \o x), key) = Read(f, Load(f), key)
<1>1. SameEntry(Load(f), Load(f \o x), key)
  BY AppendedEntries DEF SameEntry
<1>2. f \o x \in Seq(Nat) /\ Grows(f, f \o x)
  BY GrownFacts
<1>3. ASSUME key \in DOMAIN Load(f)
      PROVE  Sound(f, Load(f)[key], key) /\ Load(f)[key].offset + Load(f)[key].size <= Len(f)
  BY <1>3, LoadSound, WholeFacts DEF SoundIndex
<1>4. PICK g : g = f \o x
  OBVIOUS
<1>5. PICK a : a = Load(f)
  OBVIOUS
<1>6. PICK b : b = Load(f \o x)
  OBVIOUS
<1>7. g \in Seq(Nat) /\ Grows(f, g) /\ SameEntry(a, b, key)
  BY <1>1, <1>2, <1>4, <1>5, <1>6
<1>8. key \in DOMAIN a => Sound(f, a[key], key) /\ a[key].offset + a[key].size <= Len(f)
  BY <1>3, <1>5
<1>9. Read(g, b, key) = Read(f, a, key)
  BY <1>7, <1>8, KeptRead
<1> QED
  BY <1>4, <1>5, <1>6, <1>9

\* And of this key: the record decides.
LEMMA AppendedKey ==
    ASSUME NEW f \in Seq(Nat), NEW x \in Seq(Nat), NEW k \in Nat, Whole(f), WrittenFor(x, k),
           Fits(x, 0)
    PROVE  /\ <<k>> \in DOMAIN Load(f \o x) <=> RecordAt(x, 0).type = typePut
           /\ RecordAt(x, 0).type = typePut =>
                 /\ Load(f \o x)[<<k>>].offset = Len(f)
                 /\ Load(f \o x)[<<k>>].size = RecordAt(x, 0).size
           /\ Complete(x) => Whole(f \o x)
<1>1. RecordAt(x, 0).key = <<k>> /\ RecordAt(x, 0).size >= Len(x)
  BY DEF WrittenFor
<1>2. PICK r \in Rec : /\ r = RecordAt(f \o x, Len(f)) /\ r.key = <<k>>
                       /\ r.type = RecordAt(x, 0).type /\ r.size = RecordAt(x, 0).size
                       /\ r.offset = Len(f)
  BY <1>1, ShiftFacts
<1>3. PICK rs \in Seq(Rec) : rs = Records(f)
  BY RecordsChain DEF Chain
<1>4. Records(f \o x) = Append(rs, r)
  BY <1>1, <1>2, <1>3, OneMore
<1>5. /\ r.key \in DOMAIN LoadOf(Append(rs, r)) <=> r.type = typePut
      /\ r.type = typePut => /\ LoadOf(Append(rs, r))[r.key].offset = r.offset
                             /\ LoadOf(Append(rs, r))[r.key].size = r.size
  BY LoadOfAppend
<1>6. Load(f \o x) = LoadOf(Append(rs, r))
  BY <1>4, LoadIs
<1>7. Complete(x) => Whole(f \o x)
  BY <1>1, OneMore DEF Complete
<1> QED
  BY <1>2, <1>5, <1>6, <1>7

\* A record that is not complete leaves a key as it was, or makes it unreadable.
LEMMA TornKey ==
    ASSUME NEW f \in Seq(Nat), NEW x \in Seq(Nat), NEW k \in Nat, Whole(f), WrittenFor(x, k),
           ~ Complete(x)
    PROVE  Found(f \o x, k) \in {Found(f, k), NoValue}
<1>1. CASE ~ Fits(x, 0)
  <2>1. <<k>> \in Seq(Nat)
    BY OneKey
  <2>2. Read(f \o x, Load(f \o x), <<k>>) = Read(f, Load(f), <<k>>)
    BY <1>1, <2>1, AppendedReads
  <2> QED
    BY <2>2 DEF Found
<1>2. CASE Fits(x, 0)
  <2>1. CASE RecordAt(x, 0).type # typePut
    <3>1. <<k>> \notin DOMAIN Load(f \o x)
      BY <1>2, <2>1, AppendedKey
    <3> QED
      BY <3>1 DEF Found, Read
  <2>2. CASE RecordAt(x, 0).type = typePut
    <3>1. /\ <<k>> \in DOMAIN Load(f \o x)
          /\ Load(f \o x)[<<k>>].offset = Len(f)
          /\ Load(f \o x)[<<k>>].size = RecordAt(x, 0).size
      BY <1>2, <2>2, AppendedKey
    <3>2. Len(f) + RecordAt(x, 0).size > Len(f \o x)
      <4>1. PICK n \in Nat, m \in Nat, s \in Nat : n = Len(f) /\ m = Len(x) /\ s = RecordAt(x, 0).size
        <5>1. RecordAt(x, 0) \in Rec
          BY <1>2, RecordAtFacts
        <5> QED
          BY <5>1, LenProperties DEF Rec
      <4>2. s > m
        BY <1>2, <4>1 DEF WrittenFor, Complete
      <4>3. Len(f \o x) = n + m
        BY <4>1, GrownFacts
      <4> QED
        BY <4>1, <4>2, <4>3
    <3> QED
      BY <3>1, <3>2 DEF Found, Read
  <2> QED
    BY <2>1, <2>2
<1> QED
  BY <1>1, <1>2

\* What Put and Delete write, and what a torn write leaves of it.
LEMMA RecordWritten ==
    ASSUME NEW type \in Nat, NEW k \in Nat, NEW value \in Seq(Nat)
    PROVE  /\ Record(type, <<k>>, value) \in Seq(Nat)
           /\ WrittenFor(Record(type, <<k>>, value), k)
           /\ Complete(Record(type, <<k>>, value))
           /\ RecordAt(Record(type, <<k>>, value), 0).type = type
           /\ Len(Record(type, <<k>>, value)) \in Nat
<1>1. <<k>> \in Seq(Nat)
  BY OneKey
<1>2. PICK r : r = Record(type, <<k>>, value)
  OBVIOUS
<1>3. /\ r \in Seq(Nat) /\ Fits(r, 0) /\ RecordAt(r, 0).type = type
      /\ RecordAt(r, 0).key = <<k>> /\ RecordAt(r, 0).size = Len(r)
  <2>1. PICK key \in Seq(Nat) : key = <<k>>
    BY <1>1
  <2>2. RecordIs(Record(type, key, value), type, key, value)
    BY RecordMade
  <2>3. WholeRecord(Record(type, key, value), type, key)
    BY RecordFits
  <2>4. r = Record(type, key, value)
    BY <1>2, <2>1
  <2>5. r \in Seq(Nat)
    BY <2>2, <2>4 DEF RecordIs
  <2>6. WholeRecord(r, type, key)
    BY <2>3, <2>4
  <2> QED
    BY <2>1, <2>5, <2>6 DEF WholeRecord
<1>4. Len(r) \in Nat
  BY <1>3, LenProperties
<1>5. WrittenFor(r, k)
  BY <1>3 DEF WrittenFor
<1>6. Complete(r)
  BY <1>3 DEF Complete
<1> QED
  BY <1>2, <1>3, <1>4, <1>5, <1>6

\* A proper prefix of a record is not complete, and names no other key.
LEMMA TornWritten ==
    ASSUME NEW type \in Nat, NEW k \in Nat, NEW value \in Seq(Nat),
           NEW n \in 1..(Len(Record(type, <<k>>, value)) - 1)
    PROVE  /\ SubSeq(Record(type, <<k>>, value), 1, n) \in Seq(Nat)
           /\ WrittenFor(SubSeq(Record(type, <<k>>, value), 1, n), k)
           /\ ~ Complete(SubSeq(Record(type, <<k>>, value), 1, n))
<1>1. PICK r : r = Record(type, <<k>>, value)
  OBVIOUS
<1>2. /\ r \in Seq(Nat) /\ Len(r) \in Nat /\ RecordAt(r, 0).key = <<k>>
      /\ RecordAt(r, 0).size = Len(r)
  BY <1>1, RecordWritten DEF WrittenFor, Complete
<1>3. n \in Nat /\ 1 <= n /\ n < Len(r)
  BY <1>1, <1>2
<1>4. PICK x : x = SubSeq(r, 1, n)
  OBVIOUS
<1>5. x \in Seq(Nat) /\ Len(x) = n /\ \A i \in 1..n : x[i] = r[i]
  <2>1. \A i \in 1..n : r[i] \in Nat
    <3>1. \A i \in 1..n : i \in 1..Len(r)
      BY <1>2, <1>3
    <3> QED
      BY <1>2, <3>1, ElementOfSeq
  <2>2. 1 \in Int /\ n \in Int
    BY <1>3
  <2>3. /\ SubSeq(r, 1, n) \in Seq(Nat)
        /\ Len(SubSeq(r, 1, n)) = IF 1 <= n THEN n - 1 + 1 ELSE 0
        /\ \A i \in 1..(n - 1 + 1) : SubSeq(r, 1, n)[i] = r[1 + i - 1]
    BY <2>1, <2>2, SubSeqProperties
  <2>4. n - 1 + 1 = n /\ \A i \in 1..n : 1 + i - 1 = i
    BY <1>3
  <2> QED
    BY <1>3, <1>4, <2>3, <2>4
<1>6. Grows(x, r)
  BY <1>2, <1>3, <1>5 DEF Grows
<1>7. ASSUME Fits(x, 0)
      PROVE  RecordAt(x, 0) = RecordAt(r, 0)
  <2>1. 0 \in Nat /\ x \in Seq(Nat) /\ r \in Seq(Nat)
    BY <1>2, <1>5
  <2> QED
    BY <1>6, <1>7, <2>1, GrownRecord
<1>8. Fits(x, 0) => RecordAt(x, 0).key = <<k>> /\ RecordAt(x, 0).size = Len(r)
  BY <1>2, <1>7
<1>9. WrittenFor(x, k) /\ ~ Complete(x)
  BY <1>2, <1>3, <1>5, <1>8 DEF WrittenFor, Complete
<1> QED
  BY <1>1, <1>4, <1>5, <1>9

-----------------------------------------------------------------------------
(* The log that compaction writes.                                         *)

PutRecords == {Record(typePut, key, value) : key \in Seq(Nat), value \in Seq(Nat)}

\* The i-th of these records is where Place says, and Records finds it there.
LaidAt(f, ss, i) ==
    /\ Records(f)[i].type = typePut
    /\ Records(f)[i].key = RecordAt(ss[i], 0).key
    /\ Records(f)[i].offset = Len(FlattenSeq(SubSeq(ss, 1, i - 1)))
    /\ Records(f)[i].size = Len(ss[i])
    /\ Holds(f, Records(f)[i].offset, ss[i])

Laid(f, ss) ==
    /\ f \in Seq(Nat) /\ Whole(f)
    /\ Len(Records(f)) = Len(ss)
    /\ \A i \in 1..Len(ss) : LaidAt(f, ss, i)

\* Each of them is one whole record of a Put.
LEMMA PutRecordFacts ==
    ASSUME NEW s \in PutRecords
    PROVE  /\ s \in Seq(Nat) /\ Fits(s, 0) /\ RecordAt(s, 0) \in Rec
           /\ RecordAt(s, 0).type = typePut /\ RecordAt(s, 0).size = Len(s)
<1>1. PICK key \in Seq(Nat), value \in Seq(Nat) : s = Record(typePut, key, value)
  BY DEF PutRecords
<1>2. typePut \in Nat
  BY DEF typePut
<1>3. s \in Seq(Nat)
  BY <1>1, <1>2, RecordFacts
<1>4. WholeRecord(Record(typePut, key, value), typePut, key)
  BY <1>2, RecordFits
<1>5. WholeRecord(s, typePut, key)
  BY <1>1, <1>4
<1>6. Fits(s, 0) /\ RecordAt(s, 0).type = typePut /\ RecordAt(s, 0).size = Len(s)
  BY <1>5 DEF WholeRecord
<1>7. RecordAt(s, 0) \in Rec
  BY <1>3, <1>6, RecordAtFacts
<1> QED
  BY <1>3, <1>6, <1>7

\* They are sequences of bytes.
LEMMA PutRecordsType ==
    ASSUME NEW ss \in Seq(PutRecords)
    PROVE  ss \in Seq(Seq(Nat))
<1>1. Len(ss) \in Nat /\ ss \in [1..Len(ss) -> PutRecords]
  BY LenProperties
<1>2. \A i \in 1..Len(ss) : ss[i] \in Seq(Nat)
  BY <1>1, PutRecordFacts
<1>3. ss \in [1..Len(ss) -> Seq(Nat)]
  BY <1>1, <1>2
<1> QED
  BY <1>1, <1>3

\* The empty log.
LEMMA EmptyLaid == Laid(<<>>, <<>>) /\ Whole(<<>>) /\ Records(<<>>) = <<>>
<1>1. <<>> \in Seq(Nat) /\ Len(<<>>) = 0
  BY EmptySeq
<1>2. ~ Fits(<<>>, 0)
  BY <1>1 DEF Fits, headerSize
<1>3. Records(<<>>) = <<>>
  BY <1>1, <1>2, EmptyChain, ChainIsRecords
<1>4. Whole(<<>>)
  BY <1>1, <1>3 DEF Whole, Ends
<1>5. 1..Len(<<>>) = {}
  BY <1>1
<1> QED
  BY <1>1, <1>3, <1>4, <1>5 DEF Laid

\* One record more.
LEMMA LaidLonger ==
    ASSUME NEW ss \in Seq(PutRecords), NEW s \in PutRecords, Laid(FlattenSeq(ss), ss)
    PROVE  Laid(FlattenSeq(Append(ss, s)), Append(ss, s))
<1>1. PICK f : f = FlattenSeq(ss)
  OBVIOUS
<1>2. /\ f \in Seq(Nat) /\ Whole(f) /\ Len(Records(f)) = Len(ss)
      /\ \A i \in 1..Len(ss) : LaidAt(f, ss, i)
  BY <1>1 DEF Laid
<1>3. /\ s \in Seq(Nat) /\ Fits(s, 0) /\ RecordAt(s, 0) \in Rec
      /\ RecordAt(s, 0).type = typePut /\ RecordAt(s, 0).size = Len(s)
  BY PutRecordFacts
<1>4. PICK g : g = f \o s
  OBVIOUS
<1>5. PICK tt : tt = Append(ss, s)
  OBVIOUS
<1>6. FlattenSeq(tt) = g
  <2>1. ss \in Seq(Seq(Nat))
    BY PutRecordsType
  <2>2. FlattenSeq(Append(ss, s)) = FlattenSeq(ss) \o s
    BY <1>3, <2>1, FlattenAppend
  <2> QED
    BY <1>1, <1>4, <1>5, <2>2
<1>7. PICK n : n = Len(ss)
  OBVIOUS
<1>8. /\ n \in Nat /\ Len(tt) = n + 1 /\ tt[n + 1] = s
      /\ \A i \in 1..n : tt[i] = ss[i]
  BY <1>5, <1>7, AppendFacts
<1>9. g \in Seq(Nat) /\ Grows(f, g)
  BY <1>2, <1>3, <1>4, GrownFacts
<1>10. /\ Len(g) = Len(f) + Len(s) /\ Len(f) \in Nat /\ Len(s) \in Nat
       /\ \A j \in 1..Len(s) : g[Len(f) + j] = s[j]
  BY <1>2, <1>3, <1>4, GrownFacts, LenProperties
<1>11. PICK r : r = RecordAt(g, Len(f))
  OBVIOUS
<1>12. /\ r \in Rec /\ r.type = typePut /\ r.key = RecordAt(s, 0).key
       /\ r.offset = Len(f) /\ r.size = Len(s)
  BY <1>2, <1>3, <1>4, <1>11, ShiftFacts
<1>13. Records(g) = Append(Records(f), r) /\ Whole(g)
  <2>1. RecordAt(s, 0).size >= Len(s)
    BY <1>3, <1>10
  <2> QED
    BY <1>2, <1>3, <1>4, <1>11, <2>1, OneMore
<1>14. PICK rs, us : rs = Records(f) /\ us = Records(g)
  OBVIOUS
<1>15. /\ Len(us) = n + 1 /\ us[n + 1] = r
       /\ \A i \in 1..n : us[i] = rs[i]
  <2>1. rs \in Seq(Rec) /\ Len(rs) = n
    BY <1>2, <1>7, <1>14, RecordsChain DEF Chain
  <2> QED
    BY <1>12, <1>13, <1>14, <2>1, AppendFacts
<1>16. ASSUME NEW i \in 1..(n + 1)
       PROVE  LaidAt(g, tt, i)
  <2>1. SubSeq(tt, 1, i - 1) = SubSeq(ss, 1, i - 1)
    <3>1. i - 1 \in 0..Len(ss)
      BY <1>7, <1>8
    <3> QED
      BY <1>5, <3>1, BeginningOfAppend
  <2>2. CASE i = n + 1
    <3>1. i - 1 = Len(ss)
      BY <1>7, <1>8, <2>2
    <3>2. SubSeq(tt, 1, i - 1) = ss
      BY <2>1, <3>1, WholeSubSeq
    <3>3. Len(FlattenSeq(SubSeq(tt, 1, i - 1))) = Len(f)
      BY <1>1, <3>2
    <3>4. tt[i] = s /\ us[i] = r
      BY <1>8, <1>15, <2>2
    <3>5. Holds(g, Len(f), s)
      BY <1>10 DEF Holds
    <3> QED
      BY <1>12, <1>14, <3>3, <3>4, <3>5 DEF LaidAt
  <2>3. CASE i # n + 1
    <3>1. i \in 1..n
      BY <1>8, <2>3
    <3>2. LaidAt(f, ss, i) /\ tt[i] = ss[i] /\ us[i] = rs[i]
      BY <1>2, <1>7, <1>8, <1>15, <3>1
    <3>3. Holds(g, rs[i].offset, ss[i])
      <4>1. ss[i] \in Seq(Nat)
        BY <1>7, <3>1, ElementOfSeq, PutRecordFacts
      <4>2. PICK l \in Nat, m \in Nat : l = Len(ss[i]) /\ m = Len(f)
        BY <1>10, <4>1, LenProperties
      <4>3. rs[i].offset \in Nat
        <5>1. Chain(f, rs, 0) /\ i \in 1..Len(rs)
          BY <1>2, <1>7, <1>14, <3>1, RecordsChain
        <5> QED
          BY <1>2, <5>1, ChainFacts
      <4>4. PICK o \in Nat : o = rs[i].offset
        BY <4>3
      <4>5. o + l <= m /\ \A j \in 1..l : f[o + j] = ss[i][j]
        BY <1>14, <3>2, <4>2, <4>4 DEF LaidAt, Holds
      <4>a. o + l <= m
        BY <4>5
      <4>6. m <= Len(g) /\ \A j \in 1..m : g[j] = f[j]
        BY <1>9, <4>2 DEF Grows
      <4>7. o + l <= Len(g)
        BY <1>10, <4>2, <4>4, <4>5, <4>6
      <4>8. \A j \in 1..l : o + j \in 1..m
        <5>1. o \in Nat /\ l \in Nat /\ m \in Nat
          BY <4>2, <4>4
        <5> QED
          BY <4>a, <5>1
      <4>9. \A j \in 1..l : g[o + j] = ss[i][j]
        <5> SUFFICES ASSUME NEW j \in 1..l
                     PROVE  g[o + j] = ss[i][j]
          OBVIOUS
        <5>1. f[o + j] = ss[i][j]
          BY <4>5
        <5>2. g[o + j] = f[o + j]
          BY <4>6, <4>8
        <5> QED
          BY <5>1, <5>2
      <4> QED
        BY <4>2, <4>4, <4>7, <4>9 DEF Holds
    <3> QED
      BY <1>14, <2>1, <3>2, <3>3 DEF LaidAt
  <2> QED
    BY <2>2, <2>3
<1>17. Laid(g, tt)
  BY <1>8, <1>9, <1>13, <1>14, <1>15, <1>16 DEF Laid
<1> QED
  BY <1>5, <1>6, <1>17

\* Any number of records of Puts, one behind the other, are a whole log of those
\* records, by induction on their number.
LEMMA FlattenLaid ==
    ASSUME NEW ss \in Seq(PutRecords)
    PROVE  Laid(FlattenSeq(ss), ss)
<1> DEFINE P == {tt \in Seq(PutRecords) : Laid(FlattenSeq(tt), tt)}
<1>1. <<>> \in P
  <2>1. <<>> \in Seq(PutRecords) /\ <<>> \in Seq(Seq(Nat))
    BY EmptySeq
  <2>2. FlattenSeq(<<>>) = <<>>
    BY <2>1, FlattenType
  <2> QED
    BY <2>1, <2>2, EmptyLaid
<1>2. ASSUME NEW tt \in Seq(PutRecords), NEW s \in PutRecords, tt \in P
      PROVE  Append(tt, s) \in P
  <2>1. Append(tt, s) \in Seq(PutRecords)
    BY AppendFacts
  <2> QED
    BY <1>2, <2>1, LaidLonger
<1>3. Seq(PutRecords) \subseteq P
  <2> HIDE DEF P
  <2> QED
    BY <1>1, <1>2, AppendInduction
<1> QED
  BY <1>3

-----------------------------------------------------------------------------
(* Compaction.                                                             *)

\* The keys that can be read, the records of the new log, and its index.
Readables(f, idx) == {key \in DOMAIN idx : Read(f, idx, key) # NoValue}

Compacted(f, idx, order) ==
    [i \in DOMAIN order |-> Record(typePut, order[i], Read(f, idx, order[i]))]

PlacedIndex(ss, order) ==
    [key \in Range(order) |-> Place(ss, CHOOSE i \in DOMAIN order : order[i] = key)]

\* A key that can be read has bytes for a value.
LEMMA ReadableFacts ==
    ASSUME NEW f \in Seq(Nat), NEW idx, SoundIndex(f, idx), NEW key \in Readables(f, idx)
    PROVE  key \in Seq(Nat) /\ Read(f, idx, key) \in Seq(Nat)
<1>1. key \in DOMAIN idx /\ Read(f, idx, key) # NoValue
  BY DEF Readables
<1>2. key \in Seq(Nat) /\ Sound(f, idx[key], key)
  BY <1>1 DEF SoundIndex
<1>3. Read(f, idx, key) = ValueAt(f, idx[key], key)
  BY <1>1, <1>2, ReadIs
<1>4. ~ (idx[key].offset + idx[key].size > Len(f))
  BY <1>1, <1>3 DEF ValueAt
<1>5. idx[key].offset + idx[key].size <= Len(f)
  <2>1. idx[key].offset \in Nat /\ idx[key].size \in Nat /\ Len(f) \in Nat
    BY <1>2, LenProperties DEF Sound
  <2> QED
    BY <1>4, <2>1
<1>6. ValueAt(f, idx[key], key) \in Seq(Nat)
  <2>1. ValueIs(ValueAt(f, idx[key], key), f, idx[key], key)
    BY <1>2, <1>5, ValueFacts
  <2> QED
    BY <2>1 DEF ValueIs
<1> QED
  BY <1>2, <1>3, <1>6

\* The order in which the map is ranged over: every readable key once.
LEMMA OrderFacts ==
    ASSUME NEW f \in Seq(Nat), NEW idx, SoundIndex(f, idx),
           NEW order \in SetToSeqs(Readables(f, idx))
    PROVE  /\ order \in Seq(Readables(f, idx))
           /\ Range(order) = Readables(f, idx)
           /\ \A i, j \in DOMAIN order : order[i] = order[j] => i = j
<1>0. PICK S : S = Readables(f, idx)
  OBVIOUS
<1>1. IsFiniteSet(S)
  BY <1>0, FS_Subset DEF Readables, SoundIndex
<1>2. /\ order \in [1..Cardinality(S) -> S]
      /\ \A i, j \in 1..Cardinality(S) : i # j => order[i] # order[j]
  BY <1>0 DEF SetToSeqs
<1>3. DOMAIN order = 1..Cardinality(S)
  BY <1>2
<1>4. \A i, j \in DOMAIN order : order[i] = order[j] => i = j
  BY <1>2, <1>3
<1>5. IsInjective(order)
  BY <1>4 DEF IsInjective
<1>6. order \in Seq(S) /\ \A x \in S : \E i \in DOMAIN order : order[i] = x
  BY <1>1, <1>2, <1>5, EnumerationFacts
<1>7. Range(order) = S
  BY <1>2, <1>3, <1>6 DEF Range
<1> QED
  BY <1>0, <1>4, <1>6, <1>7

\* Compaction writes one record of a Put for each of them.
LEMMA CompactedFacts ==
    ASSUME NEW f \in Seq(Nat), NEW idx, SoundIndex(f, idx),
           NEW order \in SetToSeqs(Readables(f, idx))
    PROVE  /\ Compacted(f, idx, order) \in Seq(PutRecords)
           /\ Len(Compacted(f, idx, order)) = Len(order)
<1>0. PICK S : S = Readables(f, idx)
  OBVIOUS
<1>1. order \in Seq(S)
  BY <1>0, OrderFacts
<1>2. PICK n : n = Len(order)
  OBVIOUS
<1>3. n \in Nat /\ DOMAIN order = 1..n /\ \A i \in 1..n : order[i] \in S
  BY <1>1, <1>2, LenProperties, ElementOfSeq
<1>4. \A i \in 1..n : Record(typePut, order[i], Read(f, idx, order[i])) \in PutRecords
  <2> SUFFICES ASSUME NEW i \in 1..n
               PROVE  Record(typePut, order[i], Read(f, idx, order[i])) \in PutRecords
    OBVIOUS
  <2>1. order[i] \in Seq(Nat) /\ Read(f, idx, order[i]) \in Seq(Nat)
    BY <1>0, <1>3, ReadableFacts
  <2> QED
    BY <2>1 DEF PutRecords
<1>5. PICK ss : ss = Compacted(f, idx, order)
  OBVIOUS
<1>6. ss = [i \in 1..n |-> Record(typePut, order[i], Read(f, idx, order[i]))]
  BY <1>3, <1>5 DEF Compacted
<1>7. ss \in [1..n -> PutRecords]
  BY <1>4, <1>6
<1>8. ss \in Seq(PutRecords) /\ Len(ss) = n
  BY <1>3, <1>7
<1> QED
  BY <1>2, <1>5, <1>8

\* The i-th key in the new log: its entry is sound, reads what the old log held,
\* and is the one a restart finds.
LEMMA CompactedEntry ==
    ASSUME NEW f \in Seq(Nat), NEW idx, SoundIndex(f, idx),
           NEW order \in SetToSeqs(Readables(f, idx)),
           NEW ss, ss = Compacted(f, idx, order),
           NEW g, g = FlattenSeq(ss),
           NEW i \in DOMAIN order
    PROVE  /\ Sound(g, Place(ss, i), order[i])
           /\ ValueAt(g, Place(ss, i), order[i]) = Read(f, idx, order[i])
           /\ order[i] \in DOMAIN Load(g)
           /\ Load(g)[order[i]].offset = Place(ss, i).offset
           /\ Load(g)[order[i]].size = Place(ss, i).size
           /\ PlacedIndex(ss, order)[order[i]] = Place(ss, i)
<1>0. PICK S : S = Readables(f, idx)
  OBVIOUS
<1>1. /\ order \in Seq(S) /\ Range(order) = S
      /\ \A j, m \in DOMAIN order : order[j] = order[m] => j = m
  BY <1>0, OrderFacts
<1>2. PICK n : n = Len(order)
  OBVIOUS
<1>3. n \in Nat /\ DOMAIN order = 1..n /\ order[i] \in S
  BY <1>1, <1>2, LenProperties, ElementOfSeq
<1>4. ss \in Seq(PutRecords) /\ Len(ss) = n
  BY <1>2, CompactedFacts
<1>5. Laid(g, ss)
  BY <1>4, FlattenLaid
<1>6. g \in Seq(Nat) /\ Len(Records(g)) = n /\ \A j \in 1..n : LaidAt(g, ss, j)
  BY <1>4, <1>5 DEF Laid
<1>7. PICK key : key = order[i]
  OBVIOUS
<1>8. PICK value : value = Read(f, idx, key)
  OBVIOUS
<1>9. key \in Seq(Nat) /\ value \in Seq(Nat)
  BY <1>0, <1>3, <1>7, <1>8, ReadableFacts
<1>10. ss[i] = Record(typePut, key, value)
  BY <1>7, <1>8 DEF Compacted
<1>11. PICK e : e = Place(ss, i)
  OBVIOUS
<1>12. PICK rs : rs = Records(g)
  OBVIOUS
<1>13. /\ rs[i].type = typePut /\ rs[i].offset = e.offset /\ rs[i].size = e.size
       /\ e.size = Len(ss[i]) /\ Holds(g, e.offset, ss[i])
  <2>1. LaidAt(g, ss, i)
    BY <1>3, <1>6
  <2>2. e.offset = Len(FlattenSeq(SubSeq(ss, 1, i - 1))) /\ e.size = Len(ss[i])
    BY <1>11 DEF Place
  <2> QED
    BY <1>12, <2>1, <2>2 DEF LaidAt
<1>14. Chain(g, rs, 0) /\ DOMAIN rs = 1..n
  BY <1>6, <1>12, RecordsChain, ChainFacts
<1>15. \A j \in 1..n : rs[j].key = order[j]
  <2> SUFFICES ASSUME NEW j \in 1..n
               PROVE  rs[j].key = order[j]
    OBVIOUS
  <2>1. PICK k, v : k = order[j] /\ v = Read(f, idx, order[j])
    OBVIOUS
  <2>2. order[j] \in S
    BY <1>1, <1>2, ElementOfSeq
  <2>3. k \in Seq(Nat) /\ v \in Seq(Nat)
    BY <1>0, <2>1, <2>2, ReadableFacts
  <2>4. ss[j] = Record(typePut, k, v)
    BY <1>3, <2>1 DEF Compacted
  <2>5. typePut \in Nat
    BY DEF typePut
  <2>6. RecordAt(Record(typePut, k, v), 0).key = k
    <3>1. WholeRecord(Record(typePut, k, v), typePut, k)
      BY <2>3, <2>5, RecordFits
    <3> QED
      BY <3>1 DEF WholeRecord
  <2>7. LaidAt(g, ss, j)
    BY <1>6
  <2> QED
    BY <1>12, <2>1, <2>4, <2>6, <2>7 DEF LaidAt
<1>16. Latest(rs, key, i)
  <2>1. \A j \in 1..n : rs[j].key = key => j = i
    BY <1>1, <1>3, <1>7, <1>15
  <2>2. i \in 1..n /\ rs[i].key = key /\ ~ (i > i)
    BY <1>3, <1>7, <1>15
  <2> QED
    BY <1>14, <2>1, <2>2 DEF Latest
<1>17. LatestDecides(rs, Load(g))
  <2>1. DOMAIN rs \subseteq Nat
    BY <1>3, <1>14
  <2>2. LatestDecides(rs, LoadOf(rs))
    BY <2>1, LoadOfFacts
  <2> QED
    BY <1>12, <2>2, LoadIs
<1>18. /\ key \in DOMAIN Load(g)
       /\ Load(g)[key].offset = e.offset /\ Load(g)[key].size = e.size
  BY <1>13, <1>16, <1>17 DEF LatestDecides
<1>19. e.offset \in Nat
  <2>1. i \in 1..Len(rs)
    BY <1>3, <1>6, <1>12
  <2> QED
    BY <1>6, <1>13, <1>14, <2>1, ChainFacts
<1>20. Sound(g, e, key) /\ ValueAt(g, e, key) = value
  <2>1. Holds(g, e.offset, Record(typePut, key, value)) /\ e.size = Len(Record(typePut, key, value))
    BY <1>10, <1>13
  <2> QED
    BY <1>6, <1>9, <1>19, <2>1, HoldsRead
<1>21. PlacedIndex(ss, order)[key] = e
  <2>1. (CHOOSE j \in DOMAIN order : order[j] = key) = i
    BY <1>1, <1>7
  <2>2. key \in Range(order)
    BY <1>7 DEF Range
  <2> QED
    BY <1>11, <2>1, <2>2 DEF PlacedIndex
<1> QED
  BY <1>7, <1>8, <1>11, <1>18, <1>20, <1>21

\* After compaction every key reads as before, and as it would after a restart.
LEMMA CompactFacts ==
    ASSUME NEW f \in Seq(Nat), NEW idx, SoundIndex(f, idx),
           NEW order \in SetToSeqs(Readables(f, idx)),
           NEW ss, ss = Compacted(f, idx, order),
           NEW g, g = FlattenSeq(ss),
           NEW new, new = PlacedIndex(ss, order)
    PROVE  /\ g \in Seq(Nat) /\ Whole(g)
           /\ SoundIndex(g, new)
           /\ \A key \in Seq(Nat) : Read(g, new, key) = Read(f, idx, key)
           /\ \A key \in Seq(Nat) : Read(g, Load(g), key) = Read(f, idx, key)
           /\ \A key : SameEntry(new, Load(g), key)
<1>0. PICK S : S = Readables(f, idx)
  OBVIOUS
<1>1. order \in Seq(S) /\ Range(order) = S
  BY <1>0, OrderFacts
<1>2. PICK n : n = Len(order)
  OBVIOUS
<1>3. n \in Nat /\ DOMAIN order = 1..n
  BY <1>1, <1>2, LenProperties
<1>4. ss \in Seq(PutRecords) /\ Len(ss) = n
  BY <1>2, CompactedFacts
<1>5. g \in Seq(Nat) /\ Whole(g) /\ Len(Records(g)) = n /\ \A j \in 1..n : LaidAt(g, ss, j)
  BY <1>4, FlattenLaid DEF Laid
<1>6. DOMAIN new = S
  BY <1>1 DEF PlacedIndex
<1>7. \A key \in S : \E i \in DOMAIN order : order[i] = key
  BY <1>1 DEF Range
<1>8. ASSUME NEW key \in S
      PROVE  /\ Sound(g, new[key], key) /\ ValueAt(g, new[key], key) = Read(f, idx, key)
             /\ key \in DOMAIN Load(g)
             /\ Load(g)[key].offset = new[key].offset /\ Load(g)[key].size = new[key].size
  <2>1. PICK i \in DOMAIN order : order[i] = key
    BY <1>7
  <2>2. Sound(g, Place(ss, i), order[i])
    BY CompactedEntry
  <2>3. ValueAt(g, Place(ss, i), order[i]) = Read(f, idx, order[i])
    BY CompactedEntry
  <2>4. /\ order[i] \in DOMAIN Load(g)
        /\ Load(g)[order[i]].offset = Place(ss, i).offset
        /\ Load(g)[order[i]].size = Place(ss, i).size
    BY CompactedEntry
  <2>5. PlacedIndex(ss, order)[order[i]] = Place(ss, i)
    BY CompactedEntry
  <2> QED
    BY <2>1, <2>2, <2>3, <2>4, <2>5
<1>9. S \subseteq Seq(Nat) /\ IsFiniteSet(S)
  <2>1. S \subseteq DOMAIN idx
    BY <1>0 DEF Readables
  <2> QED
    BY <2>1, FS_Subset DEF SoundIndex
<1>10. SoundIndex(g, new)
  BY <1>6, <1>8, <1>9 DEF SoundIndex
<1>11. \A key \in DOMAIN Load(g) : key \in S
  <2> SUFFICES ASSUME NEW key \in DOMAIN Load(g)
               PROVE  key \in S
    OBVIOUS
  <2>1. PICK rs : rs = Records(g) /\ Chain(g, rs, 0)
    BY <1>5, RecordsChain
  <2>2. DOMAIN rs = 1..n
    BY <1>5, <2>1, ChainFacts
  <2>3. DOMAIN rs \subseteq Nat
    BY <1>3, <2>2
  <2>4. LatestDecides(rs, LoadOf(rs)) /\ Load(g) = LoadOf(rs)
    BY <2>1, <2>3, LoadOfFacts, LoadIs
  <2>5. PICK i : Latest(rs, key, i)
    BY <2>4 DEF LatestDecides
  <2>6. i \in 1..n /\ rs[i].key = key
    BY <2>2, <2>5 DEF Latest
  <2>7. LaidAt(g, ss, i)
    BY <1>5, <2>6
  <2>8. order[i] \in S
    BY <1>1, <1>2, <2>6, ElementOfSeq
  <2>9. PICK k, v : k = order[i] /\ v = Read(f, idx, order[i])
    OBVIOUS
  <2>10. k \in Seq(Nat) /\ v \in Seq(Nat)
    BY <1>0, <2>8, <2>9, ReadableFacts
  <2>11. ss[i] = Record(typePut, k, v)
    BY <1>3, <2>6, <2>9 DEF Compacted
  <2>12. typePut \in Nat
    BY DEF typePut
  <2>13. RecordAt(Record(typePut, k, v), 0).key = k
    <3>1. WholeRecord(Record(typePut, k, v), typePut, k)
      BY <2>10, <2>12, RecordFits
    <3> QED
      BY <3>1 DEF WholeRecord
  <2>14. key = k
    BY <2>1, <2>6, <2>7, <2>11, <2>13 DEF LaidAt
  <2> QED
    BY <2>8, <2>9, <2>14
<1>12. \A key : SameEntry(new, Load(g), key)
  BY <1>6, <1>8, <1>11 DEF SameEntry
<1>13. ASSUME NEW key \in Seq(Nat)
       PROVE  Read(g, new, key) = Read(f, idx, key)
  <2>1. CASE key \in S
    <3>1. Sound(g, new[key], key) /\ key \in DOMAIN new
      BY <1>6, <1>8, <2>1
    <3>2. Read(g, new, key) = ValueAt(g, new[key], key)
      BY <1>5, <3>1, ReadIs
    <3> QED
      BY <1>8, <2>1, <3>2
  <2>2. CASE key \notin S
    <3>1. Read(g, new, key) = NoValue
      BY <1>6, <2>2 DEF Read
    <3>2. Read(f, idx, key) = NoValue
      <4>1. key \notin DOMAIN idx => Read(f, idx, key) = NoValue
        BY DEF Read
      <4> QED
        BY <1>0, <2>2, <4>1 DEF Readables
    <3> QED
      BY <3>1, <3>2
  <2> QED
    BY <2>1, <2>2
<1>14. ASSUME NEW key \in Seq(Nat)
       PROVE  Read(g, Load(g), key) = Read(g, new, key)
  <2>1. SameEntry(new, Load(g), key)
    BY <1>12
  <2> QED
    BY <2>1 DEF SameEntry, Read
<1> QED
  BY <1>5, <1>10, <1>12, <1>13, <1>14

-----------------------------------------------------------------------------
(* The inductive invariant.                                                *)

\* The types; StoreTypeOK adds what SoundIndex says of the entries.
Basic ==
    /\ file \in Seq(Nat)
    /\ status \in {"open", "down", "stuck"}
    /\ tears \in 0..MaxTears
    /\ tail \in SUBSET Keys /\ damaged \in BOOLEAN
    /\ acked \in [Keys -> Values \cup {NoValue, Unknown}]

\* The entries in use lead to records of Puts, in a damaged log too.
IndexSound == status = "open" => SoundIndex(file, entries)

\* Without a torn record the log ends with a record; a torn one makes its own key
\* uncertain.
TornTail ==
    /\ tail = {} => Whole(file)
    /\ \A k \in tail : acked[k] = Unknown

\* A restart finds what was written.
Recoverable ==
    \A k \in Keys : /\ Found(file, k) \in Values \cup {NoValue}
                    /\ acked[k] # Unknown => Found(file, k) = acked[k]

\* The index in use says what a restart would say, except about a torn key, and that
\* one reads as something that was written.
Agreeing ==
    status = "open" =>
        /\ \A k \in Keys \ tail : SameEntry(entries, Load(file), <<k>>)
        /\ \A k \in tail : Get(k) \in Values \cup {NoValue}

Undamaged == TornTail /\ Recoverable /\ Agreeing

StoreIInv == Basic /\ IndexSound /\ (~ damaged => Undamaged)

\* Document ids, values and record types are numbers and sequences of numbers.
LEMMA KeysFacts ==
    /\ \A k \in Keys : k \in Nat /\ <<k>> \in Seq(Nat)
    /\ \A v \in Values : v \in Seq(Nat)
    /\ <<>> \in Seq(Nat)
    /\ typePut \in Nat /\ typeDelete \in Nat
BY KeysAssumption DEF typePut, typeDelete

\* Indexes with the same entry read the same.
LEMMA SameEntryRead ==
    ASSUME NEW f, NEW a, NEW b, NEW key, SameEntry(a, b, key)
    PROVE  Read(f, a, key) = Read(f, b, key)
BY DEF SameEntry, Read

\* Entries that agree one with the next agree.
LEMMA SameEntryChain ==
    ASSUME NEW a, NEW b, NEW c, NEW d, NEW key,
           SameEntry(a, b, key), SameEntry(b, c, key), SameEntry(d, c, key)
    PROVE  SameEntry(a, d, key)
BY DEF SameEntry

\* Off the torn key, Get answers as a restart would.
LEMMA GetIsFound ==
    ASSUME Agreeing, status = "open", NEW k \in Keys \ tail
    PROVE  Get(k) = Found(file, k)
<1>1. SameEntry(entries, Load(file), <<k>>)
  BY DEF Agreeing
<1>2. Read(file, entries, <<k>>) = Read(file, Load(file), <<k>>)
  BY <1>1, SameEntryRead
<1> QED
  BY <1>2 DEF Get, Found

\* So Get always returns something that was written.
LEMMA GetType ==
    ASSUME Undamaged, status = "open", NEW k \in Keys
    PROVE  Get(k) \in Values \cup {NoValue}
<1>1. CASE k \in tail
  BY <1>1 DEF Undamaged, Agreeing
<1>2. CASE k \notin tail
  <2>1. Get(k) = Found(file, k)
    BY <1>2, GetIsFound DEF Undamaged
  <2> QED
    BY <2>1 DEF Undamaged, Recoverable
<1> QED
  BY <1>1, <1>2

\* The index that a Put leaves.
Added(f, idx, k, record) ==
    [key \in DOMAIN idx \cup {<<k>>} |->
        IF key = <<k>> THEN [offset |-> Len(f), size |-> Len(record)] ELSE idx[key]]

\* It is sound, reads the new value, and says the same of every other key.
LEMMA AddedFacts ==
    ASSUME NEW f \in Seq(Nat), NEW idx, SoundIndex(f, idx),
           NEW k \in Nat, NEW value \in Seq(Nat),
           NEW x, x = Record(typePut, <<k>>, value)
    PROVE  /\ SoundIndex(f \o x, Added(f, idx, k, x))
           /\ Read(f \o x, Added(f, idx, k, x), <<k>>) = value
           /\ <<k>> \in DOMAIN Added(f, idx, k, x)
           /\ Added(f, idx, k, x)[<<k>>].offset = Len(f)
           /\ Added(f, idx, k, x)[<<k>>].size = Len(x)
           /\ \A key : key # <<k>> => SameEntry(Added(f, idx, k, x), idx, key)
<1>1. PICK new : new = Added(f, idx, k, x)
  OBVIOUS
<1>2. PICK g : g = f \o x
  OBVIOUS
<1>3. x \in Seq(Nat) /\ <<k>> \in Seq(Nat) /\ typePut \in Nat
  BY RecordWritten, OneKey DEF typePut
<1>4. g \in Seq(Nat) /\ Grows(f, g)
  BY <1>2, <1>3, GrownFacts
<1>5. /\ Len(g) = Len(f) + Len(x) /\ Len(f) \in Nat /\ Len(x) \in Nat
      /\ \A j \in 1..Len(x) : g[Len(f) + j] = x[j]
  BY <1>2, <1>3, GrownFacts, LenProperties
<1>6. PICK e : e = [offset |-> Len(f), size |-> Len(x)]
  OBVIOUS
<1>7. e.offset = Len(f) /\ e.size = Len(x)
  BY <1>6
<1>8. /\ DOMAIN new = DOMAIN idx \cup {<<k>>} /\ new[<<k>>] = e
      /\ \A key \in DOMAIN idx : key # <<k>> => new[key] = idx[key]
  BY <1>1, <1>6 DEF Added
<1>9. Sound(g, e, <<k>>) /\ ValueAt(g, e, <<k>>) = value
  <2>1. Holds(g, e.offset, Record(typePut, <<k>>, value))
    <3>1. Len(f) + Len(x) <= Len(g)
      BY <1>5
    <3>2. Holds(g, e.offset, x)
      BY <1>5, <1>7, <3>1 DEF Holds
    <3> QED
      BY <3>2
  <2>2. e.offset \in Nat /\ e.size = Len(Record(typePut, <<k>>, value))
    BY <1>5, <1>7
  <2> QED
    BY <1>3, <1>4, <2>1, <2>2, HoldsRead
<1>10. \A key \in DOMAIN idx : key \in Seq(Nat) /\ Sound(f, idx[key], key)
  BY DEF SoundIndex
<1>11. \A key \in DOMAIN idx : Sound(g, idx[key], key)
  BY <1>4, <1>10, SoundGrows
<1>12. IsFiniteSet(DOMAIN new)
  <2>1. IsFiniteSet(DOMAIN idx)
    BY DEF SoundIndex
  <2> QED
    BY <1>8, <2>1, FS_AddElement
<1>13. \A key \in DOMAIN new : key \in Seq(Nat) /\ Sound(g, new[key], key)
  BY <1>3, <1>8, <1>9, <1>10, <1>11
<1>14. SoundIndex(g, new)
  BY <1>12, <1>13 DEF SoundIndex
<1>15. Read(g, new, <<k>>) = value
  <2>1. <<k>> \in DOMAIN new /\ Sound(g, new[<<k>>], <<k>>) /\ ValueAt(g, new[<<k>>], <<k>>) = value
    BY <1>8, <1>9
  <2> QED
    BY <1>3, <1>4, <2>1, ReadIs
<1>16. \A key : key # <<k>> => SameEntry(new, idx, key)
  BY <1>8 DEF SameEntry
<1> QED
  BY <1>1, <1>2, <1>7, <1>8, <1>14, <1>15, <1>16

\* An index stays sound when the log grows.
LEMMA IndexGrows ==
    ASSUME NEW f \in Seq(Nat), NEW x \in Seq(Nat), NEW idx, SoundIndex(f, idx)
    PROVE  SoundIndex(f \o x, idx)
<1>1. f \o x \in Seq(Nat) /\ Grows(f, f \o x)
  BY GrownFacts
<1>2. PICK g : g = f \o x
  OBVIOUS
<1>3. g \in Seq(Nat) /\ Grows(f, g)
  BY <1>1, <1>2
<1>4. \A key \in DOMAIN idx : key \in Seq(Nat) /\ Sound(f, idx[key], key)
  BY DEF SoundIndex
<1>5. \A key \in DOMAIN idx : Sound(g, idx[key], key)
  BY <1>3, <1>4, SoundGrows
<1> QED
  BY <1>2, <1>5 DEF SoundIndex

\* And when it loses a key.
LEMMA IndexShrinks ==
    ASSUME NEW f, NEW idx, SoundIndex(f, idx), NEW key
    PROVE  SoundIndex(f, [other \in DOMAIN idx \ {key} |-> idx[other]])
<1>1. PICK new : new = [other \in DOMAIN idx \ {key} |-> idx[other]]
  OBVIOUS
<1>2. /\ DOMAIN new = DOMAIN idx \ {key}
      /\ \A other \in DOMAIN new : other \in DOMAIN idx /\ new[other] = idx[other]
  BY <1>1
<1>3. IsFiniteSet(DOMAIN new)
  BY <1>2, FS_RemoveElement DEF SoundIndex
<1> QED
  BY <1>1, <1>2, <1>3 DEF SoundIndex

-----------------------------------------------------------------------------
(* Every step keeps it.                                                    *)

\* A write to the end of an undamaged log: who has not been written reads the same.
LEMMA OthersKept ==
    ASSUME Basic, Undamaged, tail = {}, NEW k \in Keys, NEW x \in Seq(Nat), WrittenFor(x, k),
           NEW m \in Keys, m # k
    PROVE  /\ Found(file \o x, m) = Found(file, m)
           /\ SameEntry(Load(file \o x), Load(file), <<m>>)
<1>1. k \in Nat /\ m \in Nat /\ <<m>> \in Seq(Nat) /\ <<m>> # <<k>>
  BY KeysFacts, OneKey
<1>2. file \in Seq(Nat) /\ Whole(file)
  BY DEF Basic, Undamaged, TornTail
<1>3. SameEntry(Load(file \o x), Load(file), <<m>>)
  BY <1>1, <1>2, AppendedEntries
<1>4. Read(file \o x, Load(file \o x), <<m>>) = Read(file, Load(file), <<m>>)
  BY <1>1, <1>2, AppendedReads
<1> QED
  BY <1>3, <1>4 DEF Found

\* A Put, of a damaged log too, keeps types and index.
LEMMA PutBasic ==
    ASSUME Basic, IndexSound, NEW k \in Keys, NEW v \in Values, Put(k, v)
    PROVE  Basic' /\ IndexSound'
<1>1. k \in Nat /\ v \in Seq(Nat) /\ typePut \in Nat
  BY KeysFacts
<1>2. PICK x : x = Record(typePut, <<k>>, v)
  OBVIOUS
<1>3. x \in Seq(Nat)
  BY <1>1, <1>2, RecordWritten
<1>4. /\ status = "open" /\ file' = file \o x /\ damaged' = (damaged \/ tail # {})
      /\ entries' = Added(file, entries, k, x)
      /\ acked' = [acked EXCEPT ![k] = v] /\ tail' = {} /\ status' = status /\ tears' = tears
  BY <1>2 DEF Put, WriteAtEnd, Added
<1>5. file \in Seq(Nat) /\ SoundIndex(file, entries)
  BY <1>4 DEF Basic, IndexSound
<1>6. file' \in Seq(Nat)
  BY <1>3, <1>4, <1>5, GrownFacts
<1>7. SoundIndex(file', entries')
  <2>1. SoundIndex(file \o x, Added(file, entries, k, x))
    BY <1>1, <1>2, <1>5, AddedFacts
  <2> QED
    BY <1>4, <2>1
<1>8. acked' \in [Keys -> Values \cup {NoValue, Unknown}]
  BY <1>4 DEF Basic
<1> QED
  BY <1>4, <1>6, <1>7, <1>8 DEF Basic, IndexSound

\* A Put behind a whole log: the restart finds its value, and all the others.
LEMMA PutUndamaged ==
    ASSUME Basic, IndexSound, Undamaged, tail = {}, NEW k \in Keys, NEW v \in Values, Put(k, v)
    PROVE  Undamaged'
<1>1. k \in Nat /\ v \in Seq(Nat) /\ typePut \in Nat /\ <<k>> \in Seq(Nat)
  BY KeysFacts
<1>2. PICK x : x = Record(typePut, <<k>>, v)
  OBVIOUS
<1>3. x \in Seq(Nat) /\ WrittenFor(x, k) /\ Complete(x) /\ RecordAt(x, 0).type = typePut
  BY <1>1, <1>2, RecordWritten
<1>4. /\ status = "open" /\ file' = file \o x
      /\ entries' = Added(file, entries, k, x)
      /\ acked' = [acked EXCEPT ![k] = v] /\ tail' = {}
  BY <1>2 DEF Put, WriteAtEnd, Added
<1>5. file \in Seq(Nat) /\ Whole(file) /\ SoundIndex(file, entries)
  BY <1>4 DEF Basic, IndexSound, Undamaged, TornTail
<1>6. Fits(x, 0) /\ RecordAt(x, 0).size = Len(x)
  BY <1>3 DEF Complete
<1>7. Whole(file \o x)
  BY <1>1, <1>3, <1>5, <1>6, AppendedKey
<1>8. /\ <<k>> \in DOMAIN Load(file \o x)
      /\ Load(file \o x)[<<k>>].offset = Len(file)
      /\ Load(file \o x)[<<k>>].size = Len(x)
  BY <1>1, <1>3, <1>5, <1>6, AppendedKey
<1>9. /\ <<k>> \in DOMAIN Added(file, entries, k, x)
      /\ Added(file, entries, k, x)[<<k>>].offset = Len(file)
      /\ Added(file, entries, k, x)[<<k>>].size = Len(x)
  BY <1>1, <1>2, <1>5, AddedFacts
<1>10. SameEntry(entries', Load(file'), <<k>>)
  BY <1>4, <1>8, <1>9 DEF SameEntry
<1>11. Found(file', k) = v
  <2>1. Read(file \o x, Added(file, entries, k, x), <<k>>) = v
    BY <1>1, <1>2, <1>5, AddedFacts
  <2>2. Read(file', entries', <<k>>) = v
    BY <1>4, <2>1
  <2> QED
    BY <1>10, <2>2, SameEntryRead DEF Found
<1>12. ASSUME NEW m \in Keys, m # k
       PROVE  /\ Found(file', m) = Found(file, m)
              /\ SameEntry(entries', Load(file'), <<m>>)
  <2>1. Found(file \o x, m) = Found(file, m) /\ SameEntry(Load(file \o x), Load(file), <<m>>)
    BY <1>3, <1>12, OthersKept
  <2>2. <<m>> # <<k>>
    BY <1>12, KeysFacts, OneKey
  <2>3. SameEntry(Added(file, entries, k, x), entries, <<m>>)
    BY <1>1, <1>2, <1>5, <2>2, AddedFacts
  <2>4. SameEntry(entries, Load(file), <<m>>)
    BY <1>4 DEF Undamaged, Agreeing
  <2>5. SameEntry(Added(file, entries, k, x), Load(file \o x), <<m>>)
    BY <2>1, <2>3, <2>4, SameEntryChain
  <2> QED
    BY <1>4, <2>1, <2>5
<1>13. TornTail'
  BY <1>4, <1>7 DEF TornTail
<1>14. Recoverable'
  <2> SUFFICES ASSUME NEW m \in Keys
               PROVE  /\ Found(file', m) \in Values \cup {NoValue}
                      /\ acked'[m] # Unknown => Found(file', m) = acked'[m]
    BY DEF Recoverable
  <2>1. CASE m = k
    BY <1>4, <1>11, <2>1 DEF Basic
  <2>2. CASE m # k
    <3>1. acked'[m] = acked[m]
      BY <1>4, <2>2 DEF Basic
    <3> QED
      BY <1>12, <2>2, <3>1 DEF Undamaged, Recoverable
  <2> QED
    BY <2>1, <2>2
<1>15. Agreeing'
  <2>1. \A m \in Keys : SameEntry(entries', Load(file'), <<m>>)
    BY <1>10, <1>12
  <2> QED
    BY <1>4, <2>1 DEF Agreeing
<1> QED
  BY <1>13, <1>14, <1>15 DEF Undamaged

\* The index that a Delete leaves.
Removed(idx, key) == [other \in DOMAIN idx \ {key} |-> idx[other]]

\* A Delete, of a damaged log too, keeps types and index.
LEMMA DeleteBasic ==
    ASSUME Basic, IndexSound, NEW k \in Keys, Delete(k)
    PROVE  Basic' /\ IndexSound'
<1>1. k \in Nat /\ <<>> \in Seq(Nat) /\ typeDelete \in Nat
  BY KeysFacts
<1>2. PICK x : x = Record(typeDelete, <<k>>, <<>>)
  OBVIOUS
<1>3. x \in Seq(Nat)
  BY <1>1, <1>2, RecordWritten
<1>4. /\ status = "open" /\ file' = file \o x /\ damaged' = (damaged \/ tail # {})
      /\ entries' = Removed(entries, <<k>>)
      /\ acked' = [acked EXCEPT ![k] = NoValue] /\ tail' = {} /\ status' = status /\ tears' = tears
  BY <1>2 DEF Delete, WriteAtEnd, Removed
<1>5. file \in Seq(Nat) /\ SoundIndex(file, entries)
  BY <1>4 DEF Basic, IndexSound
<1>6. file' \in Seq(Nat)
  BY <1>3, <1>4, <1>5, GrownFacts
<1>7. SoundIndex(file', entries')
  <2>1. SoundIndex(file \o x, entries)
    BY <1>3, <1>5, IndexGrows
  <2>2. SoundIndex(file', entries)
    BY <1>4, <2>1
  <2>3. SoundIndex(file', Removed(entries, <<k>>))
    BY <2>2, IndexShrinks DEF Removed
  <2> QED
    BY <1>4, <2>3
<1>8. acked' \in [Keys -> Values \cup {NoValue, Unknown}]
  BY <1>4 DEF Basic
<1> QED
  BY <1>4, <1>6, <1>7, <1>8 DEF Basic, IndexSound

\* A Delete behind a whole log: the restart no longer finds the key, and all the others.
LEMMA DeleteUndamaged ==
    ASSUME Basic, IndexSound, Undamaged, tail = {}, NEW k \in Keys, Delete(k)
    PROVE  Undamaged'
<1>1. k \in Nat /\ <<>> \in Seq(Nat) /\ typeDelete \in Nat /\ <<k>> \in Seq(Nat)
  BY KeysFacts
<1>2. PICK x : x = Record(typeDelete, <<k>>, <<>>)
  OBVIOUS
<1>3. x \in Seq(Nat) /\ WrittenFor(x, k) /\ Complete(x) /\ RecordAt(x, 0).type = typeDelete
  BY <1>1, <1>2, RecordWritten
<1>4. /\ status = "open" /\ file' = file \o x
      /\ entries' = Removed(entries, <<k>>)
      /\ acked' = [acked EXCEPT ![k] = NoValue] /\ tail' = {}
  BY <1>2 DEF Delete, WriteAtEnd, Removed
<1>5. file \in Seq(Nat) /\ Whole(file)
  BY DEF Basic, Undamaged, TornTail
<1>6. Fits(x, 0)
  BY <1>3 DEF Complete
<1>7. Whole(file \o x)
  BY <1>1, <1>3, <1>5, <1>6, AppendedKey
<1>8. <<k>> \notin DOMAIN Load(file \o x)
  <2>1. <<k>> \in DOMAIN Load(file \o x) <=> RecordAt(x, 0).type = typePut
    BY <1>1, <1>3, <1>5, <1>6, AppendedKey
  <2>2. typeDelete # typePut
    BY DEF typeDelete, typePut
  <2> QED
    BY <1>3, <2>1, <2>2
<1>9. SameEntry(entries', Load(file'), <<k>>)
  BY <1>4, <1>8 DEF SameEntry, Removed
<1>10. Found(file', k) = NoValue
  BY <1>4, <1>8 DEF Found, Read
<1>11. ASSUME NEW m \in Keys, m # k
       PROVE  /\ Found(file', m) = Found(file, m)
              /\ SameEntry(entries', Load(file'), <<m>>)
  <2>1. Found(file \o x, m) = Found(file, m) /\ SameEntry(Load(file \o x), Load(file), <<m>>)
    BY <1>3, <1>11, OthersKept
  <2>2. <<m>> # <<k>>
    BY <1>11, KeysFacts, OneKey
  <2>3. SameEntry(Removed(entries, <<k>>), entries, <<m>>)
    BY <2>2 DEF Removed, SameEntry
  <2>4. SameEntry(entries, Load(file), <<m>>)
    BY <1>4 DEF Undamaged, Agreeing
  <2>5. SameEntry(Removed(entries, <<k>>), Load(file \o x), <<m>>)
    BY <2>1, <2>3, <2>4, SameEntryChain
  <2> QED
    BY <1>4, <2>1, <2>5
<1>12. TornTail'
  BY <1>4, <1>7 DEF TornTail
<1>13. Recoverable'
  <2> SUFFICES ASSUME NEW m \in Keys
               PROVE  /\ Found(file', m) \in Values \cup {NoValue}
                      /\ acked'[m] # Unknown => Found(file', m) = acked'[m]
    BY DEF Recoverable
  <2>1. CASE m = k
    BY <1>4, <1>10, <2>1 DEF Basic
  <2>2. CASE m # k
    <3>1. acked'[m] = acked[m]
      BY <1>4, <2>2 DEF Basic
    <3> QED
      BY <1>11, <2>2, <3>1 DEF Undamaged, Recoverable
  <2> QED
    BY <2>1, <2>2
<1>14. Agreeing'
  <2>1. \A m \in Keys : SameEntry(entries', Load(file'), <<m>>)
    BY <1>9, <1>11
  <2> QED
    BY <1>4, <2>1 DEF Agreeing
<1> QED
  BY <1>12, <1>13, <1>14 DEF Undamaged

\* A write that is cut short; type and value are those of a Put or a Delete.
LEMMA TornBasic ==
    ASSUME Basic, IndexSound, NEW k \in Keys, NEW type \in Nat, NEW value \in Seq(Nat),
           Torn(k, Record(type, <<k>>, value))
    PROVE  Basic' /\ IndexSound'
<1>1. k \in Nat
  BY KeysFacts
<1>2. PICK n \in 1..(Len(Record(type, <<k>>, value)) - 1) :
         WriteAtEnd(SubSeq(Record(type, <<k>>, value), 1, n))
  BY DEF Torn
<1>3. PICK x : x = SubSeq(Record(type, <<k>>, value), 1, n)
  OBVIOUS
<1>4. x \in Seq(Nat)
  BY <1>1, <1>3, TornWritten
<1>5. /\ status = "open" /\ file' = file \o x /\ damaged' = (damaged \/ tail # {})
      /\ acked' = [acked EXCEPT ![k] = Unknown] /\ tail' = {k}
      /\ tears < MaxTears /\ tears' = tears + 1
      /\ \/ status' = "open" /\ entries' = entries
         \/ status' = "down"
  BY <1>2, <1>3 DEF Torn, WriteAtEnd
<1>6. file \in Seq(Nat) /\ SoundIndex(file, entries)
  BY <1>5 DEF Basic, IndexSound
<1>7. file' \in Seq(Nat)
  BY <1>4, <1>5, <1>6, GrownFacts
<1>8. IndexSound'
  <2>1. SoundIndex(file \o x, entries)
    BY <1>4, <1>6, IndexGrows
  <2>2. CASE status' = "open" /\ entries' = entries
    BY <1>5, <2>1, <2>2 DEF IndexSound
  <2>3. CASE status' = "down"
    BY <2>3 DEF IndexSound
  <2> QED
    BY <1>5, <2>2, <2>3
<1>9. acked' \in [Keys -> Values \cup {NoValue, Unknown}]
  BY <1>5 DEF Basic
<1>10. tears' \in 0..MaxTears
  BY <1>5, FileAssumption DEF Basic
<1> QED
  BY <1>5, <1>7, <1>8, <1>9, <1>10 DEF Basic

\* A write cut short behind a whole log: only its own key becomes uncertain.
LEMMA TornUndamaged ==
    ASSUME Basic, IndexSound, Undamaged, tail = {}, NEW k \in Keys,
           NEW type \in Nat, NEW value \in Seq(Nat), Torn(k, Record(type, <<k>>, value))
    PROVE  Undamaged'
<1>1. k \in Nat /\ <<k>> \in Seq(Nat)
  BY KeysFacts
<1>2. PICK n \in 1..(Len(Record(type, <<k>>, value)) - 1) :
         WriteAtEnd(SubSeq(Record(type, <<k>>, value), 1, n))
  BY DEF Torn
<1>3. PICK x : x = SubSeq(Record(type, <<k>>, value), 1, n)
  OBVIOUS
<1>4. x \in Seq(Nat) /\ WrittenFor(x, k) /\ ~ Complete(x)
  BY <1>1, <1>3, TornWritten
<1>5. /\ status = "open" /\ file' = file \o x
      /\ acked' = [acked EXCEPT ![k] = Unknown] /\ tail' = {k}
      /\ \/ status' = "open" /\ entries' = entries
         \/ status' = "down"
  BY <1>2, <1>3 DEF Torn, WriteAtEnd
<1>6. file \in Seq(Nat) /\ Whole(file) /\ SoundIndex(file, entries)
  BY <1>5 DEF Basic, IndexSound, Undamaged, TornTail
<1>7. acked'[k] = Unknown
  BY <1>5 DEF Basic
<1>8. ASSUME NEW m \in Keys, m # k
      PROVE  /\ Found(file', m) = Found(file, m)
             /\ SameEntry(entries, Load(file'), <<m>>)
  <2>1. Found(file \o x, m) = Found(file, m) /\ SameEntry(Load(file \o x), Load(file), <<m>>)
    BY <1>4, <1>8, OthersKept
  <2>2. SameEntry(entries, Load(file), <<m>>)
    BY <1>5 DEF Undamaged, Agreeing
  <2>3. SameEntry(entries, entries, <<m>>)
    BY DEF SameEntry
  <2>4. SameEntry(entries, Load(file \o x), <<m>>)
    BY <2>1, <2>2, <2>3, SameEntryChain
  <2> QED
    BY <1>5, <2>1, <2>4
<1>9. Found(file', k) \in Values \cup {NoValue}
  <2>1. Found(file \o x, k) \in {Found(file, k), NoValue}
    BY <1>1, <1>4, <1>6, TornKey
  <2>2. Found(file, k) \in Values \cup {NoValue}
    BY DEF Undamaged, Recoverable
  <2> QED
    BY <1>5, <2>1, <2>2
<1>10. Read(file', entries, <<k>>) \in Values \cup {NoValue}
  <2>1. SameEntry(entries, Load(file), <<k>>)
    BY <1>5 DEF Undamaged, Agreeing
  <2>2. SameEntry(entries, entries, <<k>>)
    BY DEF SameEntry
  <2>3. file' \in Seq(Nat) /\ Grows(file, file')
    BY <1>4, <1>5, <1>6, GrownFacts
  <2>4. ASSUME <<k>> \in DOMAIN entries
        PROVE  /\ Sound(file, entries[<<k>>], <<k>>)
               /\ entries[<<k>>].offset + entries[<<k>>].size <= Len(file)
    <3>1. <<k>> \in DOMAIN Load(file)
      BY <2>1, <2>4 DEF SameEntry
    <3>2. Load(file)[<<k>>].offset + Load(file)[<<k>>].size <= Len(file)
      BY <1>6, <3>1, WholeFacts
    <3>3. /\ entries[<<k>>].offset = Load(file)[<<k>>].offset
          /\ entries[<<k>>].size = Load(file)[<<k>>].size
      BY <2>1, <2>4 DEF SameEntry
    <3>4. Sound(file, entries[<<k>>], <<k>>)
      BY <1>6, <2>4 DEF SoundIndex
    <3> QED
      BY <3>2, <3>3, <3>4
  <2>5. Read(file', entries, <<k>>) = Read(file, entries, <<k>>)
    <3>1. PICK g, a : g = file' /\ a = entries
      OBVIOUS
    <3>2. PICK key : key = <<k>>
      OBVIOUS
    <3>3. key \in Seq(Nat) /\ g \in Seq(Nat) /\ Grows(file, g) /\ SameEntry(a, a, key)
      BY <1>1, <2>2, <2>3, <3>1, <3>2
    <3>4. key \in DOMAIN a => Sound(file, a[key], key) /\ a[key].offset + a[key].size <= Len(file)
      BY <2>4, <3>1, <3>2
    <3>5. Read(g, a, key) = Read(file, a, key)
      BY <1>6, <3>3, <3>4, KeptRead
    <3> QED
      BY <3>1, <3>2, <3>5
  <2>6. Get(k) \in Values \cup {NoValue}
    BY <1>5, GetType
  <2> QED
    BY <1>5, <2>5, <2>6 DEF Get
<1>11. TornTail'
  BY <1>5, <1>7 DEF TornTail
<1>12. Recoverable'
  <2> SUFFICES ASSUME NEW m \in Keys
               PROVE  /\ Found(file', m) \in Values \cup {NoValue}
                      /\ acked'[m] # Unknown => Found(file', m) = acked'[m]
    BY DEF Recoverable
  <2>1. CASE m = k
    BY <1>7, <1>9, <2>1
  <2>2. CASE m # k
    <3>1. acked'[m] = acked[m]
      BY <1>5, <2>2 DEF Basic
    <3> QED
      BY <1>8, <2>2, <3>1 DEF Undamaged, Recoverable
  <2> QED
    BY <2>1, <2>2
<1>13. Agreeing'
  <2>1. CASE status' = "open" /\ entries' = entries
    <3>1. Get(k)' \in Values \cup {NoValue}
      BY <1>10, <2>1 DEF Get
    <3>2. \A m \in Keys \ {k} : SameEntry(entries', Load(file'), <<m>>)
      BY <1>8, <2>1
    <3> QED
      BY <1>5, <3>1, <3>2 DEF Agreeing
  <2>2. CASE status' = "down"
    BY <2>2 DEF Agreeing
  <2> QED
    BY <1>5, <2>1, <2>2
<1> QED
  BY <1>11, <1>12, <1>13 DEF Undamaged

-----------------------------------------------------------------------------
(* Compaction, and the steps that do not write.                            *)

\* What a compaction writes and leaves.
CompactsTo(order, ss, new) ==
    /\ status = "open"
    /\ order \in SetToSeqs(Readables(file, entries))
    /\ ss = Compacted(file, entries, order)
    /\ new = PlacedIndex(ss, order)
    /\ file' = FlattenSeq(ss)
    /\ (status' = "open" /\ entries' = new) \/ status' = "stuck"
    /\ tail' = {} /\ tears' = tears /\ damaged' = damaged /\ acked' = acked

\* A compaction chooses an order of the readable keys, and with it a log and an index.
LEMMA CompactIs ==
    ASSUME Compact
    PROVE  \E order, ss, new : CompactsTo(order, ss, new)
<1>1. PICK order \in SetToSeqs(Readables(file, entries)) :
         /\ file' = FlattenSeq(Compacted(file, entries, order))
         /\ \/ /\ entries' = PlacedIndex(Compacted(file, entries, order), order)
               /\ UNCHANGED status
            \/ status' = "stuck" /\ UNCHANGED entries
  BY DEF Compact, Readables, Compacted, PlacedIndex
<1>2. PICK ss : ss = Compacted(file, entries, order)
  OBVIOUS
<1>3. PICK new : new = PlacedIndex(ss, order)
  OBVIOUS
<1>4. /\ status = "open" /\ tail' = {} /\ tears' = tears /\ damaged' = damaged /\ acked' = acked
  BY DEF Compact
<1>5. CompactsTo(order, ss, new)
  BY <1>1, <1>2, <1>3, <1>4 DEF CompactsTo
<1> QED
  BY <1>5

\* Every key reads in the new log as it did in the old one, after a restart too.
LEMMA CompactReads ==
    ASSUME Basic, IndexSound, NEW order, NEW ss, NEW new, CompactsTo(order, ss, new)
    PROVE  /\ file' \in Seq(Nat) /\ Whole(file') /\ SoundIndex(file', new)
           /\ \A key \in Seq(Nat) : Read(file', new, key) = Read(file, entries, key)
           /\ \A key \in Seq(Nat) : Read(file', Load(file'), key) = Read(file, entries, key)
           /\ \A key : SameEntry(new, Load(file'), key)
<1>1. file \in Seq(Nat) /\ SoundIndex(file, entries)
  BY DEF Basic, IndexSound, CompactsTo
<1>2. PICK g : g = FlattenSeq(ss)
  OBVIOUS
<1>3. /\ order \in SetToSeqs(Readables(file, entries))
      /\ ss = Compacted(file, entries, order) /\ new = PlacedIndex(ss, order)
  BY DEF CompactsTo
<1>4. g \in Seq(Nat) /\ Whole(g) /\ SoundIndex(g, new)
  BY <1>1, <1>2, <1>3, CompactFacts
<1>5. \A key \in Seq(Nat) : Read(g, new, key) = Read(file, entries, key)
  BY <1>1, <1>2, <1>3, CompactFacts
<1>6. \A key \in Seq(Nat) : Read(g, Load(g), key) = Read(file, entries, key)
  BY <1>1, <1>2, <1>3, CompactFacts
<1>7. \A key : SameEntry(new, Load(g), key)
  BY <1>1, <1>2, <1>3, CompactFacts
<1>8. file' = g
  BY <1>2 DEF CompactsTo
<1> QED
  BY <1>4, <1>5, <1>6, <1>7, <1>8

\* A compaction, of a damaged log too, keeps types and index.
LEMMA CompactBasic ==
    ASSUME Basic, IndexSound, Compact
    PROVE  Basic' /\ IndexSound'
<1>1. PICK order, ss, new : CompactsTo(order, ss, new)
  BY CompactIs
<1>2. file' \in Seq(Nat) /\ SoundIndex(file', new)
  BY <1>1, CompactReads
<1>3. IndexSound'
  BY <1>1, <1>2 DEF IndexSound, CompactsTo
<1>4. Basic'
  BY <1>1, <1>2 DEF Basic, CompactsTo
<1> QED
  BY <1>3, <1>4

\* A compaction settles a torn key, and changes no other.
LEMMA CompactUndamaged ==
    ASSUME Basic, IndexSound, Undamaged, Compact
    PROVE  Undamaged'
<1>1. PICK order, ss, new : CompactsTo(order, ss, new)
  BY CompactIs
<1>2. Whole(file') /\ \A key : SameEntry(new, Load(file'), key)
  BY <1>1, CompactReads
<1>3. status = "open" /\ tail' = {} /\ acked' = acked
  BY <1>1 DEF CompactsTo
<1>4. ASSUME NEW m \in Keys
      PROVE  Found(file', m) = Get(m)
  <2>1. <<m>> \in Seq(Nat)
    BY KeysFacts
  <2>2. Read(file', Load(file'), <<m>>) = Read(file, entries, <<m>>)
    BY <1>1, <2>1, CompactReads
  <2> QED
    BY <1>3, <2>2 DEF Found, Get
<1>5. TornTail'
  BY <1>2, <1>3 DEF TornTail
<1>6. Recoverable'
  <2> SUFFICES ASSUME NEW m \in Keys
               PROVE  /\ Found(file', m) \in Values \cup {NoValue}
                      /\ acked'[m] # Unknown => Found(file', m) = acked'[m]
    BY DEF Recoverable
  <2>1. Get(m) \in Values \cup {NoValue}
    BY <1>3, GetType
  <2>2. ASSUME acked[m] # Unknown
        PROVE  Get(m) = acked[m]
    <3>1. m \notin tail
      BY <2>2 DEF Undamaged, TornTail
    <3>2. Get(m) = Found(file, m)
      BY <1>3, <3>1, GetIsFound DEF Undamaged
    <3> QED
      BY <2>2, <3>2 DEF Undamaged, Recoverable
  <2> QED
    BY <1>3, <1>4, <2>1, <2>2
<1>7. Agreeing'
  <2>1. status' = "open" => entries' = new
    BY <1>1 DEF CompactsTo
  <2> QED
    BY <1>2, <1>3, <2>1 DEF Agreeing
<1> QED
  BY <1>5, <1>6, <1>7 DEF Undamaged

\* The steps that leave the log as it is.
Quiet == CompactFails \/ Stop \/ New \/ UNCHANGED storeVars

\* They keep types and index: New builds a sound one of any log.
LEMMA QuietBasic ==
    ASSUME Basic, IndexSound, Quiet
    PROVE  Basic' /\ IndexSound'
<1>1. /\ file' = file /\ tears' = tears /\ tail' = tail /\ damaged' = damaged /\ acked' = acked
      /\ status' \in {"open", "down", "stuck"}
  BY DEF Quiet, CompactFails, Stop, New, storeVars, Basic
<1>2. IndexSound'
  <2>1. CASE New
    <3>1. file \in Seq(Nat)
      BY DEF Basic
    <3>2. SoundIndex(file, Load(file))
      BY <3>1, LoadSound
    <3> QED
      BY <1>1, <2>1, <3>2 DEF New, IndexSound
  <2>2. CASE CompactFails \/ Stop
    BY <2>2 DEF CompactFails, Stop, IndexSound
  <2>3. CASE UNCHANGED storeVars
    BY <2>3 DEF storeVars, IndexSound
  <2> QED
    BY <2>1, <2>2, <2>3 DEF Quiet
<1>3. Basic'
  BY <1>1 DEF Basic
<1> QED
  BY <1>2, <1>3

\* They keep what a restart finds; New makes it what Get finds.
LEMMA QuietUndamaged ==
    ASSUME Basic, Undamaged, Quiet
    PROVE  Undamaged'
<1>1. file' = file /\ tail' = tail /\ acked' = acked
  BY DEF Quiet, CompactFails, Stop, New, storeVars
<1>2. TornTail' /\ Recoverable'
  BY <1>1 DEF Undamaged, TornTail, Recoverable
<1>3. Agreeing'
  <2>1. CASE New
    <3>1. status' = "open" /\ entries' = Load(file')
      BY <1>1, <2>1 DEF New
    <3>2. \A key : SameEntry(entries', Load(file'), key)
      BY <3>1 DEF SameEntry
    <3>3. \A m \in Keys : Get(m)' = Found(file, m)
      BY <1>1, <3>1 DEF Get, Found
    <3>4. \A m \in tail : Get(m)' \in Values \cup {NoValue}
      BY <3>3 DEF Undamaged, Recoverable, Basic
    <3> QED
      BY <1>1, <3>2, <3>4 DEF Agreeing
  <2>2. CASE CompactFails \/ Stop
    BY <2>2 DEF CompactFails, Stop, Agreeing
  <2>3. CASE UNCHANGED storeVars
    BY <2>3 DEF storeVars, Undamaged, Agreeing, Get
  <2> QED
    BY <2>1, <2>2, <2>3 DEF Quiet
<1> QED
  BY <1>2, <1>3 DEF Undamaged

\* The writes that are cut short are those of a Put or a Delete.
LEMMA TornIs ==
    ASSUME NEW k \in Keys, (\E v \in Values : TornPut(k, v)) \/ TornDelete(k)
    PROVE  \E type \in Nat, value \in Seq(Nat) : Torn(k, Record(type, <<k>>, value))
BY KeysFacts DEF TornPut, TornDelete

\* A step is one of these.
LEMMA NextCases ==
    ASSUME [StoreNext]_storeVars
    PROVE  \/ \E k \in Keys, v \in Values : Put(k, v)
           \/ \E k \in Keys : Delete(k)
           \/ \E k \in Keys, type \in Nat, value \in Seq(Nat) : Torn(k, Record(type, <<k>>, value))
           \/ Compact
           \/ Quiet
<1>1. CASE UNCHANGED storeVars
  BY <1>1 DEF Quiet
<1>2. CASE StoreNext
  <2>1. CASE \E k \in Keys : (\E v \in Values : TornPut(k, v)) \/ TornDelete(k)
    BY <2>1, TornIs
  <2> QED
    BY <1>2, <2>1 DEF StoreNext, Quiet
<1> QED
  BY <1>1, <1>2

\* The invariant is inductive.
LEMMA Inductive ==
    ASSUME StoreIInv, [StoreNext]_storeVars
    PROVE  StoreIInv'
<1>1. Basic /\ IndexSound /\ (~ damaged => Undamaged)
  BY DEF StoreIInv
<1>2. Basic' /\ IndexSound'
  BY <1>1, NextCases, PutBasic, DeleteBasic, TornBasic, CompactBasic, QuietBasic
<1>3. ASSUME ~ damaged'
      PROVE  Undamaged'
  <2>1. CASE \E k \in Keys, v \in Values : Put(k, v)
    <3>1. PICK k \in Keys, v \in Values : Put(k, v)
      BY <2>1
    <3>2. ~ damaged /\ tail = {}
      BY <1>3, <3>1 DEF Put, WriteAtEnd
    <3> QED
      BY <1>1, <3>1, <3>2, PutUndamaged
  <2>2. CASE \E k \in Keys : Delete(k)
    <3>1. PICK k \in Keys : Delete(k)
      BY <2>2
    <3>2. ~ damaged /\ tail = {}
      BY <1>3, <3>1 DEF Delete, WriteAtEnd
    <3> QED
      BY <1>1, <3>1, <3>2, DeleteUndamaged
  <2>3. CASE \E k \in Keys, type \in Nat, value \in Seq(Nat) : Torn(k, Record(type, <<k>>, value))
    <3>1. PICK k \in Keys, type \in Nat, value \in Seq(Nat) : Torn(k, Record(type, <<k>>, value))
      BY <2>3
    <3>2. ~ damaged /\ tail = {}
      BY <1>3, <3>1 DEF Torn, WriteAtEnd
    <3> QED
      BY <1>1, <3>1, <3>2, TornUndamaged
  <2>4. CASE Compact
    <3>1. ~ damaged
      BY <1>3, <2>4 DEF Compact
    <3> QED
      BY <1>1, <2>4, <3>1, CompactUndamaged
  <2>5. CASE Quiet
    <3>1. ~ damaged
      BY <1>3, <2>5 DEF Quiet, CompactFails, Stop, New, storeVars
    <3> QED
      BY <1>1, <2>5, <3>1, QuietUndamaged
  <2> QED
    BY <2>1, <2>2, <2>3, <2>4, <2>5, NextCases
<1> QED
  BY <1>2, <1>3 DEF StoreIInv

\* The empty store satisfies it.
LEMMA Initially ==
    ASSUME StoreInit
    PROVE  StoreIInv
<1>1. /\ file = <<>> /\ entries = << >> /\ status = "open" /\ tears = 0 /\ tail = {}
      /\ damaged = FALSE /\ acked = [k \in Keys |-> NoValue]
  BY DEF StoreInit
<1>2. Records(file) = <<>> /\ Whole(file) /\ file \in Seq(Nat)
  BY <1>1, EmptyLaid, EmptySeq
<1>3. DOMAIN Load(file) = {}
  <2>1. DOMAIN <<>> = {}
    OBVIOUS
  <2>2. DOMAIN LoadOf(<<>>) = {}
    <3>1. LatestDecides(<<>>, LoadOf(<<>>))
      BY <2>1, LoadOfFacts
    <3>2. \A key : key \notin DOMAIN LoadOf(<<>>)
      BY <2>1, <3>1 DEF LatestDecides, Latest
    <3> QED
      BY <3>2
  <2> QED
    BY <1>2, <2>2, LoadIs
<1>4. DOMAIN entries = {}
  BY <1>1
<1>5. Basic
  <2>1. 0 \in 0..MaxTears
    BY FileAssumption
  <2>2. [k \in Keys |-> NoValue] \in [Keys -> Values \cup {NoValue, Unknown}]
    OBVIOUS
  <2>3. {} \in SUBSET Keys /\ FALSE \in BOOLEAN
    OBVIOUS
  <2> QED
    BY <1>1, <1>2, <2>1, <2>2, <2>3 DEF Basic
<1>6. IndexSound
  <2>1. IsFiniteSet({})
    BY FS_EmptySet
  <2> QED
    BY <1>4, <2>1 DEF IndexSound, SoundIndex
<1>7. \A m \in Keys : Found(file, m) = NoValue /\ acked[m] = NoValue
  BY <1>1, <1>3 DEF Found, Read
<1>8. TornTail
  BY <1>1, <1>2 DEF TornTail
<1>9. Recoverable
  BY <1>7 DEF Recoverable
<1>10. Agreeing
  BY <1>1, <1>3, <1>4 DEF Agreeing, SameEntry
<1> QED
  BY <1>5, <1>6, <1>8, <1>9, <1>10 DEF StoreIInv, Undamaged

\* The invariant holds in every reachable state: the index leads to records of the log,
\* and an undamaged log holds what the completed writes left.
THEOREM InvariantCorrect == StoreSpec => []StoreIInv
<1>1. StoreInit => StoreIInv
  BY Initially
<1>2. StoreIInv /\ [StoreNext]_storeVars => StoreIInv'
  BY Inductive
<1> QED
  BY <1>1, <1>2, PTL DEF StoreSpec

\* The types of the log and its index, damaged or not: an entry of the index in use
\* starts at a whole header and key, so that get never reads a header behind the end.
THEOREM StoreTypeCorrect == StoreSpec => []StoreTypeOK
<1>1. ASSUME StoreIInv
      PROVE  StoreTypeOK
  <2>1. ASSUME status = "open", NEW key \in DOMAIN entries
        PROVE  /\ entries[key].offset \in Nat /\ entries[key].size \in Nat
               /\ entries[key].offset + headerSize + Len(key) <= Len(file)
    <3>1. Sound(file, entries[key], key)
      BY <1>1, <2>1 DEF StoreIInv, IndexSound, SoundIndex
    <3> QED
      BY <3>1 DEF Sound
  <2>2. Basic
    BY <1>1 DEF StoreIInv
  <2> QED
    BY <2>1, <2>2 DEF StoreTypeOK, Basic
<1> QED
  BY <1>1, InvariantCorrect, PTL

\* What a restart finds, key by key.
LEMMA RecoveredIs == \A k \in Keys : Recovered[k] = Found(file, k)
BY DEF Recovered, Found

\* New rebuilds an index that answers as the one built write by write, except about a
\* key whose last record was cut short.
THEOREM RestartCorrect == StoreSpec => []RestartChangesNothing
<1>1. ASSUME StoreIInv
      PROVE  RestartChangesNothing
  <2> SUFFICES ASSUME status = "open", ~ damaged, NEW k \in Keys \ tail
               PROVE  Get(k) = Recovered[k]
    BY DEF RestartChangesNothing
  <2>1. Get(k) = Found(file, k)
    BY <1>1, GetIsFound DEF StoreIInv, Undamaged
  <2> QED
    BY <2>1, RecoveredIs
<1> QED
  BY <1>1, InvariantCorrect, PTL

\* A key whose last Put or Delete returned without error reads back what that wrote, as
\* long as nothing was written behind a torn record.
THEOREM ReadsBackCorrect == StoreSpec => []UndamagedReadsBack
<1>1. ASSUME StoreIInv
      PROVE  UndamagedReadsBack
  <2> SUFFICES ASSUME ~ damaged, status = "open", NEW k \in Keys, acked[k] # Unknown
               PROVE  Get(k) = acked[k]
    BY DEF UndamagedReadsBack, AckedReadsBack
  <2>1. Undamaged
    BY <1>1 DEF StoreIInv
  <2>2. k \notin tail
    BY <2>1 DEF Undamaged, TornTail
  <2>3. Get(k) = Found(file, k)
    BY <2>1, <2>2, GetIsFound DEF Undamaged
  <2>4. Found(file, k) = acked[k]
    BY <2>1 DEF Undamaged, Recoverable
  <2> QED
    BY <2>3, <2>4
<1> QED
  BY <1>1, InvariantCorrect, PTL

\* A write to the end extends the log.
LEMMA AppendExtends ==
    ASSUME NEW f \in Seq(Nat), NEW x \in Seq(Nat)
    PROVE  IsPrefix(f, f \o x) /\ IsPrefix(f, f)
<1>0. PICK n : n = Len(f)
  OBVIOUS
<1>1. PICK g : g = f \o x
  OBVIOUS
<1>2. n \in Nat /\ g \in Seq(Nat) /\ n <= Len(g) /\ \A i \in 1..n : g[i] = f[i] /\ f[i] \in Nat /\ g[i] \in Nat
  <2>1. Grows(f, g) /\ g \in Seq(Nat)
    BY <1>1, GrownFacts
  <2>2. n \in Nat /\ \A i \in 1..n : f[i] \in Nat
    BY <1>0, LenProperties, ElementOfSeq
  <2> QED
    BY <1>0, <2>1, <2>2 DEF Grows
<1>3. 1 \in Int /\ n \in Int
  BY <1>2
<1>4. /\ SubSeq(f, 1, n) \in Seq(Nat)
      /\ Len(SubSeq(f, 1, n)) = IF 1 <= n THEN n - 1 + 1 ELSE 0
      /\ \A j \in 1..(n - 1 + 1) : SubSeq(f, 1, n)[j] = f[1 + j - 1]
  BY <1>2, <1>3, SubSeqProperties
<1>5. /\ SubSeq(g, 1, n) \in Seq(Nat)
      /\ Len(SubSeq(g, 1, n)) = IF 1 <= n THEN n - 1 + 1 ELSE 0
      /\ \A j \in 1..(n - 1 + 1) : SubSeq(g, 1, n)[j] = g[1 + j - 1]
  BY <1>2, <1>3, SubSeqProperties
<1>6. (IF 1 <= n THEN n - 1 + 1 ELSE 0) = n /\ n - 1 + 1 = n /\ \A j \in 1..n : 1 + j - 1 = j
  BY <1>2
<1>7. Len(SubSeq(f, 1, n)) = n /\ Len(SubSeq(g, 1, n)) = n
  BY <1>4, <1>5, <1>6
<1>8. \A j \in 1..n : SubSeq(f, 1, n)[j] = SubSeq(g, 1, n)[j]
  BY <1>2, <1>4, <1>5, <1>6
<1>9. SubSeq(f, 1, n) = SubSeq(g, 1, n)
  BY <1>4, <1>5, <1>7, <1>8, SeqEqual
<1>10. Len(f) <= Len(f)
  BY <1>0, <1>2
<1> QED
  BY <1>0, <1>1, <1>2, <1>9, <1>10 DEF IsPrefix

\* A compaction, of a damaged log too, changes no answer of the process that goes on;
\* no other step rewrites the log.
LEMMA RewriteStep ==
    ASSUME StoreIInv, [StoreNext]_storeVars, ~ IsPrefix(file, file'), status' = "open", NEW k \in Keys
    PROVE  Get(k)' = Get(k)
<1>1. Basic /\ IndexSound /\ file \in Seq(Nat) /\ k \in Nat /\ <<k>> \in Seq(Nat)
  BY KeysFacts DEF StoreIInv, Basic
<1>2. ASSUME NEW x \in Seq(Nat), WriteAtEnd(x)
      PROVE  FALSE
  <2>1. file' = file \o x
    BY <1>2 DEF WriteAtEnd
  <2>2. IsPrefix(file, file \o x)
    BY <1>1, AppendExtends
  <2> QED
    BY <2>1, <2>2
<1>3. CASE \E m \in Keys, v \in Values : Put(m, v)
  <2>1. PICK m \in Keys, v \in Values : Put(m, v)
    BY <1>3
  <2>2. WriteAtEnd(Record(typePut, <<m>>, v))
    BY <2>1 DEF Put
  <2>3. m \in Nat /\ v \in Seq(Nat) /\ typePut \in Nat
    BY KeysFacts
  <2>4. Record(typePut, <<m>>, v) \in Seq(Nat)
    BY <2>3, RecordWritten
  <2> QED
    BY <1>2, <2>2, <2>4
<1>4. CASE \E m \in Keys : Delete(m)
  <2>1. PICK m \in Keys : Delete(m)
    BY <1>4
  <2>2. WriteAtEnd(Record(typeDelete, <<m>>, <<>>))
    BY <2>1 DEF Delete
  <2>3. m \in Nat /\ <<>> \in Seq(Nat) /\ typeDelete \in Nat
    BY KeysFacts
  <2>4. Record(typeDelete, <<m>>, <<>>) \in Seq(Nat)
    BY <2>3, RecordWritten
  <2> QED
    BY <1>2, <2>2, <2>4
<1>5. CASE \E m \in Keys, type \in Nat, value \in Seq(Nat) : Torn(m, Record(type, <<m>>, value))
  <2>1. PICK m \in Keys, type \in Nat, value \in Seq(Nat) : Torn(m, Record(type, <<m>>, value))
    BY <1>5
  <2>2. PICK n \in 1..(Len(Record(type, <<m>>, value)) - 1) :
           WriteAtEnd(SubSeq(Record(type, <<m>>, value), 1, n))
    BY <2>1 DEF Torn
  <2>3. m \in Nat
    BY KeysFacts
  <2>4. SubSeq(Record(type, <<m>>, value), 1, n) \in Seq(Nat)
    BY <2>3, TornWritten
  <2> QED
    BY <1>2, <2>2, <2>4
<1>6. CASE Compact
  <2>1. PICK order, ss, new : CompactsTo(order, ss, new)
    BY <1>6, CompactIs
  <2>2. Read(file', new, <<k>>) = Read(file, entries, <<k>>)
    BY <1>1, <2>1, CompactReads
  <2>3. status = "open" /\ entries' = new
    BY <2>1 DEF CompactsTo
  <2> QED
    BY <2>2, <2>3 DEF Get
<1>7. CASE Quiet
  <2>1. file' = file
    BY <1>7 DEF Quiet, CompactFails, Stop, New, storeVars
  <2>2. IsPrefix(file, file)
    BY <1>1, EmptySeq, AppendExtends
  <2> QED
    BY <2>1, <2>2
<1> QED
  BY <1>3, <1>4, <1>5, <1>6, <1>7, NextCases

\* Compact, the one step that rewrites the log, changes no answer of Get.
THEOREM RewriteCorrect == StoreSpec => RewriteKeepsReads
<1>1. StoreIInv /\ [StoreNext]_storeVars =>
        [~ IsPrefix(file, file') /\ status' = "open" => \A k \in Keys : Get(k)' = Get(k)]_storeVars
  BY RewriteStep
<1> QED
  BY <1>1, InvariantCorrect, PTL DEF StoreSpec, RewriteKeepsReads

\* What a restart would find on disk is the map of KVStore.
LEMMA AgreesIs == Undamaged => KV!Agrees
<1> SUFFICES ASSUME Undamaged, NEW k \in Keys
             PROVE  IF acked[k] = Unknown THEN Recovered[k] \in Values \cup {NoValue}
                    ELSE Recovered[k] = acked[k]
  BY DEF KV!Agrees
<1>1. Recovered[k] = Found(file, k)
  BY RecoveredIs
<1> QED
  BY <1>1 DEF Undamaged, Recoverable

\* The same of the next state.
LEMMA AgreesNext == Undamaged' => KV!Agrees'
BY AgreesIs, PTL

\* A step between undamaged states is one of the map.
LEMMA KVStep ==
    ASSUME StoreIInv, StoreIInv', [StoreNext]_storeVars, ~ damaged, ~ damaged'
    PROVE  KV!Step
<1>1. KV!Agrees'
  <2>1. Undamaged'
    BY DEF StoreIInv
  <2> QED
    BY <2>1, AgreesNext
<1>2. KV!Settle \/ \E k \in Keys : KV!Put(k) \/ KV!Delete(k) \/ KV!Cut(k)
  <2>1. CASE \E k \in Keys, v \in Values : Put(k, v)
    BY <2>1 DEF Put, KV!Put
  <2>2. CASE \E k \in Keys : Delete(k)
    BY <2>2 DEF Delete, KV!Delete
  <2>3. CASE \E k \in Keys, type \in Nat, value \in Seq(Nat) : Torn(k, Record(type, <<k>>, value))
    BY <2>3 DEF Torn, KV!Cut
  <2>4. CASE Compact
    BY <2>4 DEF Compact, KV!Settle
  <2>5. CASE Quiet
    BY <2>5 DEF Quiet, CompactFails, Stop, New, storeVars, KV!Settle
  <2> QED
    BY <2>1, <2>2, <2>3, <2>4, <2>5, NextCases
<1> QED
  BY <1>1, <1>2 DEF KV!Step

\* The log implements the map that the Storage interface promises: whatever stops the
\* process, every key holds what its last completed write left.
THEOREM KVCorrect == StoreSpec => ImplementsKV
<1>1. StoreInit => KV!Init
  <2> SUFFICES ASSUME StoreInit
               PROVE  KV!Init
    OBVIOUS
  <2>1. Undamaged
    BY Initially DEF StoreIInv, StoreInit
  <2> QED
    BY <2>1, AgreesIs DEF StoreInit, KV!Init
<1>2. StoreIInv /\ StoreIInv' /\ [StoreNext]_storeVars => KV!Next
  BY KVStep DEF KV!Next
<1> QED
  BY <1>1, <1>2, InvariantCorrect, PTL DEF StoreSpec, ImplementsKV, KV!Spec
=============================================================================
