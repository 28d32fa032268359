---------------------------- MODULE FieldTypes ----------------------------
(***************************************************************************)
(* How documents are indexed by the type of a field, and what of it is     *)
(* left after a restart or a rebuild: Schema of engine/mapping.go,         *)
(* indexInternal and deleteInternal, the terms, tombstones, numbers,       *)
(* lengths and document count they feed, Save and Load, replay of the log, *)
(* recovery without one, and Reindex.                                      *)
(*                                                                         *)
(* Abstractions.  Documents have one field.  Calls are atomic, and a stop  *)
(* falls between two of them (Durability has the crashes inside of calls,  *)
(* Reindex the rebuild's interleavings, InvertedIndex the merge's).  The   *)
(* document store and the files are durable.  Reindex is given the         *)
(* analyzer again: without WithAnalyzer its engine takes the default one.  *)
(*                                                                         *)
(* A definition marked Slip is a mistake the code could have made in the   *)
(* definition that follows it; nothing here uses it.                       *)
(***************************************************************************)
EXTENDS Integers, Sequences, SequencesExt, FiniteSetsExt

CONSTANTS
    Docs,
    Values,
    Infer,     \* InferType of each value
    Parses,    \* the types of numbers each value parses as
    Tokens,    \* the words the analyzer makes of each value; of digits, none
    Raw,       \* the term a value is as a whole
    NoDoc,     \* a document that does not exist
    NoValue,   \* a document without the field
    None,      \* no mapping, no snapshot
    Mappings,  \* the mappings WithMapping may give the field
    MaxSegments, \* MergePolicy.MaxSegments; bound: a merge keeps up with flushes
    MaxCalls   \* bound: calls of Index and Delete

NumberTypes == {"integer", "float", "boolean"}
Types == {"text", "keyword", "skip"} \cup NumberTypes
FieldMapping == [Type : Types, Index : BOOLEAN, Store : BOOLEAN, Explicit : BOOLEAN]

\* What memory holds, and what a snapshot keeps of it.
Terms == UNION {ToSet(Tokens[v]) \cup {Raw[v]} : v \in Values}
Memory ==
    [schema : FieldMapping \cup {None}, buffer : [Docs -> SUBSET Terms], bufferDocs : SUBSET Docs,
     flushed : [Docs -> SUBSET Terms], copies : [Docs -> Nat], segments : Nat, hidden : SUBSET Docs,
     number : [Docs -> Values \cup {NoValue}], lengths : [Docs -> Nat], count : Int]
Snapshot == [mem : Memory, value : [Docs -> Values \cup {NoDoc}], lost : SUBSET Docs]

ASSUME DocsAssumption == IsFiniteSet(Docs)
ASSUME ValuesAssumption == {NoDoc, NoValue} \cap Values = {} /\ NoDoc # NoValue
ASSUME InferAssumption == Infer \in [Values -> Types \ {"skip"}]
\* ParseInt, ParseFloat and ParseBool accept what InferType took for their type.
ASSUME ParsesAssumption ==
    /\ Parses \in [Values -> SUBSET NumberTypes]
    /\ \A v \in Values : Infer[v] \in NumberTypes => Infer[v] \in Parses[v]
ASSUME TokensAssumption == \A v \in Values : Tokens[v] \in Seq(UNION {ToSet(Tokens[w]) : w \in Values})
ASSUME NoneAssumption == None \notin FieldMapping /\ None \notin Snapshot
\* WithMapping goes through Schema.Set.
ASSUME MappingsAssumption == \A fm \in Mappings \ {None} : fm \in FieldMapping /\ fm.Explicit
ASSUME BoundAssumption == MaxCalls \in Nat /\ MaxSegments \in Nat \ {0}

VARIABLES
    given,   \* the option WithMapping, the same at every start
    logging, \* whether there is a log (WithWAL)
    mem,     \* the engine's memory
    store,   \* the value in the document store
    log,     \* what was logged since the last snapshot
    snap,    \* the snapshot
    value,   \* ghost: the value each document was last indexed with
    kinds,   \* ghost: the types inferred of any value so far
    lost,    \* ghost: documents the index may miss, by Restart or Reindex
    calls

vars == <<given, logging, mem, store, log, snap, value, kinds, lost, calls>>

Nowhere == [d \in Docs |-> {}]
Live == {d \in Docs : value[d] # NoDoc}

\* newBase and newIndex.
New(mapping) ==
    [schema |-> mapping, buffer |-> Nowhere, bufferDocs |-> {}, flushed |-> Nowhere,
     copies |-> [d \in Docs |-> 0], segments |-> 0, hidden |-> {},
     number |-> [d \in Docs |-> NoValue], lengths |-> [d \in Docs |-> 0], count |-> 0]

\* The terms a document is found by.
Visible(m, d) == IF d \in m.hidden THEN {} ELSE m.buffer[d] \cup m.flushed[d]

\* The terms of a value, by the type of its field.
TermsOf(type, v) == IF type = "text" THEN ToSet(Tokens[v]) ELSE {Raw[v]}

-----------------------------------------------------------------------------
(* The operations on memory.                                               *)

\* Resolve: an inferred type that disagrees becomes text.
Resolve(schema, v) ==
    IF schema # None /\ (schema.Explicit \/ schema.Type = Infer[v]) THEN schema
    ELSE [Type |-> IF schema = None THEN Infer[v] ELSE "text",
          Index |-> TRUE, Store |-> TRUE, Explicit |-> FALSE]

\* Add and AddRaw, also of no terms: clearTombstone takes old postings out of the
\* buffer only.
AddTerms(m, d, terms) ==
    [m EXCEPT !.buffer[d] = terms \cup IF d \in m.hidden THEN {} ELSE @,
              !.bufferDocs = @ \cup {d},
              !.hidden = @ \ {d},
              !.count = @ + 1]

\* The number of a value that does not parse as the type is left as it was.
Number(fm, v, old) == IF fm.Index /\ fm.Type \in Parses[v] THEN v ELSE old

\* What indexInternal leaves of memory and of the store.
IndexInternal(s, d, v) ==
    LET fm == Resolve(s.mem.schema, v)
        m  == [s.mem EXCEPT !.schema = fm]
        t  == IF fm.Index THEN AddTerms(m, d, TermsOf(fm.Type, v)) ELSE m
    IN  IF fm.Type = "skip" THEN [mem |-> m, store |-> [s.store EXCEPT ![d] = NoValue]]
        ELSE [mem |-> [t EXCEPT !.number[d] = Number(fm, v, @), !.lengths[d] = @ + Len(Tokens[v])],
              store |-> [s.store EXCEPT ![d] = IF fm.Store THEN v ELSE NoValue]]

\* index.Delete.
Hide(m, d) == [m EXCEPT !.hidden = @ \cup {d}, !.count = @ - 1]

DeleteInternal(s, d) ==
    [mem |-> [Hide(s.mem, d) EXCEPT !.lengths[d] = 0, !.number[d] = NoValue],
     store |-> [s.store EXCEPT ![d] = NoDoc]]

\* index.Flush; a segment has the documents of the buffer, also those without terms.
FlushMem(m) ==
    [m EXCEPT !.flushed = [d \in Docs |-> m.flushed[d] \cup m.buffer[d]],
              !.copies = [d \in Docs |-> @[d] + IF d \in m.bufferDocs THEN 1 ELSE 0],
              !.segments = @ + 1,
              !.buffer = Nowhere, !.bufferDocs = {}]

Now == [mem |-> mem, store |-> store]

-----------------------------------------------------------------------------
Init ==
    /\ given \in Mappings /\ logging \in BOOLEAN
    /\ mem = New(given)
    /\ store = [d \in Docs |-> NoDoc]
    /\ log = <<>> /\ snap = None
    /\ value = [d \in Docs |-> NoDoc] /\ kinds = {} /\ lost = {}
    /\ calls = 0

Call(s, entry) ==
    /\ calls < MaxCalls /\ calls' = calls + 1
    /\ mem' = s.mem /\ store' = s.store
    /\ log' = IF logging THEN Append(log, entry) ELSE log
    /\ value' = [value EXCEPT ![entry.doc] = entry.value]
    /\ lost' = lost \ {entry.doc}
    /\ UNCHANGED <<given, logging, snap>>

\* Index: an update hides the old postings, and keeps the length and the number.
Index(d, v) ==
    LET old == IF store[d] = NoDoc THEN Now ELSE [Now EXCEPT !.mem = Hide(mem, d)]
    IN  /\ Call(IndexInternal(old, d, v), [doc |-> d, value |-> v])
        /\ kinds' = kinds \cup {Infer[v]}

Delete(d) ==
    /\ Call(DeleteInternal(Now, d), [doc |-> d, value |-> NoDoc])
    /\ UNCHANGED kinds

Room == mem.segments <= MaxSegments

Flush ==
    /\ mem.bufferDocs # {} /\ Room
    /\ mem' = FlushMem(mem)
    /\ UNCHANGED <<given, logging, store, log, snap, value, kinds, lost, calls>>

\* A merge takes over the documents that have a term.
Merge ==
    /\ mem.segments > MaxSegments
    /\ LET kept == {d \in Docs \ mem.hidden : mem.flushed[d] # {}}
       IN  mem' = [mem EXCEPT !.flushed = [d \in Docs |-> IF d \in kept THEN @[d] ELSE {}],
                              !.copies = [d \in Docs |-> IF d \in kept THEN 1 ELSE 0],
                              !.segments = 1, !.hidden = {}]
    /\ UNCHANGED <<given, logging, store, log, snap, value, kinds, lost, calls>>

\* Save flushes an empty buffer too.
Save ==
    /\ Room
    /\ mem' = FlushMem(mem)
    /\ snap' = [mem |-> FlushMem(mem), value |-> value, lost |-> lost]
    /\ log' = <<>>
    /\ UNCHANGED <<given, logging, store, value, kinds, lost, calls>>

-----------------------------------------------------------------------------
(* Starting.                                                               *)

\* Load: every type of the snapshot becomes an explicit one, the document count
\* is that of the segments, and numbers are not in a snapshot.
Loaded ==
    IF snap = None THEN New(given)
    ELSE [New(given) EXCEPT
             !.schema = IF snap.mem.schema = None THEN @ ELSE [snap.mem.schema EXCEPT !.Explicit = TRUE],
             !.flushed = snap.mem.flushed, !.copies = snap.mem.copies,
             !.segments = snap.mem.segments, !.hidden = snap.mem.hidden, !.lengths = snap.mem.lengths,
             !.count = Cardinality(UNION {{d} \X (1..snap.mem.copies[d]) : d \in Docs \ snap.mem.hidden})]

\* Slip: deletions are not replayed.
ReplayEntryIndex(s, entry) ==
    IF entry.value = NoDoc THEN s
    ELSE IndexInternal(IF s.store[entry.doc] = NoDoc THEN s ELSE DeleteInternal(s, entry.doc),
                       entry.doc, entry.value)

\* replayWAL: an entry of the log, and all of them.
ReplayEntry(s, entry) ==
    IF entry.value = NoDoc THEN DeleteInternal(s, entry.doc)
    ELSE IndexInternal(IF s.store[entry.doc] = NoDoc THEN s ELSE DeleteInternal(s, entry.doc),
                       entry.doc, entry.value)

Replayed ==
    LET after[i \in 0..Len(log)] ==
            IF i = 0 THEN [mem |-> Loaded, store |-> store] ELSE ReplayEntry(after[i - 1], log[i])
    IN  after[Len(log)]

\* recoverDelta: documents in no segment are indexed as text, without the schema.
Known == {d \in Docs : Loaded.copies[d] > 0}
Missing == {d \in Docs \ Known : store[d] \in Values}
RecoverDelta(m) ==
    [m EXCEPT !.buffer = [d \in Docs |-> IF d \in Missing THEN ToSet(Tokens[store[d]]) ELSE {}],
              !.bufferDocs = Missing,
              !.lengths = [d \in Docs |-> IF d \in Missing THEN Len(Tokens[store[d]]) ELSE @[d]],
              !.hidden = @ \ Missing,
              !.count = @ + Cardinality(Missing)]

\* What recovery may leave out: updates of documents in the snapshot without a
\* log, values that only the index had, and what the snapshot missed already.
Unrecovered ==
    LET was == IF snap = None THEN [d \in Docs |-> NoDoc] ELSE snap.value
        old == IF snap = None THEN {} ELSE snap.lost
        logged == {log[i].doc : i \in DOMAIN log}
    IN  IF logging THEN old \ logged
        ELSE {d \in Known : was[d] # value[d]} \cup (Live \ (Known \cup Missing)) \cup (old \ Missing)

Restart ==
    /\ LET s == IF logging THEN Replayed
                ELSE [mem |-> RecoverDelta(Loaded), store |-> store]
       IN  mem' = s.mem /\ store' = s.store
    /\ lost' = Unrecovered
    /\ UNCHANGED <<given, logging, log, snap, value, kinds, calls>>

-----------------------------------------------------------------------------
(* Reindex, of the stored documents in the order they come out of the      *)
(* channel, over an engine with the store of this one.                     *)

\* Slips: the schema is not carried over; the live index is rebuilt in place.
ShadowBare == New(None)
ShadowOfLive == [mem EXCEPT !.schema = IF @ = None THEN @ ELSE [@ EXCEPT !.Explicit = TRUE]]

\* The types the schema has are explicit ones of the shadow engine.
Shadow == New(IF mem.schema = None THEN None ELSE [mem.schema EXCEPT !.Explicit = TRUE])

Rebuild(s, d) ==
    LET t == [s EXCEPT !.mem = Hide(s.mem, d)]
    IN  IF s.store[d] = NoValue THEN t ELSE IndexInternal(t, d, s.store[d])

Rebuilt(order) ==
    LET after[i \in 0..Len(order)] ==
            IF i = 0 THEN [mem |-> Shadow, store |-> store] ELSE Rebuild(after[i - 1], order[i])
    IN  after[Len(order)]

Reindex ==
    /\ \E order \in SetToSeqs({d \in Docs : store[d] # NoDoc}) :
          \E s \in {Rebuilt(order)} : mem' = s.mem /\ store' = s.store
    /\ lost' = {d \in Docs : store[d] = NoValue}
    /\ UNCHANGED <<given, logging, log, snap, value, kinds, calls>>

Next ==
    \/ \E d \in Docs, v \in Values : Index(d, v)
    \/ \E d \in Docs : Delete(d)
    \/ Flush \/ Merge \/ Save \/ Restart \/ Reindex

Spec == Init /\ [][Next]_vars

-----------------------------------------------------------------------------
Searchable(d) == d \in Live /\ d \notin lost /\ (given # None => given.Index /\ given.Type # "skip")

\* Whatever types a field went through, and whatever was saved, restarted,
\* replayed or rebuilt: a document is stored, and found by the value it was last
\* indexed with, by all its words or as a whole; a deleted one is not stored, so
\* not found.  The exceptions are those of lost, and values without a word: a
\* field of text has no term for them, also when a promotion made it one, after
\* which engine/dynamic_mapping_test.go:193 has documents searchable.
FoundByValue ==
    \A d \in Docs :
        /\ value[d] = NoDoc <=> store[d] = NoDoc
        /\ store[d] \in {NoDoc, NoValue, value[d]}
        /\ Searchable(d) /\ Tokens[value[d]] # <<>> =>
              \E type \in {"text", "keyword"} :
                  TermsOf(type, value[d]) \subseteq Visible(mem, d)

\* If all values were of one type, or the mapping says which, an engine with a log
\* finds documents the way that type says: restarts and rebuilds do not show.
OneTypeForGood ==
    logging /\ (given # None \/ Cardinality(kinds) <= 1) =>
        \A d \in Docs : Searchable(d) =>
            LET type == IF given # None THEN given.Type ELSE Infer[value[d]]
            IN  TermsOf(type, value[d]) \subseteq Visible(mem, d)

\* After a rebuild by an engine that knew the type of the field, all documents are
\* indexed by this type and by nothing but their stored value: terms, numbers and
\* lengths of earlier values are gone, whatever piled up in the live engine.
RebuiltAlike ==
    [][Reindex /\ mem.schema # None /\ mem.schema.Index /\ mem.schema.Type # "skip" =>
          \A d \in Docs :
              LET type == mem.schema.Type
                  there == store[d] \in Values
              IN  /\ Visible(mem', d) = IF there THEN TermsOf(type, store[d]) ELSE {}
                  /\ mem'.lengths[d] = IF there THEN Len(Tokens[store[d]]) ELSE 0
                  /\ mem'.number[d] = IF there /\ type \in Parses[store[d]] THEN store[d] ELSE NoValue]_vars

\* scoring/bm25.go: the inverse document frequency of a term is at least 0.  It is
\* if the document count is not below the number of documents with the term.
ScoresNotNegative ==
    \A t \in UNION {Visible(mem, d) : d \in Docs} :
        Cardinality({d \in Docs : t \in Visible(mem, d)}) <= mem.count
=============================================================================
