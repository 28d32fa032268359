----------------------------- MODULE RangeIndex -----------------------------
(***************************************************************************)
(* Range queries over numeric fields: the values collected in kdEntries of *)
(* index/index.go, the K-D tree of index/kdtree.go that every flush builds *)
(* from them, and the calls of Index and Delete that feed both.            *)
(*                                                                         *)
(* The engine holds e.mu during a call, and a query sees no call halfway;  *)
(* the flush timer comes between any two steps of a call.  A flush by size *)
(* comes at the end of AddRaw, before the value of that field is added.    *)
(*                                                                         *)
(* A query visits every leaf of the tree whose bounding box meets it, and  *)
(* the box of an inner node spans those below it, so the tree is its set   *)
(* of leaves; which entries share one is left open.  A box is the set of   *)
(* values it was computed from.                                            *)
(*                                                                         *)
(* A definition marked Slip is a mistake the code could have made in the   *)
(* definition that follows it; nothing here uses it.                       *)
(***************************************************************************)
EXTENDS Integers, FiniteSets

CONSTANTS
    Docs,      \* document ids
    Fields,    \* numeric fields
    Values,    \* their values
    Queries,   \* range queries, each a set of bounds
    NoBound,   \* a bound that is nil
    NoValue,   \* a field that is missing
    NoEntry,   \* a document that is missing
    NoField, NoOp,
    LeafSize,  \* kdLeafSize
    MaxCalls   \* bound: calls of Index and Delete

Bounds == [field : Fields, gte : Values \cup {NoBound}, lte : Values \cup {NoBound},
           gt : Values \cup {NoBound}, lt : Values \cup {NoBound}]

\* The fields of a document, or the map Values of its KDEntry.
Numbers == [Fields -> Values \cup {NoValue}]
Entry   == Numbers \cup {NoEntry}

ASSUME ValuesAssumption == Values \subseteq Int
ASSUME QueriesAssumption == Queries \subseteq (SUBSET Bounds) \ {{}}
ASSUME NoneAssumption ==
    /\ NoBound \notin Int /\ NoValue \notin Int /\ NoEntry \notin Numbers
    /\ NoField \notin Fields /\ NoOp \notin [doc : Docs, numbers : Entry]
ASSUME LeafSizeAssumption == LeafSize \in Nat \ {0}
ASSUME BoundAssumption == MaxCalls \in Nat

VARIABLES
    kdEntries,  \* the values of each document
    leaves,     \* the leaves of the tree; none while it is not built
    inTree,     \* the entries in them; a deleted one is no entry
    buffered,   \* whether bufferDocs has a document
    op,         \* the call under way, and what its document is to be
    todo,       \* fields that Index has not come to
    raw,        \* the field that is indexed, but its value not yet added
    stored,     \* the documents of the store
    calls,      \* calls of Index and Delete
    dirty       \* ghost: documents written since the last flush

vars == <<kdEntries, leaves, inTree, buffered, op, todo, raw, stored, calls, dirty>>

-----------------------------------------------------------------------------
(* Queries.                                                                *)

Within(b, v) ==
    /\ b.gte # NoBound => v >= b.gte
    /\ b.lte # NoBound => v <= b.lte
    /\ b.gt # NoBound => v > b.gt
    /\ b.lt # NoBound => v < b.lt

\* Go: a key that a map does not have reads as zero.
Value(numbers, f) == IF numbers[f] = NoValue THEN 0 ELSE numbers[f]

\* Slip: the box is taken to be open.
PrunedAtEdge(leaf, q) ==
    \E b \in q :
        \/ b.gte # NoBound /\ \A v \in leaf.box[b.field] : v <= b.gte
        \/ b.lte # NoBound /\ \A v \in leaf.box[b.field] : v >= b.lte

\* multiRangeNode: the box lies outside of an inclusive bound.
Pruned(leaf, q) ==
    \E b \in q :
        \/ b.gte # NoBound /\ \A v \in leaf.box[b.field] : v < b.gte
        \/ b.lte # NoBound /\ \A v \in leaf.box[b.field] : v > b.lte

MultiRange(q) ==
    {d \in Docs :
        /\ inTree[d] # NoEntry
        /\ \E leaf \in leaves : d \in leaf.docs /\ ~ Pruned(leaf, q)
        /\ \A b \in q : Within(b, Value(inTree[d], b.field))}

\* kdEntryMatchesBounds for every entry
Scan(q) ==
    {d \in Docs :
        /\ kdEntries[d] # NoEntry
        /\ \A b \in q : /\ kdEntries[d][b.field] # NoValue
                        /\ Within(b, kdEntries[d][b.field])}

MultiRangeQuery(q) == IF leaves # {} THEN MultiRange(q) ELSE Scan(q)

-----------------------------------------------------------------------------
Init ==
    /\ kdEntries = [d \in Docs |-> NoEntry]
    /\ leaves = {} /\ inTree = [d \in Docs |-> NoEntry]
    /\ buffered = FALSE
    /\ op = NoOp /\ todo = {} /\ raw = NoField
    /\ stored = [d \in Docs |-> NoEntry]
    /\ calls = 0
    /\ dirty = {}

(* Flush.                                                                  *)

Entered == {d \in Docs : kdEntries[d] # NoEntry}
Having(docs, f) == {d \in docs : kdEntries[d][f] # NoValue}

\* A field that no entry has is not among the fields of the boxes.
Box(docs) ==
    [f \in Fields |-> IF Having(Entered, f) = {} THEN {0}
                      ELSE {kdEntries[d][f] : d \in Having(docs, f)}]

Partitions(docs) ==
    {p \in SUBSET ((SUBSET docs) \ {{}}) :
        /\ UNION p = docs
        /\ \A s \in p : Cardinality(s) <= LeafSize
        /\ \A s, t \in p : s = t \/ s \cap t = {}}

\* Build
Build ==
    \E p \in Partitions(Entered) :
        /\ leaves' = {[docs |-> s, box |-> Box(s)] : s \in p}
        /\ inTree' = kdEntries

Flush ==
    /\ buffered' = FALSE
    /\ dirty' = IF op = NoOp THEN {} ELSE {op.doc}
    /\ IF Entered = {} THEN UNCHANGED <<leaves, inTree>> ELSE Build

TimerFlush ==
    /\ buffered
    /\ Flush
    /\ UNCHANGED <<kdEntries, op, todo, raw, stored, calls>>

-----------------------------------------------------------------------------
(* Calls of the engine.                                                    *)

Begin(d, numbers) ==
    /\ op = NoOp
    /\ calls < MaxCalls /\ calls' = calls + 1
    /\ op' = [doc |-> d, numbers |-> numbers]
    /\ dirty' = dirty \cup {d}

\* Index: the old values stay where they are.
Index(d, numbers) ==
    /\ Begin(d, numbers)
    /\ todo' = {f \in Fields : numbers[f] # NoValue}
    /\ UNCHANGED <<kdEntries, leaves, inTree, buffered, raw, stored>>

\* The fields in the order of a Go map; MaxTokens or flushSize may be reached.
AddRaw(f) ==
    /\ f \in todo /\ raw = NoField
    /\ raw' = f
    /\ \/ buffered' = TRUE /\ UNCHANGED <<leaves, inTree, dirty>>
       \/ Flush
    /\ UNCHANGED <<kdEntries, op, todo, stored, calls>>

\* Fields of other kinds, before, between and after the numeric ones.
AddOther ==
    /\ op # NoOp /\ op.numbers # NoEntry /\ raw = NoField
    /\ \/ buffered' = TRUE /\ UNCHANGED <<leaves, inTree, dirty>>
       \/ Flush
    /\ UNCHANGED <<kdEntries, op, todo, raw, stored, calls>>

Empty == [f \in Fields |-> NoValue]

\* Slip: the entry gets a map of its own.
AddNumericCopies ==
    /\ raw # NoField
    /\ LET d   == op.doc
           old == IF kdEntries[d] = NoEntry THEN Empty ELSE kdEntries[d]
       IN  kdEntries' = [kdEntries EXCEPT ![d] = [old EXCEPT ![raw] = op.numbers[raw]]]
    /\ raw' = NoField
    /\ todo' = todo \ {raw}
    /\ UNCHANGED <<leaves, inTree, buffered, op, stored, calls, dirty>>

\* An entry in the tree has the same map as the one in kdEntries.
AddNumeric ==
    /\ raw # NoField
    /\ LET d   == op.doc
           old == IF kdEntries[d] = NoEntry THEN Empty ELSE kdEntries[d]
           new == [old EXCEPT ![raw] = op.numbers[raw]]
       IN  /\ kdEntries' = [kdEntries EXCEPT ![d] = new]
           /\ inTree' = IF inTree[d] = NoEntry THEN inTree
                        ELSE [inTree EXCEPT ![d] = new]
    /\ raw' = NoField
    /\ todo' = todo \ {raw}
    /\ UNCHANGED <<leaves, buffered, op, stored, calls, dirty>>

\* Slip: one field ends the loop.
PutEarly ==
    /\ op # NoOp /\ op.numbers # NoEntry
    /\ raw = NoField
    /\ stored' = [stored EXCEPT ![op.doc] = op.numbers]
    /\ op' = NoOp
    /\ UNCHANGED <<kdEntries, leaves, inTree, buffered, todo, raw, calls, dirty>>

\* docStorage.Put
Put ==
    /\ op # NoOp /\ op.numbers # NoEntry
    /\ todo = {}
    /\ stored' = [stored EXCEPT ![op.doc] = op.numbers]
    /\ op' = NoOp
    /\ UNCHANGED <<kdEntries, leaves, inTree, buffered, todo, raw, calls, dirty>>

\* Delete, as far as the lock of DeleteNumeric.
Delete(d) ==
    /\ Begin(d, NoEntry)
    /\ kdEntries' = [kdEntries EXCEPT ![d] = NoEntry]
    /\ UNCHANGED <<leaves, inTree, buffered, todo, raw, stored>>

\* Slip: the tree is left to the next Build.
TreeDeleteLater ==
    /\ op # NoOp /\ op.numbers = NoEntry
    /\ stored' = [stored EXCEPT ![op.doc] = NoEntry]
    /\ op' = NoOp
    /\ UNCHANGED <<kdEntries, leaves, inTree, buffered, todo, raw, calls, dirty>>

\* kd.Delete, and the rest of Delete.
TreeDelete ==
    /\ op # NoOp /\ op.numbers = NoEntry
    /\ inTree' = [inTree EXCEPT ![op.doc] = NoEntry]
    /\ stored' = [stored EXCEPT ![op.doc] = NoEntry]
    /\ op' = NoOp
    /\ UNCHANGED <<kdEntries, leaves, buffered, todo, raw, calls, dirty>>

CallStep == (\E f \in Fields : AddRaw(f)) \/ AddNumeric \/ Put \/ TreeDelete

Next ==
    \/ \E d \in Docs : Delete(d) \/ \E numbers \in Numbers : Index(d, numbers)
    \/ CallStep \/ AddOther
    \/ TimerFlush

Spec == Init /\ [][Next]_vars

-----------------------------------------------------------------------------
(* Properties.                                                             *)

Leaf == [docs : SUBSET Docs, box : [Fields -> SUBSET (Values \cup {0})]]

TypeOK ==
    /\ kdEntries \in [Docs -> Entry] /\ inTree \in [Docs -> Entry]
    /\ leaves \subseteq Leaf
    /\ buffered \in BOOLEAN
    /\ op \in [doc : Docs, numbers : Entry] \cup {NoOp}
    /\ todo \subseteq Fields /\ (op = NoOp => todo = {})
    /\ raw \in todo \cup {NoField}
    /\ stored \in [Docs -> Entry]
    /\ calls \in 0..MaxCalls
    /\ dirty \subseteq Docs

HasFields(d, q) ==
    stored[d] # NoEntry /\ \A b \in q : stored[d][b.field] # NoValue

Satisfies(d, q) == \A b \in q : Within(b, stored[d][b.field])

\* Before the tree is built, and from the first flush after a document was
\* written on, a query finds the document exactly if its fields are within the
\* bounds: the boxes of the tree cut nothing off, wherever updates, deletions
\* and flushes of other documents come in between.
SettledExact ==
    op = NoOp =>
        \A q \in Queries, d \in Docs :
            HasFields(d, q) /\ (leaves = {} \/ d \notin dirty)
            => (d \in MultiRangeQuery(q) <=> Satisfies(d, q))

\* Until that flush a query may miss a document, but finds none by a value an
\* update has replaced: the leaves share the maps that AddNumeric writes to.  A
\* field the update leaves out is not replaced: its value stays (README.md:107 has
\* the whole document replaced).
NeverByOldValue ==
    op = NoOp =>
        \A q \in Queries : \A d \in MultiRangeQuery(q) :
            HasFields(d, q) => Satisfies(d, q)

\* A deleted document is found no more, also when a flush builds the tree
\* between the two steps of DeleteNumeric, until it is indexed again.
DeletedGone ==
    op = NoOp =>
        \A q \in Queries : \A d \in MultiRangeQuery(q) : stored[d] # NoEntry
=============================================================================
