----------------------------- MODULE EngineCalls -----------------------------
(***************************************************************************)
(* What each call of go-search locks and uses, in the order of the code.   *)
(* Under(m, l, body) is a section "lock; defer unlock" around body.  The   *)
(* data are                                                                *)
(*   "engine"      e.index, e.schema, docLengths, vectors                  *)
(*   "buffer"      buffer, bufferDocs, segments, docCount, trie, kdEntries *)
(*   "values"      the values of kdEntries, maps the tree shares           *)
(*   "tombstones"  idx.tombstones                                          *)
(*   "tree"        the nodes of the KD-tree                                *)
(*   "sort"        entries and deleted of the field index                  *)
(*   "docs"        the map and the file of the store                       *)
(*   "types"       the fields of the schema                                *)
(***************************************************************************)
EXTENDS Sequences, FiniteSets

Get(x) == <<[do |-> "get", on |-> x, held |-> {}]>>
Set(x) == <<[do |-> "set", on |-> x, held |-> {}]>>

Under(m, l, body) ==
    <<[do |-> IF m = "R" THEN "RLock" ELSE "Lock", on |-> l, held |-> {}]>>
        \o [i \in DOMAIN body |-> [body[i] EXCEPT !.held = @ \cup {<<m, l>>}]]
        \o <<[do |-> IF m = "R" THEN "RUnlock" ELSE "Unlock", on |-> l, held |-> {<<m, l>>}]>>

LockRank == [l \in {"e", "idx", "kd", "fi", "store", "schema"} |->
                IF l = "e" THEN 1 ELSE IF l = "idx" THEN 2 ELSE 3]

(***************************************************************************)
(* The index.                                                              *)
(***************************************************************************)

\* Called with idx.mu held, but for Save.
Flush == Set("buffer") \o Under("W", "kd", Get("values") \o Set("tree"))

\* Slip: the timer only reads whether there is something to flush.
FlushTimerReading == Under("R", "idx", Flush)

\* Slip: the timer asks the engine for its policy, with idx.mu in its hand.
FlushTimerAsking == Under("W", "idx", Flush \o Under("R", "e", Get("engine")))

FlushTimer == Under("W", "idx", Flush)

Merge ==
    Under("R", "idx", Get("buffer") \o Get("tombstones"))
        \o Under("W", "idx", Set("buffer") \o Set("tombstones"))

Add == Under("W", "idx", Set("tombstones") \o Set("buffer") \o Flush)

AddNumeric == Under("W", "idx", Set("values") \o Set("buffer"))

AddFieldValue == Under("W", "fi", Set("sort")) \o Under("W", "fi", Set("sort"))

Lookup == Under("R", "idx", Get("buffer") \o Get("tombstones"))

IndexDelete == Under("W", "idx", Set("tombstones") \o Set("buffer"))

DeleteNumeric == Under("W", "idx", Set("buffer")) \o Under("W", "kd", Set("tree"))

DeleteFieldValues == Under("W", "fi", Set("sort"))

\* Slip: the scan inside the lock of the tree, which Flush takes within idx.mu.
MultiRangeQueryNested ==
    Under("R", "kd", Get("tree") \o Get("values") \o Under("R", "idx", Get("buffer")))

\* The tree if there is one, else a scan of kdEntries; both are run here.
MultiRangeQuery ==
    Under("R", "kd", Get("tree")) \o Under("R", "kd", Get("tree") \o Get("values"))
        \o Under("R", "idx", Get("buffer") \o Get("values"))

\* The slice and the map are read on after RUnlock.
SortValues == Under("R", "fi", Get("sort")) \o Get("sort")

\* Terms; DocCount is alike.
Terms == Under("R", "idx", Get("buffer"))

TermCount == Under("R", "idx", Terms)

(***************************************************************************)
(* The store.                                                              *)
(***************************************************************************)
Read == Under("R", "store", Get("docs"))
Write == Under("W", "store", Set("docs"))

(***************************************************************************)
(* The engine.                                                             *)
(***************************************************************************)
Resolve == Under("W", "schema", Set("types"))

IndexBody ==
    Get("engine") \o Read \o IndexDelete \o Write
        \o Resolve \o Add \o AddNumeric \o AddFieldValue \o Set("engine") \o Write

Index == Under("W", "e", IndexBody)

DeleteBody == Set("engine") \o IndexDelete \o DeleteNumeric \o DeleteFieldValues \o Write

\* Slip: the lock is left to the index and the store.
DeleteUnlocked == DeleteBody

Delete == Under("W", "e", DeleteBody)

Search ==
    Under("R", "e", Get("engine") \o MultiRangeQuery \o Lookup \o SortValues \o Read)

\* FuzzySearch and WildcardSearch.
TermSearch == Under("R", "e", Get("engine") \o Terms \o Lookup \o Read)

PrefixSearch == Get("engine") \o Terms \o Lookup \o Read \o Get("engine")

VectorSearch == Under("R", "e", Under("R", "store", Get("docs") \o Get("engine")))

HybridSearch == Under("R", "e", Search \o VectorSearch)

Aggregate == Under("R", "e", Read)

Metrics == Under("R", "e", Read) \o Search

Size == Under("R", "e", Read)

Schema == Get("engine")

Save ==
    Under("W", "e",
        Flush \o Under("R", "idx", Get("buffer") \o Get("tombstones"))
            \o Under("R", "schema", Get("types")) \o Get("tombstones"))

\* The periodic snapshot has ended before, and holds nothing Close could wait for.
Close == Save \o Under("W", "store", Set("docs"))

\* What Reindex does besides building the shadow engine (module Reindex).
Reindex ==
    Get("engine") \o Under("R", "schema", Get("types")) \o Under("W", "e", Set("engine"))

EngineScript ==
    [Index |-> Index, Delete |-> Delete, Search |-> Search, TermSearch |-> TermSearch,
     PrefixSearch |-> PrefixSearch, VectorSearch |-> VectorSearch, HybridSearch |-> HybridSearch,
     Aggregate |-> Aggregate, Metrics |-> Metrics, Size |-> Size, Schema |-> Schema,
     Save |-> Save, Close |-> Close, Reindex |-> Reindex, TermCount |-> TermCount,
     FlushTimer |-> FlushTimer, Merge |-> Merge]

DataGuard ==
    [engine |-> {"e"}, buffer |-> {"idx"}, values |-> {"e", "idx"}, tombstones |-> {"idx"},
     tree |-> {"kd"}, sort |-> {"e", "fi"}, docs |-> {"store"}, types |-> {"schema"}]

CarelessCalls ==
    {<<"PrefixSearch", "engine">>, <<"Reindex", "engine">>, <<"Schema", "engine">>,
     <<"Save", "buffer">>, <<"Save", "tombstones">>, <<"Close", "buffer">>, <<"Close", "tombstones">>}
=============================================================================
