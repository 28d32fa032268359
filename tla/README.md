# A specification of go-search

TLA+ models of the search engine in `src/`, checked with TLC on small
instances, and theorems about them proved with TLAPS for every instance. The
properties are aimed at what the tests of the repository hardly reach: a merge
racing with writers, a crash between two writes, a log with a torn tail, a field
whose type changes, a reader between two writers.

Contents: [the system](#the-system), [modules](#modules), [runs](#runs),
[bounds](#bounds-and-why-they-are-enough), [fairness](#fairness),
[proofs](#proofs), [findings](#findings),
[what is not modelled](#what-is-not-modelled), [plan](#plan).

## The system

go-search is an embedded full-text search engine. An `Engine`
(`engine/engine.go`) owns an inverted index, a document store, an optional
write-ahead log and an optional snapshot file.

    Index/Delete --e.mu--> wal.Append --> index.Delete/Add/AddRaw --> store.Delete/Put
    Search       --e.mu(R)--> index.Lookup / MultiRangeQuery / FieldSortValues --> store.Get
    Save         --e.mu--> index.Flush, index.Snapshot --> snapshot file --> wal.Truncate
    New          --> Load(snapshot) --> wal.Replay | recoverDelta
    background   index.flushOnInterval, index.Merge, engine.periodicSnapshot

| Component | State | Operations | What is hard | Correct means |
|---|---|---|---|---|
| Inverted index, `index/index.go`, `index/segment.go` | write buffer, segments, tombstones, trie, counters, merge flag; all under `idx.mu` | Add, AddRaw, Delete, Lookup, Flush, Merge, flush timer, Snapshot, Restore | Merge reads the segments, works without a lock and swaps the result in while writers, deletions and flushes go on; tombstones mark a document id, not a version of it | a live document is found under each of its terms; merging changes no answer; deleted stays deleted |
| Local store, `storage/local/local.go` | log file, offset map, under `s.mu` | Put, Delete, Get, Has, Each, Size, Compact, Close, New | a Put is three writes; what a restart reads back from a torn log; offsets after a rewrite | an acknowledged write reads back, before and after a restart; compaction changes nothing |
| Memory store, `storage/memory/memory.go` | a map | the same | nothing | a map |
| Write-ahead log, `wal/wal.go` | a file of JSON lines, a buffered writer with a sticky error | Append, Replay, Truncate (Sync, Close) | torn lines, lines over 64 KiB, truncation | replay yields the appended entries in order |
| Recovery, `engine/snapshot.go` and `New`, `Index`, `Delete` | snapshot file, log, store, index | Save, Load, replayWAL, recoverDelta | a crash between any two durable effects, failed writes whose error is dropped, interrupted replay | every logged operation survives; snapshot and log cover the index between them |
| Engine locking and Reindex, `engine/engine.go:431-495`, `engine/search.go` | `e.mu`, job channel, workers | Reindex, HybridSearch, all searches | nested read locks, workers writing to the store whose `Each` holds its lock, updates during the rebuild | no deadlock; no lost or resurrected document |
| KD-tree, `index/kdtree.go` | tree built at each flush, pending entries | Build, MultiRange, Delete | stale between flushes; a missing field counts as 0 | the answer of a linear scan |
| Sort index, `index/field_index.go` | per-field sorted entries, deleted ids | Add, Sort, Delete, Range, SortValues, Compact, Rebuild | updates append duplicates; binary search bounds; Rebuild takes its own lock twice | what the walk shows of each document, and in which order, is known |
| Search, `engine/search.go`, `query/` | none of its own | Search, Fuzzy, Wildcard, Prefix, pagination | cursors over a changing index; early stop against filters; synonym expansion | the documents the query describes, each once |
| Schema, `engine/mapping.go` | field types | Resolve, Set | promotion of inferred types while documents of both types exist | one type per field, explicit ones authoritative |
| Scoring and length statistics, `scoring/bm25.go`, `docLengths`, `docCount` | counters | on every Index and Delete | drift over updates, replays and deletions of unknown ids | the statistics of the live documents |
| BKD index, `index/numeric.go` | unused by the engine | | | |
| Analysis, aggregation, highlighting, S3 stub, options, `docstore.go` | none | | stateless or unused | |

How they interact: the engine serialises Index, Delete and Save by `e.mu`, so
between engine calls only the index's own goroutines (flush timer, merge) run
beside a writer. The index in turn holds `idx.mu` in every operation but the
middle of Merge (and but for `Flush`, which Save calls without it). The store
and the log are written under `e.mu`, one after the other, with no atomicity
across them: that is what recovery is about. Search returns only documents the
store has (`scoreDoc`), so the store, not the index, decides existence.

`PROJECT.json` lists 40 places where this code is hard to test, each with the
properties that would catch it going wrong, or why none does.

## Modules

| Module | Models | State and actions |
|---|---|---|
| `InvertedIndex` | `index/index.go`, `index/segment.go` | Variables carry the field names. `Add`, `AddRaw`, `Delete`, `TimerFlush` are one action each, the flush they may trigger and the start of the merge inside it, because the code runs them under one lock. `Merge` is `MergeCapture` (the read lock), `MergeSwap` (unlocked work and the write lock: the captured segments are immutable, so the work can be placed at the swap) and `MergeDone` (the deferred reset of the flag). |
| `InvertedIndexMC` | constants for TLC | |
| `InvertedIndexProofs` | theorems about `InvertedIndex` | |
| `LocalStore` | `storage/local/local.go` | The log as a sequence of numbers, with the record layout kept, since parsing decides what a restart sees. `Put`, `Delete`, `Compact`, `New`; `Stop` is Close or a crash between calls; `TornPut`/`TornDelete` leave any proper prefix of a record, by a crash or by a write error after which the process goes on; `CompactFails` is a failed rename. |
| `KVStore` | the `Storage` interface | The abstract map `LocalStore` implements, by the refinement mapping `map <- Recovered`, `written <- acked`: what a restart would read, against what completed writes wrote. |
| `LocalStoreMC` | constants for TLC | |
| `Durability` | `wal/wal.go`, `engine/snapshot.go`, and Index, Delete, New, Close of `engine/engine.go` | One action per durable effect: `Log` (wal.Append), `DeleteDoc`, `PutDoc`, `SaveCreate`, `SaveEncode`, `SaveTruncate`, and what may fail: `IndexFails`, `DeleteUnlogged`, `SaveEncodeFails`, `CrashInLog`. A write of the store is a record that is there in full (`StoreWritten`), or one that failed with nothing or a part of it in the file, the error dropped (`StoreFails`), or one that a crash cut (`CrashInStore`); `disk` is what `New` would find in the file, `diskEnd` whether it ends in a torn record or has others behind one. `Crash` is enabled everywhere; `Restart` opens the store from its file (`OpenedStore`), loads the snapshot and queues the log for replay, which uses `DeleteDoc` and `PutDoc` as `replayWAL` uses `deleteInternal` and `indexInternal`. Close is a Save followed by the end of the process. The periodic snapshot and a manual one are the same actions, always enabled. |
| `DurabilityMC` | constants for TLC | |
| `PersistenceProofs` | theorems about `Durability`, and about `LocalStore` and `KVStore` | |
| `Reindex` | `Reindex` and `buildIndex` (`engine/engine.go:431-495`), beside Index and Delete of the live engine | Processes: the sending goroutine (`EachStart`, `Send`, `EachEnd`), the workers (`Receive`, `WorkerHas` or `WorkerFails`, then `StoreDelete` and `StorePut` on the shared store, `WorkerEnd`), the caller of the live engine (`Index`, `Delete`, and the same two store steps) and Reindex itself (`Start`, `Fail`, `Swap`). `hired` are the workers `Start` begins, as many as the argument `parallelism` says, and the channel has twice as many places. `each = "ranging"` is the read lock `Each` holds; `waiting` are the writers that queue for it and, as in `sync.RWMutex`, keep new readers out. |
| `ReindexMC` | constants for TLC | |
| `ReindexProofs` | theorems about `Reindex` | |
| `RangeIndex` | `index/kdtree.go`, `kdEntries` and its functions in `index/index.go:460-526`, within Index and Delete of the engine | `Index` begins a call, `AddRaw`, `AddNumeric`, `AddOther` and `Put` are its steps; `Delete` and `TreeDelete` are the two steps of `DeleteNumeric`. Each of `AddRaw` and `AddOther` may end in a `Flush`, and `TimerFlush` may come between any two steps. `inTree` changes with `kdEntries` because the entries of the tree hold the same Go maps. |
| `RangeIndexMC` | constants for TLC | |
| `RangeIndexProofs` | theorems about `RangeIndex` | |
| `SortedPages` | `Add`, `Delete`, `Sort`, `SortValues` of `index/field_index.go`, `sortFirstSearch` and `applyPagination` of `engine/search.go` | `Index`, `IndexOther` (a document without the sort field) and `Delete` feed the entries of one sort field. `FirstPage` and `NextPage` are a client that follows `NextCursor`; offset pages are the operator `Offset`. |
| `SortedPagesMC` | constants for TLC | |
| `SortedPagesProofs` | theorems about `SortedPages` | |
| `EngineLocks` | `sync.RWMutex` and goroutines that run calls | A call is a sequence of steps: take or give back a lock, read or change a datum. `Begin` starts one, `RLock`, `Park` (a reader behind a writer), `RUnlock`, `Announce` (a writer in line), `Lock`, `Unlock`, `Access` are the steps. Parameterised by the calls, so that what is proved holds for any that keep the discipline `Ordered` and `Guarded`. |
| `EngineCalls` | the calls of the engine and of the index's goroutines | One definition per function, in the order of its lock operations and accesses, `Under(mode, lock, body)` being a section "lock, defer unlock". `EngineScript` lists the calls, `DataGuard` which locks guard which data, `CarelessCalls` those that do without. |
| `EngineLocksMC` | constants for TLC | |
| `Search` | `Search`, `expandQueryWithSynonyms`, the searches by pattern of `engine/search.go`, and package `query` | `Index` (with a flush between its fields, or not), `Delete`, `Flush`, `Merge`, `Restart` give the index every layout a document's postings can have. Queries are operators over it: `Candidate` (the loop over the clauses), `Match`, `PhraseMatch`, `Scored` (scoreDoc), together `Hit`; `Expand`; `PatternFinds`, `PrefixFinds`. `Lookup` and `Views` leave open which segment's posting a search gets, as the goroutines of the code do. |
| `SearchMC` | documents, synonyms and queries for TLC | |
| `SearchProofs` | theorems about `Search` | |
| `FieldTypes` | `engine/mapping.go`, `indexInternal`, `deleteInternal`, `engine/snapshot.go`, Reindex, for one field | The operations are operators on a record `mem`, the engine's memory, so that `Index`, `Delete`, the replay of a log entry (`ReplayEntry`), recovery from the store (`RecoverDelta`) and the rebuild of a document (`Rebuild`) are built of the same ones, as in the code. Actions: `Index`, `Delete`, `Flush`, `Merge`, `Save`, `Restart`, `Reindex`. |
| `FieldTypesMC` | constants for TLC | |
| `EngineProofs` | theorems about `EngineLocks` and about `FieldTypes` | |
| `SequenceFacts` | lemmas the proofs share: sequences, their concatenation (`FlattenSeq`) and enumeration (`SetToSeq`), maxima, and induction over numbers and sequences | |

What the models abstract from:

- `InvertedIndex`: a posting keeps the term, the document and a ghost
  *generation* (how often the document had been deleted) instead of frequency
  and positions, so that a stale posting can be told from a current one. The
  analyzer is the choice of a sequence of terms. Ghosts `live`, `current` and
  `gen` say what was promised to the caller; no guard reads them, apart from
  the bound on `gen`.
- `LocalStore`: headers of three numbers instead of nine bytes, keys of one
  number. `tail`, `damaged` and `acked` are ghosts.
- `Durability`: the index is reduced to the content each document is
  guaranteed to be found by. That this is what the real index keeps is
  `Completeness`, proved for `InvertedIndex`. The store's file is what it reads
  as: that complete records read as a map, and a torn one at the end as none or
  as a key without its value, is shown for `LocalStore`; where records lie
  behind a torn one the model lets a restart find anything, since any bytes may
  be taken for a header. Crashes are those of the process: what was written
  stays written (the code never calls `Sync` on the log). `want`, `lost` and
  `harmed` are ghosts: `lost` says which documents the store failed to write,
  and after a restart from a file with buried records it is all of them.

- `Reindex`: an index is the content each document is found by, for the same
  reason. Every field is stored (a mapping with `Store: false` makes a rebuild
  lose that field, since the store does not return it). The only failure of a
  worker is a stored value that does not decode: `Schema.Resolve` never returns
  an error, and the shadow engine has no log. The log of the live engine and
  crashes are the subject of `Durability`. `want` and `touched` are ghosts.

- `RangeIndex`: the tree is its set of leaves, since a query visits those whose
  boxes meet it and an inner box spans the boxes below it. Which entries share
  a leaf is left open, which covers every split. Values are integers; infinite
  and NaN values are left out. Whether the write buffer has a document is a
  choice of each indexing step (`buffered`). `dirty` is a ghost.
- `SortedPages`: a search matches every document and the scores are given and
  distinct, so filters and BM25 play no part. Calls of the engine hold `e.mu`
  and are one step. Lists are defined by their order (`ListBy`: the member with
  so many before it). `sort.SliceStable` with the comparison the code gives it,
  which is not transitive, moves a document only among neighbours with the same
  value, as long as it is one insertion sort, that is up to 20 results; hence
  `MaxCalls <= 20`. The comparison of `Sort` is that of numbers other than 0;
  strings mixed with numbers are compared inconsistently
  (`index/field_index.go:95-98`) and left out. `got`, `clean` and `broken` are
  ghosts.

- `EngineLocks`: only locks and accesses matter, so each loop is run once, both
  branches of `MultiRangeQuery` are run, and what is computed is left out. The
  analyzer, the log and the vectors are used under `e.mu` only and belong to the
  datum `engine`. Writing to a store takes its lock; the memory store and the
  local one do it alike.
- `Search`: a text is a sequence of words, given by field. Which documents lie
  in the ranges of a query and pass its filters is given. Calls are one step, and
  so is a merge, whose interleavings are those of `InvertedIndex`. `recent` is a
  ghost.
- `FieldTypes`: documents have one field; what `InferType` says of a value
  (`Infer`), as which types of numbers it parses (`Parses`) and which words the
  analyzer makes of it (`Tokens`, none for a number, as the default tokenizer keeps
  letters only) are given; calls are one step, and a stop falls between two of
  them, as crashes in calls are the subject of `Durability`. There is one
  analyzer: a caller of Reindex who had set one sets it again. `value`, `kinds`
  and `lost` are ghosts: `lost` says, at each start and rebuild, which documents
  the index may miss.

Definitions marked *Slip* are mistakes a programmer could make in the
definition below them. No specification uses them; each one, put in the place
of the definition it varies, breaks a property, and so shows that the property
speaks about that piece of code.

## Runs

Run TLC as `tlc -config X.cfg Module` and tlapm as `tlapm Module.tla` on
`SequenceFacts`, `InvertedIndexProofs`, `PersistenceProofs`, `ReindexProofs`,
`RangeIndexProofs`, `SortedPagesProofs`, `EngineProofs` and `SearchProofs`. Where one
module proves things about two components, the names of one of them are told apart:
`StoreInit`, `StoreNext`, `StoreSpec`, `StoreTypeOK` are those of `LocalStore`,
`LocksInit`, `LocksNext`, `LocksSpec` those of `EngineLocks`.

| Run | Config, module | Asks | Shows |
|---|---|---|---|
| `index` | `InvertedIndex.cfg`, `InvertedIndexMC` | Can writers, deletions, flushes and a merge, in any order, lose a live document or show a deleted one? Does the merge flag come back? | Never lost (`Completeness`); the newest layer is current (`NewestIsCurrent`); a merge changes no answer (`MergeKeepsAnswers`); a deleted document reappears only by the one known way (`OnlyMergeUnhides`); every merge finishes (`MergeFinishes`). |
| `local_store` | `LocalStore.cfg`, `LocalStoreMC` | Does the map built write by write agree with the one rebuilt from the log, whatever was torn? | Yes but for the key of a torn last record (`RestartChangesNothing`); acknowledged writes read back until something is written behind a torn record (`UndamagedReadsBack`); compaction changes no answer (`RewriteKeepsReads`); the log is a map (`ImplementsKV`). |
| `durability` | `Durability.cfg`, `DurabilityMC` | Do logged operations survive crashes at every point, including during a Save and during replay? | Yes, whatever writes of the store were cut by a crash, unless a crash or failure fell between emptying and rewriting the snapshot file, a line was appended to a torn one, or a deletion went unlogged; the store has all documents but those it failed to write or had to read behind a torn record (`UnharmedSurvives`); snapshot and log cover the index at every step (`DiskHoldsIndex`). |
| `reindex` | `Reindex.cfg`, `ReindexMC` | Can a rebuild lose a document, show the live engine half of it, or hang, with calls of the live engine and failing workers at any point? | After it every untouched document is stored and found (`UntouchedSurvive`); until then it is found, and missing from the store only while a worker rewrites it (`OnlyInHand`); a call and a worker at one document never lose it (`NoneVanishes`); when the channel is full and documents are left to send, a worker is free to make room (`RoomToSend`), and the rebuild ends (`RebuildEnds`). |
| `range_index` | `RangeIndex.cfg`, `RangeIndexMC` | Do range queries over the tree agree with the documents, with updates, deletions and flushes between any two steps of a call? | Yes for every document flushed since it was written (`SettledExact`); before that they may miss it, but find nothing by a value that was replaced (`NeverByOldValue`); a deleted document is found no more (`DeletedGone`). |
| `sorted_pages` | `SortedPages.cfg`, `SortedPagesMC` | How often and in which order do sorted pages show the documents, while these are written, rewritten, deleted and indexed again? | A document that exists exactly as often as it has entries of its values, or once if it has none, those that do not exist never, and those of one entry and a value of their own in order (`ResultsInOrder`); early stopping does not change offset pages (`OffsetPagesFit`); a client whose cursors stay as they are gets every entry that stays exactly once (`CleanOnce`) and comes to the end (`PagingEnds`). |
| `engine_locks` | `EngineLocks.cfg`, `EngineLocksMC` | Can two callers and a goroutine of the index wait for each other for ever, or use the same data at once? | They wait only for a call that asks again for a read lock it has while a writer is in line: `HybridSearch` for `e.mu`, `TermCount` for `idx.mu` (`StuckOnlyOnItself`); but for that every call ends (`CallsEnd`). The only races are those of `PrefixSearch`, `Reindex`, `Schema` and of `Save`, which `Close` calls (`RacesKnown`). |
| `search` | `Search.cfg`, `SearchMC` | Is what a query finds what the stored text says? | Exactly, for documents written once and queries with something to look for (`WrittenOnceExact`); a document is always found by its current text (`CurrentTextFound`), although old words may find it as well; expansion by synonyms, also twice as by `HybridSearch`, keeps every hit of a query with a clause, and loses every hit of one with ranges only (`ExpandedHits`); fuzzy and wildcard search find what Search finds by the same words, and prefix search no more, and no less of what was indexed since the start (`PatternsAgree`). |
| `field_types` | `FieldTypes.cfg`, `FieldTypesMC` | Are documents still found as they should when the type of a field changes, over restarts with and without a log and rebuilds? | By their last value, as words or as a whole, if it has a word, but for the documents in `lost` (`FoundByValue`); if all values are of one inferred type or the mapping says which, by that type for good (`OneTypeForGood`); a rebuild leaves no term, number or length of earlier values (`RebuiltAlike`). |
| `reindex_offline` | `ReindexOffline.cfg`, `ReindexMC` | Does a rebuild end, with four documents and one worker? | Violated. |
| `search_filters` | `SearchFilters.cfg`, `SearchMC` | Does every hit pass the filters of its query? | Violated, with any synonym configured. |
| `scores_negative` | `ScoresNegative.cfg`, `FieldTypesMC` | Is the inverse document frequency never negative? | Violated, by the deletion of an unknown document. |

Deadlock is checked for `LocalStore` and `Durability`. The run of the index turns
it off: with its counters at their bounds and no merge under way nothing is left
to do. So do the runs of `Reindex`, which ends; that it does not hang before is
`RebuildEnds`. Those of `RangeIndex`, `SortedPages`, `Search` and `FieldTypes`
stop when the calls are used up; a client that never ends would break
`PagingEnds`. `EngineLocks` has the one deadlock `StuckOnlyOnItself` speaks of,
and says that there is no other.

### Bounds, and why they are enough

- `MaxDocCount`, `MaxGen` (`InvertedIndex`) bound the calls of Add and Delete.
  A merge is started by the second segment (`MaxSegments = 1`) and a flush by
  two tokens or the timer, so the histories that matter fit: a document with
  postings in a captured segment, in a segment flushed during the merge and in
  the buffer, deleted before, during and after the capture, and added again.
  `index` has two documents, counted twice at once, and one deletion of each, so
  that a posting of the first generation can meet one of the second in any two
  layers. Longer histories are covered by the proofs.
- Two terms, in texts of none and both and singly through AddRaw: a term may
  be dropped or kept by an update independently of another.
- `MaxFile = 17`, `MaxTears = 1` (`LocalStore`): a record takes four to six
  numbers, so three records and a torn one fit, which is what it takes to
  write, tear, restart, and write behind the tear. Two values of different
  length let a misread header swallow part of the following record.
- `MaxLog = 3`, `MaxFaults = 2` (`Durability`): two operations on one document
  and one on another between two snapshots, with two failed or torn writes, of
  the log, the snapshot or the store: a record torn, and the next one written
  behind it, by replay or by another call.
  The number of crashes, restarts and Saves is not bounded.
- Three documents, one or two workers (`Reindex`): with two, documents are in the
  store, the channel and both workers' hands at once, and one worker can fail. With
  one, three documents are the most that it and its channel of two places can take:
  `RoomToSend` says something only when the channel is full with a document left to
  send. Here that happens, as long as the worker has not taken a document.
  `MaxCalls = 3`: one call can be under way when the rebuild starts or is swapped in,
  and others run meanwhile. One content is enough to tell a document from none; the
  proofs are for any number. With the fourth document of `ReindexOffline.cfg`, and one
  worker, the rebuild hangs.
- Two documents, two fields, two values, four calls (`RangeIndex`): a document
  can be indexed, flushed, updated with fewer or other fields and deleted with
  another in the tree; every bound lies below, at or above a value of the other
  document. A leaf takes one document, so the tree has a leaf to pass by;
  larger leaves are covered by the proofs.
- Three documents, three values, three calls and pages of one document
  (`SortedPages`): three documents with distinct values, or one or two of them
  written twice, in any order with the pages between. Pages of one document put
  a page edge, and a cursor, at every place.
- Two callers and one goroutine of the index (`EngineLocks`): one caller makes
  any call, the other a write, a Save or a hybrid search, the third runs the
  timer and the merge. A reader that waits for itself needs one writer, and a
  cycle of two locks two goroutines; three let a third come in between. For any
  number the safety properties are proved.
- Two documents, two fields, two words, two contents, three calls (`Search`): a
  document can have a posting of a word in two segments and in the buffer, with
  different positions. The queries are all pairs of a Must, Should or MustNot
  on the title with any clause, all pairs of phrases, every clause alone, and
  ranges and filters with no clause or with one on the title; one word has a
  synonym. A segment and the next flush start a merge.
- Two documents, three values (a keyword of two words, an integer, a float that
  does not parse as one), three calls (`FieldTypes`): a field can go through three
  types, be promoted by a word or by a number, and be saved, replayed or rebuilt
  between any two calls, as often as one likes. The field has no mapping, one as
  text that is not stored, or one as an integer, which two of the values are not.
  A flush waits for a merge that is due (`MaxSegments = 1`), which bounds the
  segments.
- Symmetry is used for documents (and contents) only, and only in runs without
  liveness properties.

### Fairness

`InvertedIndex!FairSpec` makes the merge goroutine and the flush timer weakly
fair: both are goroutines of the Go runtime that hold no lock while they wait,
and a mutex is handed to them eventually. Nothing makes a caller write.
`Reindex!FairSpec` says the same of the sending goroutine, of each worker, of
Reindex waiting on its error channel, and of a call of the live engine that has
begun; no call has to begin, no rebuild has to start, and which document `Each`
sends next or whether a worker fails stays open.
`SortedPages!FairSpec` says that a client that has begun asks for the next page
eventually; `PagingEnds` is about what it is given.
`EngineLocks!FairSpec` says that the scheduler runs every goroutine that can go
on, and that a writer in line is not overtaken for ever: the first thing
`RWMutex.Lock` takes is a `sync.Mutex`, which is handed to whoever has waited for
a millisecond (its starvation mode). No goroutine has to begin a call. The other specifications
are checked for safety only.

## Proofs

`InvertedIndexProofs` proves, for every set of documents, terms and texts, and
all policies and bounds (assumptions `TextsAssumption`, `PolicyAssumption`,
`BoundAssumption` of `InvertedIndex`):

| Theorem | States |
|---|---|
| `StructureCorrect` | `Spec => [](TypeOK /\ CapturedIsPrefix)` |
| `CompletenessCorrect` | `Spec => [](Completeness /\ NewestIsCurrent)` |
| `NewestCorrect` | `Spec => []NewestIsCurrent` |
| `CoverCorrect` | `Spec => []DocsCoverPostings` |
| `MergeKeepsAnswersCorrect` | `Spec => MergeKeepsAnswers` |
| `OnlyMergeUnhidesCorrect` | `Spec => OnlyMergeUnhides` |

The argument. `TypeOK /\ CapturedIsPrefix` is inductive: flushes only append,
and while the flag is up no second merge starts. `Completeness` is not
inductive, because a merge in progress carries obligations of its own. The
strengthening is `LiveUnmarked` (a live document has no tombstone) and `Kept`:
every current term of a document has a *fresh* posting, one of the current
generation in the newest layer that knows the term, and if the merge has copied
a tombstone of the document then that posting lies behind the captured
segments. So what the merge drops is never what is needed, and what it keeps of
the captured segments is the newest among them. For the merge action one needs
that, if some captured segment knows a term of a document, a last one does; this
is carried along as one more inductive invariant (`Resolved`), kept by each step
that adds or replaces segments. The action properties follow from these invariants.

`PersistenceProofs` proves, for every set of keys and values, any length of the log
and number of torn writes (assumptions `KeysAssumption`, `NoValueAssumption`,
`FileAssumption` of `LocalStore`; the first says that keys and values are bytes,
the second tells a missing value and an unknown one from those):

| Theorem | States |
|---|---|
| `InvariantCorrect` | `StoreSpec => []StoreIInv` |
| `StoreTypeCorrect` | `StoreSpec => []StoreTypeOK` |
| `RestartCorrect` | `StoreSpec => []RestartChangesNothing` |
| `ReadsBackCorrect` | `StoreSpec => []UndamagedReadsBack` |
| `RewriteCorrect` | `StoreSpec => RewriteKeepsReads` |
| `KVCorrect` | `StoreSpec => ImplementsKV` |

The argument. All of it hangs on what a restart reads from the log, which is the
value of a recursive function over its bytes. `Chain` says without recursion what
the records of a log are: they lie one behind the other and the last is followed
by less than a header and a key. Every log has such a chain (`RecursExists`, by
induction from its end) and only one (`ChainsAgree`). A log is `Whole` when the last
record ends it. What is written behind a whole log is then read as one record more,
or not at all when it is too short (`OneMore`, `ShortTail`), and changes the entry of
its own key only (`AppendedEntries`, `AppendedReads`, `TornKey`). Compaction lays the
live records one behind the other (`FlattenLaid`, by induction on how many) and moves
each entry to its copy (`CompactFacts`).
The inductive invariant says of every log that the entries in use lead to records of
Puts (`IndexSound`), which is all that `RewriteKeepsReads` and `StoreTypeOK` need, and of an
undamaged one that it is whole but for a torn record, whose key is uncertain
(`TornTail`), that a restart would find what was written (`Recoverable`), and that the
index in use agrees with it (`Agreeing`). Appending behind a torn record breaks these
three for good, which is the finding about line 317. For `KVStore`, `Recoverable` is
the refinement mapping's half of the work: each action changes what a restart would
find for one key at most. TLC checked the invariant before it was proved.

`PersistenceProofs` also proves, for every set of documents and contents, every
length of the log and number of faults (assumptions `ContentsAssumption`,
`SnapshotAssumption`, `BoundAssumption` of `Durability`; the first two only say
that a document is told apart from none and from an unreadable one, and an index
from no snapshot file and from one that does not decode):

| Theorem | States |
|---|---|
| `TypeCorrect` | `Spec => []TypeOK` |
| `RecoveryCorrect` | `Spec => []UnharmedSurvives` |
| `DiskCorrect` | `Spec => []DiskHoldsIndex` |

The argument. `UnharmedSurvives` speaks of an idle engine only and says
nothing about a replay under way. The inductive invariant `Unharmed` relates
the entries still to be applied to the log: they are its end (`Suffix`), so
that the last entry to be applied to a document is also the last one in the
log, and that one says what the document should contain (`LastWanted`).
Documents with nothing to be applied are up to date in the process
(`Applied`), those without an entry in the log on disk (`Covered`). Of the store
both say so for its entries and its file (`Settled`, `Kept`), with the documents in
`lost` left out and the file left out once records are buried in it: a write that
is cut by a crash changes the file only of a document whose entry is still in the
log. A restart turns the second fact into the first, applying an entry moves its
document from the log's share to the process's, and `SaveAlone` is what allows the
log to be cut: the snapshot then equals the index, which has nothing left to apply.
TLC checked the invariant on the small instance before it was proved. What is
left out is real: a document the store failed to write, or wrote behind a torn
record, is not there after a Save, which cuts the log, and a restart.

`ReindexProofs` proves, for every finite set of documents, every number of
workers, any contents and any number of calls (assumptions `DocsAssumption`,
`WorkersAssumption`, `NoJobAssumption`, `BoundAssumption` of `Reindex`; the
third only says that an empty hand is told apart from a document in it):

| Theorem | States |
|---|---|
| `TypeCorrect` | `Spec => []TypeOK` |
| `UntouchedCorrect` | `Spec => []UntouchedSurvive` |
| `InHandCorrect` | `Spec => []OnlyInHand` |
| `NoneVanishesCorrect` | `Spec => []NoneVanishes` |
| `RoomCorrect` | `Spec => []RoomToSend` |

The argument. `UntouchedSurvive` speaks of the end of a rebuild; while it is
under way, an untouched document is in flight (still to be sent, in the channel
or in a worker's hand) with the content it should have (`Current`), or already
in the shadow index (`Covered`), and it is in the store unless a worker is
about to put it back (`Stored`). When all workers have returned nothing is in
flight (`Phases`). That `Each` sends documents that are there rests on
`Frozen`: under its lock nobody changes the store, so a worker stops at its
first deletion. The same fact gives `Counted`: documents sent stay in the
channel or with a worker, so channel, busy workers and documents to be sent are
together no more than there are, and with three documents per worker a full channel
and no idle worker leave nothing to send. `Before` describes the live engine before a rebuild
starts, which may happen in the middle of a call; its document counts as
touched. `Kept` (whoever deleted a document that should exist is about to put
it back) gives `NoneVanishes`. TLC checked the whole invariant first.

`RangeIndexProofs` proves, for every set of documents, fields, integer values
and queries with at least one bound, every size of a leaf and number of calls
(assumptions `ValuesAssumption`, `QueriesAssumption`, `NoneAssumption`,
`LeafSizeAssumption`, `BoundAssumption` of `RangeIndex`; the third tells what is
missing apart from what is there):

| Theorem | States |
|---|---|
| `TypeCorrect` | `Spec => []TypeOK` |
| `DeletedGoneCorrect` | `Spec => []DeletedGone` |
| `NeverByOldValueCorrect` | `Spec => []NeverByOldValue` |
| `SettledExactCorrect` | `Spec => []SettledExact` |

The argument. The properties speak of moments between calls; the invariant
speaks of every step. An entry in the tree has the values `kdEntries` has,
unless its document is just being deleted (`Shared`); those are the values the
store has, or the ones the call under way has come to (`Holding`), and there are
none for a document that does not exist (`Absent`). So what a query finds is
there and has the values it was found by. A document not written since the last
flush is in a leaf whose box holds all its values (`Boxed`), and a box that
holds a value within the bounds is not passed by (`NotPruned`), whatever else is
in it: pruning never costs a result. TLC checked the properties first.

`EngineProofs` proves, for any number of goroutines and any locks, data and
calls (assumptions `ProcsAssumption`, `DataAssumption`, `ScriptAssumption` of
`EngineLocks`; the last says that a call begins and ends without a lock, and that
the locks it is said to have are those it took and did not give back):

| Theorem | States |
|---|---|
| `LocksCorrect` | `LocksSpec => []LocksOK` |
| `TypeCorrect` | `Ordered /\ Guarded => (LocksSpec => []TypeOK)` |
| `StuckCorrect` | `Ordered => (LocksSpec => []StuckOnlyOnItself)` |
| `RacesCorrect` | `Guarded => (LocksSpec => []RacesKnown)` |

The argument. `LocksOK` is inductive: whoever has a lock for writing announced
himself and is alone with it (`Exclusive`), a lock has a writer only while one is
at its `Lock` or has it (`WriterAtIt`), and a reader is parked only behind one
(`ParkedAtIt`). If all calls that run were stuck and none on itself, each would
wait for a lock somebody else has (`SomebodyHasIt`); take one that waits for a
lock of the highest rank: whoever has that lock waits in turn, for a lock further
in (`FurtherIn`), whose rank is higher still. Two calls that use a datum, one to
change it, under the locks that guard it would both have one lock, one of them
for writing. `Ordered` and `Guarded` are about constants; for the calls of the
engine TLC evaluates them, in every state of `engine_locks`, as parts of `TypeOK`.

`SearchProofs` proves, for every set of documents and fields, every finite set of
words, and any contents, synonyms, queries and number of calls and segments
(assumptions `WordsAssumption`, `ContentsAssumption`, `SynonymsAssumption`,
`QueriesAssumption`, `AttributesAssumption`, `BoundAssumption` of `Search`; the second
tells a missing document from those there are):

| Theorem | States |
|---|---|
| `InvariantCorrect` | `Spec => []IInv` |
| `CurrentTextCorrect` | `Spec => []CurrentTextFound` |
| `WrittenOnceCorrect` | `Spec => []WrittenOnceExact` |
| `PatternsCorrect` | `Spec => []PatternsAgree` |
| `SynonymsCorrect` | `Spec => []ExpandedHits` |

The argument. The properties speak of what a query finds, the invariant of the
postings a document has in the layers of the index, and it says so of each document
alone: one never written has none (`Untouched`), one written once has only those of
its text (`Own`), a stored one has some posting of each word of its text, and no
tombstone (`Kept`), and the trie has the words of what was indexed since the start
(`Indexed`). A flush and a merge pass on the postings of the layers they take. What
`Lookup` returns is one of these postings, so for a document written once every view
of a search is its text, and the loop over the clauses and the one over the positions
of a phrase are shown to compute what the text satisfies (`WrittenOnceExact`). For
`CurrentTextFound`, `Kept` is enough. `ExpandedHits` does not depend on the index:
each clause of an expanded query is traced to the clause it comes from (`Traced`), each
clause has itself among its expansions, and a Should that is met makes up for those
that were added; a query without clauses has none to bring a candidate once its ranges
are gone (`ExpandLoses`).

`SortedPagesProofs` proves, for every finite set of documents, any integers as
values, any distinct scores and every size of a page (assumptions `DocsAssumption`,
`ValuesAssumption`, `ScoreAssumption`, `SizeAssumption`, `BoundAssumption` of
`SortedPages`; the last bounds the entries by 20, see above):

| Theorem | States |
|---|---|
| `TypeCorrect` | `Spec => []TypeOK` |
| `ResultsInOrderCorrect` | `Spec => []ResultsInOrder` |
| `OffsetPagesFitCorrect` | `Spec => []OffsetPagesFit` |
| `CleanOnceCorrect` | `Spec => []CleanOnce` |

The argument. A list by a strict order has every member once and in order
(`RankFacts`: the rank of a member, how many come before it, numbers them without a
gap). So `Sort` keeps the entries and puts their values in order (`SortedFacts`), the
walk shows them from one end or the other, and ranking rearranges neighbours of one
value only (`RankedFacts`). What `sortFirstSearch` returns is then known place by
place, for every number of documents after which the walk stopped (`Layout`): a search
with a limit returns the first places of the layout for its own stop. That is not the
same layout for every limit, since a stop may cut through documents of one value before
they are ranked; but a document with a single entry and a value of its own (`Single`) is
in its place whatever the stop, the single documents come in turn (`InTurn`), and a list
shows each of them once (`Shows`). If every document is plain, those with a value
are single, which gives `OffsetPagesFit`. `ResultsInOrder` counts: the layout of a walk to
the end has every entry in one place (`OntoIsOneToOne`, `LayoutTimes`), so a document as
often as it has entries that are shown, and the rest behind it each once. For `CleanOnce` the invariant counts: a client whose cursor
is a clean document has got the clean ones up to it once, and none behind it
(`GotInTurn`), and a page, a stretch of the list, adds the ones from the cursor to the
next cursor.

`EngineProofs` also proves, for every finite set of documents, any values with any
words, inferred types and parsers, and any mappings (assumptions `DocsAssumption`,
`ValuesAssumption`, `InferAssumption`, `ParsesAssumption`, `TokensAssumption`,
`NoneAssumption`, `MappingsAssumption`, `BoundAssumption` of `FieldTypes`;
`MappingsAssumption` says that a mapping given by an option is explicit, as `Schema.Set`
makes it, `ParsesAssumption` that a value parses as the type of number it was taken for,
`TokensAssumption` that the analyzer makes a list of words, perhaps an empty one, of each
value, and `NoneAssumption` tells no mapping from those there are):

| Theorem | States |
|---|---|
| `FoundByValueCorrect` | `Spec => []FoundByValue` |
| `OneTypeForGoodCorrect` | `Spec => []OneTypeForGood` |
| `RebuiltAlikeCorrect` | `Spec => RebuiltAlike` |

The argument. Every operation changes what is visible of one document only (`OnlyOf`), and
the properties say something of each document, so it is enough to follow one. Memory finds
the last value of a document (`FoundAll`), the store has it or no longer has the field
(`Stored`). A restart forgets memory, so the invariant keeps what it will need: a snapshot
finds what was to be found at the last Save (`SnapTells`), and the last entry of a document
in the log, if there is one, has its last value, while a document without an entry has the
value of the snapshot (`LogTells`). By induction over the log, replay leaves each document as
its last entry so far says, or as the snapshot had it (`ReplayedSoFar`). A rebuild goes over
the documents of the store in some order, each once, and finds those it has come to
(`RebuiltSoFar`); if it knows the type it leaves of them the terms, the length and the number
of their value only, and nothing of those to come (`AlikeSoFar`). Both replay and rebuild
are recursive functions, whose values are states of the engine by `RecursionFacts`. For
`OneTypeForGood` one has to know that the schema has the one type all values are of, and that
Load and the rebuild's explicit copy keep it: `Kinds` says that of the live schema
and the snapshot's, for the types of all values seen so far, and that the log has no others.
A value without a word is found by any field of text, in that it has no word to be found by:
the theorem about `FoundByValue` says nothing of it.

`SequenceFacts` states what Append, Tail, concatenation, `FlattenSeq` and `SetToSeq` do
to the elements of a sequence, index by index, and two inductions: over the numbers
(`NaturalInduction`, from the least counterexample) and over sequences
(`AppendInduction`). They are about a set of numbers or sequences rather than about a
predicate, and so can be cited with the provers at hand.

Only model-checked: `MergeFinishes`, `RebuildEnds`, `PagingEnds` and `CallsEnd`, since
liveness under fairness is out of reach of the prover, and that the calls of `EngineCalls`
are `Ordered` and `Guarded`, which TLC evaluates. Every safety invariant and action property
of a passing run is a theorem. `CapturedIsPrefix` and `DocsCoverPostings` of `InvertedIndex`
are the other way round: proved, and in no run.

## Findings

Each is a violated run, with the line of the repository it contradicts quoted
in `PROJECT.json`.

1. Reindex hangs with more than three documents per worker
   (`engine/engine.go:483`): `Each` waits for room in the channel with the lock
   of the store, and the workers wait for that lock. Writes of the live engine
   hang with it.
2. With a synonym configured, queries lose their ranges, terms and regex filters
   (`engine/engine.go:336`), also queries for words without synonyms.
3. The document count drifts below the number of documents with a term
   (`index/index.go:289`), by deletions of unknown documents, by Reindex and by
   replay, and the scores of common words become negative.

Known from properties that say how far the damage goes:

- sorted results have a document once for each entry it has (`ResultsInOrder`), and
  an update adds an entry and takes none away (`index/field_index.go:53`): it is listed
  twice, or, updated without the field, at the place of its old value, where the
  `README.md` of the repository says that "re-indexing the same ID replaces the old
  document" (107) and that "documents missing the sort field are always appended at the
  end" (199). A client that pages may be sent back to the first of the entries.
- numeric fields are the same (`index/index.go:468`): one that an update leaves out
  keeps its value for range queries, as does one whose new value does not parse as
  its type (`engine/engine.go:215`), until Delete or Reindex (`RebuiltAlike`).
  `SettledExact` and `NeverByOldValue` leave such fields out.
- expansion by synonyms keeps the hits of a query with a clause, adds some, and takes
  all hits from a query of ranges only (`ExpandedHits`). It adds some because filters
  are dropped, which finding 2 is about, and because a Must clause whose word has
  synonyms becomes Should clauses (`engine/engine.go:319`), although "`Must`, `MustNot`,
  and `Phrase` clauses are not" expanded (README.md:285).
- a number in a field of text has no term, since the tokenizer keeps letters only
  (`engine/engine.go:238`, `analysis/tokenizer.go:58`): when the field was promoted by
  another value (an integer and a float are enough, `engine/mapping.go:90`), is mapped
  as text or was recovered without a log, no query for a term finds its document.
  "Both docs should be searchable after promotion to text" says a test
  (`engine/dynamic_mapping_test.go:193`), and looks for the other one. `FoundByValue`
  leaves out the values without a word.
- a merge undoes deletions (`index/index.go:424`): it drops each tombstone it
  copied, including those of documents whose postings are in the buffer or were
  flushed meanwhile. Search hides most of it, as the store no longer has the
  document, but document frequencies count it. `OnlyMergeUnhides` names the case
  and excludes any other.
- the local store appends behind a torn record (`storage/local/local.go:317`) and
  no longer finds the new records after the next restart; `UndamagedReadsBack`
  says that it finds everything up to then. The engine asks no write of the store
  whether it failed (`engine/engine.go:187`, `259`, `291`), so a document may be in the
  index only, and after the next Save and restart nowhere: the ghost `lost` of
  `Durability`.
- Save rewrites the snapshot in place (`engine/snapshot.go:63`): a crash in it
  loses the part of the index whose log is gone. It is the harm
  `UnharmedSurvives` excludes.
- a numeric value can stay out of range queries until the next write
  (`index/index.go:133`): a flush by size empties the write buffer just before
  the value is added, and the timer flushes only what is in the buffer. Such
  values are not settled in the sense of `SettledExact`.
- `HybridSearch` hangs, and every call behind it, when a writer comes between its
  two read locks (`engine/search.go:402-407`); `TermCount` likewise
  (`StuckOnlyOnItself`). `PrefixSearch`, `Reindex`, `Schema` and `Save` use shared
  data without its lock (`RacesKnown`).
- after Load and Reindex every inferred type is explicit (`engine/snapshot.go:114`):
  a value of another type no longer promotes the field to text, and a replay behind
  a snapshot types a field differently than the live engine did (README.md:498 has
  the promotion, README.md:526 the replay of every operation); `OneTypeForGood`
  says that fields of one type are safe from it.
- without a log, recovery skips every document of the snapshot, so updates since
  are not searchable, and indexes the others as text whatever their mapping
  (`engine/snapshot.go:133-139`); a value that is not stored is lost on Reindex and
  on a restart without a log: the ghost `lost` of `FieldTypes`.
- a query of MustNot or filters only finds nothing, since nothing brings a
  candidate; two phrases of different fields that share a word mix its positions
  (`engine/search.go:63`); words of earlier versions still find a document: an update clears the tombstone that
  hid them (`index/index.go:446`), and merges keep them, which a comment has removed by
  the next merge (`engine/wal_test.go:157`).
  `WrittenOnceExact` and `CurrentTextFound` leave out these, and only these. After
  a restart PrefixSearch misses the documents of the snapshot (`PatternsAgree`).

Seen while reading and not the subject of a run: the log is truncated even when the
snapshot failed (`engine/snapshot.go:72`); the workers of Reindex rewrite the
store of the live engine, which for moments does not have the document
(`engine/engine.go:439`); `NextCursor` is set on the last page as well, and a
cursor whose document was deleted ends the listing (`engine/search.go:275,305`);
a page sorted by a field stops among equal values before it ranks them by score, so
with ties at its edge documents are skipped or repeated (`engine/search.go:176`; README.md:194
has the score as tiebreaker);
`FieldIndex.Range`, which nothing calls, returns nothing for most bounds, and
`FieldIndex.Rebuild`, which nothing calls, takes its lock twice;
with more than 20 results, some of them listed twice, ranking by score compares
documents inconsistently and may move also documents listed once out of order
(`engine/search.go:184-189`);
`FuzzySearch` cuts a term at its second colon (`engine/search.go:328`);
`FlushPolicy.MaxBytes`
(README.md, flush and merge policy) is never read; `Reindex` with a new analyzer
swaps the index in but leaves `e.analyzer`, with which queries are analysed, as
it was, and without `WithAnalyzer` it builds with the default one whatever the engine
had (`engine/engine.go:436-453`); `Resolve` never returns the conflict its comment
announces (`engine/mapping.go:76`); a parallelism of 0 makes `Reindex` of a store with
documents wait for ever on a channel without capacity and without receivers.

## What is not modelled

Floating point (BM25, cosine similarity, the mixing of scores), text analysis,
highlighting, counting in aggregations and the S3 stub: stateless, or nothing to
get wrong by order. `docstore.go` and `index/numeric.go` are not used by the
engine. Power failures (the log is never synced). Log lines over 64 KiB, at which
replay stops. What the races of `Save` may do to the maps it encodes. What only
tests call: `Merge` called directly beside a running one, and `StopFlushTimer`.
Two calls of Reindex at once, and a parallelism of 0. Boost and vectors, which
replay drops. In range queries, documents without the field, which the tree takes
for value 0 (`index/kdtree.go:174`). The rest is planned.

## Plan

In this order; what is done says so.

1. `InvertedIndex` and its proofs (done): the core, where concurrency is.
2. `LocalStore` implementing `KVStore`, and the proofs (done): what a torn log reads as.
3. `Durability` and its proofs (done): what a crash may do.
4. `Reindex` and its proofs (done): the job channel, its workers, the store
   lock held by `Each`, calls of the live engine during the rebuild.
   `EngineLocks`, `EngineCalls` and their proofs (done): who waits for whom,
   and who races with whom.
5. `RangeIndex`, `SortedPages` and their proofs (done).
6. `Search` and its proofs (done): `Match` and `PhraseMatch` against the stored text,
   synonyms, filters, searches by pattern.
7. `FieldTypes` and its proofs (done): promotions, restores, lengths and the document
   count, with a log and without.
8. `SaveRace` (left): `Flush` and `Snapshot` without the lock, as choices over what
   the race can produce, composed with `InvertedIndex`.
9. `Durability` with the length of log lines (left).
10. `NumericIndex` (left): the unused BKD index, as pure algorithms.

Abstract specifications worth stating: the map (done); the index as a function
from documents to terms, implemented by `InvertedIndex` for live documents; a
range query as a filter over the stored values, which `SettledExact` states as
an invariant.

Theorems worth proving next: that `Durability` implements a map of documents while
unharmed; that the calls of `EngineCalls` are `Ordered` and `Guarded`.
