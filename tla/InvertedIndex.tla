---------------------------- MODULE InvertedIndex ----------------------------
(***************************************************************************)
(* The inverted index of index/index.go: a mutable write buffer, a list of *)
(* immutable segments flushed from it, a set of tombstones, and a          *)
(* background goroutine that merges the segments.                          *)
(*                                                                         *)
(* Every operation of the index runs under idx.mu and is one action, with  *)
(* the flush it may trigger inside it.  Merge is the exception: it reads   *)
(* the index under a read lock, works without the lock, and swaps the      *)
(* result in under the write lock, so it is several actions between which  *)
(* writers and the flush timer run.                                        *)
(*                                                                         *)
(* Abstractions.  A text is the sequence of terms the analyzer makes of    *)
(* it.  A posting is the term, the document and the generation of the      *)
(* document (how often it was deleted before) the posting counts tokens    *)
(* of; frequency and positions are left out.  A posting of the Go code     *)
(* that accumulated tokens of two generations is two postings here.        *)
(* The KD-tree and the sort index fed by the same calls are separate.      *)
(*                                                                         *)
(* A definition marked Slip is a mistake the code could have made in the   *)
(* definition that follows it; nothing here uses it.                       *)
(***************************************************************************)
EXTENDS Integers, Sequences, FiniteSets

CONSTANTS
    Docs,           \* document ids
    Terms,          \* field-qualified terms ("title:go")
    Texts,          \* analyzed field values: sequences of terms
    MaxTokens,      \* FlushPolicy.MaxTokens, 0 = off
    FlushSize,      \* flushSize (NewWithFlushSize), 0 = off
    FlushInterval,  \* FlushPolicy.FlushInterval, 0 = no timer
    MaxSegments,    \* MergePolicy.MaxSegments, 0 = off
    MaxGen,         \* bound: deletions of one document
    MaxDocCount     \* bound: documents counted at once

ASSUME TextsAssumption == Texts \subseteq Seq(Terms)
ASSUME PolicyAssumption == /\ MaxTokens \in Nat
                           /\ FlushSize \in Nat
                           /\ FlushInterval \in Nat
                           /\ MaxSegments \in Nat
ASSUME BoundAssumption == MaxGen \in Nat /\ MaxDocCount \in Nat

VARIABLES
    buffer,       \* postings of the write buffer
    bufferDocs,   \* documents added since the last flush
    segments,     \* flushed segments, oldest first
    tombstones,   \* deleted document ids
    trie,         \* terms known to prefix search
    docCount,     \* idx.docCount
    tokenCount,   \* tokens since the last flush
    merging,      \* the atomic flag: 0 idle, 1 in progress
    phase,        \* where the merge goroutine is
    captured,     \* the segments it read
    dropped,      \* its copy of the tombstones
    gen,          \* ghost: deletions of each document so far
    live,         \* ghost: documents added since their last deletion
    current       \* ghost: terms added to each document since then

indexVars == <<buffer, bufferDocs, segments, tombstones, trie, docCount,
               tokenCount>>
mergeVars == <<merging, phase, captured, dropped>>
ghostVars == <<gen, live, current>>
vars == <<buffer, bufferDocs, segments, tombstones, trie, docCount,
          tokenCount, merging, phase, captured, dropped, gen, live, current>>

Gens == 0..MaxGen
Posting == [term : Terms, doc : Docs, gen : Gens]
Segment == [postings : SUBSET Posting, docs : SUBSET Docs]

newSegment(postings, docs) == [postings |-> postings, docs |-> docs]

TermsOf(text) == {text[i] : i \in DOMAIN text}

-----------------------------------------------------------------------------
(* Reading the index.                                                      *)

\* Where a posting may be found: the segments, then the write buffer.
Layers == Append(segments, newSegment(buffer, bufferDocs))

Has(layer, t, d) == \E p \in layer.postings : p.term = t /\ p.doc = d

\* The layers whose posting of document d Lookup may hand out: a segment's
\* posting overwrites the buffer's, and among segments the one whose
\* goroutine finishes last wins.
LookupLayers(t, d) ==
    LET hits == {i \in DOMAIN segments : Has(segments[i], t, d)}
    IN  IF hits # {} THEN hits
        ELSE {i \in {Len(segments) + 1} : Has(Layers[i], t, d)}

Lookup(t) == {d \in Docs \ tombstones : LookupLayers(t, d) # {}}

-----------------------------------------------------------------------------
Init ==
    /\ buffer = {} /\ bufferDocs = {}
    /\ segments = <<>>
    /\ tombstones = {}
    /\ trie = {}
    /\ docCount = 0 /\ tokenCount = 0
    /\ merging = 0 /\ phase = "idle"
    /\ captured = <<>> /\ dropped = {}
    /\ gen = [d \in Docs |-> 0]
    /\ live = {}
    /\ current = [d \in Docs |-> {}]

\* Flush: the buffer becomes the newest segment; too many segments start the
\* merge goroutine unless one is at work already.
Flush(postings, docs) ==
    /\ segments' = Append(segments, newSegment(postings, docs))
    /\ buffer' = {} /\ bufferDocs' = {}
    /\ \/ /\ MaxSegments > 0 /\ Len(segments') > MaxSegments
          /\ merging = 0
          /\ merging' = 1 /\ phase' = "spawned"
       \/ /\ ~ (MaxSegments > 0 /\ Len(segments') > MaxSegments /\ merging = 0)
          /\ UNCHANGED <<merging, phase>>
    /\ UNCHANGED <<captured, dropped>>

FlushDue(tokens, docs) ==
    \/ MaxTokens > 0 /\ tokens >= MaxTokens
    \/ FlushSize > 0 /\ Cardinality(docs) >= FlushSize

\* clearTombstone: what it leaves of the buffer.
BufferWithout(d) ==
    IF d \in tombstones /\ d \in bufferDocs
    THEN {p \in buffer : p.doc # d}
    ELSE buffer

AddTokens(d, text) ==
    LET postings == BufferWithout(d) \cup
            {[term |-> t, doc |-> d, gen |-> gen[d]] : t \in TermsOf(text)}
        docs     == bufferDocs \cup {d}
        tokens   == tokenCount + Len(text)
    IN  /\ docCount < MaxDocCount
        /\ tombstones' = tombstones \ {d}
        /\ trie' = trie \cup TermsOf(text)
        /\ docCount' = docCount + 1
        /\ \/ /\ FlushDue(tokens, docs)
              /\ Flush(postings, docs)
              /\ tokenCount' = 0
           \/ /\ ~ FlushDue(tokens, docs)
              /\ buffer' = postings /\ bufferDocs' = docs
              /\ tokenCount' = tokens
              /\ UNCHANGED <<segments, mergeVars>>
        /\ live' = live \cup {d}
        /\ current' = [current EXCEPT ![d] = @ \cup TermsOf(text)]
        /\ UNCHANGED gen

\* Add: one text field.  The engine calls it once per field.
Add(d, text) == AddTokens(d, text)

\* AddRaw: a keyword, number or boolean is a single token.
AddRaw(d, t) == AddTokens(d, <<t>>)

Delete(d) ==
    /\ gen[d] < MaxGen
    /\ tombstones' = tombstones \cup {d}
    /\ docCount' = docCount - 1
    /\ gen' = [gen EXCEPT ![d] = @ + 1]
    /\ live' = live \ {d}
    /\ current' = [current EXCEPT ![d] = {}]
    /\ UNCHANGED <<buffer, bufferDocs, segments, trie, tokenCount, mergeVars>>

\* flushOnInterval.
TimerFlush ==
    /\ FlushInterval > 0
    /\ bufferDocs # {}
    /\ Flush(buffer, bufferDocs)
    /\ tokenCount' = 0
    /\ UNCHANGED <<tombstones, trie, docCount, ghostVars>>

-----------------------------------------------------------------------------
(* Merge, in the goroutine Flush started.                                  *)

MergeCapture ==
    /\ phase = "spawned"
    /\ phase' = "captured"
    /\ captured' = segments
    /\ dropped' = tombstones
    /\ UNCHANGED <<indexVars, merging, ghostVars>>

\* Slips: the first posting wins; a posting in two segments is in neither.
MergedPostingsFirst(segs, deleted) ==
    UNION {{p \in segs[i].postings :
               /\ p.doc \notin deleted
               /\ \A j \in DOMAIN segs : j < i => ~ Has(segs[j], p.term, p.doc)}
           : i \in DOMAIN segs}
MergedPostingsOnce(segs, deleted) ==
    UNION {{p \in segs[i].postings :
               /\ p.doc \notin deleted
               /\ \A j \in DOMAIN segs : j # i => ~ Has(segs[j], p.term, p.doc)}
           : i \in DOMAIN segs}

\* A later segment overwrites an earlier one's posting of the same term and
\* document; postings of the copied tombstones are skipped.
MergedPostings(segs, deleted) ==
    UNION {{p \in segs[i].postings :
               /\ p.doc \notin deleted
               /\ \A j \in DOMAIN segs : j > i => ~ Has(segs[j], p.term, p.doc)}
           : i \in DOMAIN segs}

Merged(segs, deleted) ==
    LET postings == MergedPostings(segs, deleted)
    IN  newSegment(postings, {p.doc : p \in postings})

\* Slips: segments flushed during the merge are lost; every tombstone goes.
MergeSwapAll ==
    /\ phase = "captured"
    /\ phase' = "swapped"
    /\ segments' = <<Merged(captured, dropped)>>
    /\ tombstones' = tombstones \ dropped
    /\ captured' = <<>> /\ dropped' = {}
    /\ UNCHANGED <<buffer, bufferDocs, trie, docCount, tokenCount, merging,
                   ghostVars>>
MergeSwapTombstones ==
    /\ phase = "captured"
    /\ phase' = "swapped"
    /\ segments' = <<Merged(captured, dropped)>> \o
                   SubSeq(segments, Len(captured) + 1, Len(segments))
    /\ tombstones' = {}
    /\ captured' = <<>> /\ dropped' = {}
    /\ UNCHANGED <<buffer, bufferDocs, trie, docCount, tokenCount, merging,
                   ghostVars>>

\* The captured segments never change, so the unlocked work and the swap are
\* one step.
MergeSwap ==
    /\ phase = "captured"
    /\ phase' = "swapped"
    /\ segments' = <<Merged(captured, dropped)>> \o
                   SubSeq(segments, Len(captured) + 1, Len(segments))
    /\ tombstones' = tombstones \ dropped
    /\ captured' = <<>> /\ dropped' = {}
    /\ UNCHANGED <<buffer, bufferDocs, trie, docCount, tokenCount, merging,
                   ghostVars>>

\* Slip: the flag is never given back.
MergeDoneKeepsFlag ==
    /\ phase = "swapped"
    /\ phase' = "idle"
    /\ UNCHANGED <<indexVars, merging, captured, dropped, ghostVars>>

\* The deferred merging.Store(0).
MergeDone ==
    /\ phase = "swapped"
    /\ phase' = "idle" /\ merging' = 0
    /\ UNCHANGED <<indexVars, captured, dropped, ghostVars>>

MergeStep == MergeCapture \/ MergeSwap \/ MergeDone

Write == \E d \in Docs : \/ \E text \in Texts : Add(d, text)
                         \/ \E t \in Terms : AddRaw(d, t)
                         \/ Delete(d)

Next == Write \/ TimerFlush \/ MergeStep

Spec == Init /\ [][Next]_vars

\* The goroutines of the merge and of the timer are scheduled by the Go
\* runtime; writers owe nothing.
FairSpec == Spec /\ WF_vars(MergeStep) /\ WF_vars(TimerFlush)
-----------------------------------------------------------------------------
(* Invariants.                                                             *)

\* Every variable holds a value of its type, and the flag is raised exactly
\* while the merge goroutine Flush started is at work (line 347).
TypeOK ==
    /\ buffer \in SUBSET Posting /\ bufferDocs \in SUBSET Docs
    /\ segments \in Seq(Segment) /\ tombstones \in SUBSET Docs
    /\ trie \in SUBSET Terms
    /\ docCount \in Int /\ tokenCount \in Nat
    /\ merging \in {0, 1}
    /\ phase \in {"idle", "spawned", "captured", "swapped"}
    /\ merging = 0 <=> phase = "idle"
    /\ captured \in Seq(Segment) /\ dropped \in SUBSET Docs
    /\ gen \in [Docs -> Gens]
    /\ live \in SUBSET Docs /\ current \in [Docs -> SUBSET Terms]

\* Lookup never misses a live document, whatever flushes, merges, deletions
\* and re-additions of it are under way: its tombstone is gone and a posting
\* survives in some layer.
Completeness ==
    \A d \in Docs : \A t \in current[d] : d \in Lookup(t)

\* The newest layer that knows a term of a live document counts its current
\* text.  Merge relies on it: of several postings it keeps the last.
Newest(t, d) ==
    \E i \in DOMAIN Layers :
        /\ [term |-> t, doc |-> d, gen |-> gen[d]] \in Layers[i].postings
        /\ \A j \in DOMAIN Layers : j > i => ~ Has(Layers[j], t, d)

NewestIsCurrent ==
    \A d \in Docs : \A t \in current[d] : Newest(t, d)

\* While a merge is at work, the segments it read are still the oldest ones
\* of the index, so slicing them off (line 422) removes exactly those and
\* stays in range.
CapturedIsPrefix ==
    phase = "captured" =>
        /\ Len(captured) <= Len(segments)
        /\ \A i \in DOMAIN captured : segments[i] = captured[i]

\* The document set of a layer covers its postings: clearTombstone skips the
\* buffer of a document that is not in bufferDocs, and recovery trusts a
\* segment's set to say which documents it indexes.
DocsCoverPostings ==
    \A i \in DOMAIN Layers : \A p \in Layers[i].postings : p.doc \in Layers[i].docs

-----------------------------------------------------------------------------
(* Action properties.                                                      *)

Swaps == phase = "captured" /\ phase' = "swapped"

\* Postings of d for t that the merge under way did not read.
Uncaptured(t, d) ==
    \E i \in DOMAIN Layers : i > Len(captured) /\ Has(Layers[i], t, d)

\* Replacing the segments by their merge changes no answer about a document
\* whose tombstone the merge did not copy, whatever happened to the index
\* since it was captured.
MergeKeepsAnswers ==
    [][Swaps => \A t \in Terms : Lookup(t)' \ dropped = Lookup(t) \ dropped]_vars

\* A deleted document stays hidden: the only step that shows it again, other
\* than adding it, is a merge that drops its tombstone although it never
\* read some of its postings.
OnlyMergeUnhides ==
    [][\A d \in Docs : d \notin live /\ d \notin live' =>
          \A t \in Terms : d \in Lookup(t)' \ Lookup(t) =>
              Swaps /\ d \in dropped /\ Uncaptured(t, d)]_vars

-----------------------------------------------------------------------------
(* Liveness.                                                               *)

\* A merge that was started finishes and gives the flag back, so that a
\* later flush can start the next one.
MergeFinishes == merging = 1 ~> merging = 0
=============================================================================
