------------------------- MODULE InvertedIndexProofs -------------------------
(***************************************************************************)
(* Proofs about the inverted index, for every set of documents, terms and  *)
(* texts, every flush and merge policy and every bound.                    *)
(*                                                                         *)
(* The argument.  A merge works on segments it read earlier, so its effect *)
(* is safe only because (1) they are still the oldest segments when it     *)
(* swaps (CapturedIsPrefix), and (2) no current posting of a document      *)
(* whose tombstone it copied is among them (the last conjunct of Kept).    *)
(* The answers the index gives depend only on its layers, the segments     *)
(* followed by the buffer, and each step extends that sequence at its end, *)
(* or replaces a prefix of it by its merge.                                *)
(***************************************************************************)
EXTENDS InvertedIndex, SequenceFacts, TLAPS

-----------------------------------------------------------------------------
(* Type correctness.                                                       *)

\* A posting list and a document set make a segment.
LEMMA SegmentType ==
    ASSUME NEW postings \in SUBSET Posting, NEW docs \in SUBSET Docs
    PROVE  /\ newSegment(postings, docs) \in Segment
           /\ newSegment(postings, docs).postings = postings
           /\ newSegment(postings, docs).docs = docs
BY DEF newSegment, Segment

\* The merge of segments is a segment.
LEMMA MergedType ==
    ASSUME NEW segs \in Seq(Segment), NEW deleted
    PROVE  /\ Merged(segs, deleted) \in Segment
           /\ Merged(segs, deleted).postings = MergedPostings(segs, deleted)
           /\ Merged(segs, deleted).docs =
                 {p.doc : p \in MergedPostings(segs, deleted)}
<1>1. MergedPostings(segs, deleted) \in SUBSET Posting
  <2>1. \A i \in DOMAIN segs : segs[i] \in Segment
    OBVIOUS
  <2>2. \A i \in DOMAIN segs : segs[i].postings \in SUBSET Posting
    BY <2>1 DEF Segment
  <2> QED
    BY <2>2 DEF MergedPostings
<1>2. {p.doc : p \in MergedPostings(segs, deleted)} \in SUBSET Docs
  BY <1>1 DEF Posting
<1> QED
  BY <1>1, <1>2 DEF Merged, newSegment, Segment

\* What Add puts in the buffer is a set of postings.
LEMMA AddedType ==
    ASSUME TypeOK, NEW d \in Docs, NEW text \in Seq(Terms)
    PROVE  /\ BufferWithout(d) \cup
              {[term |-> t, doc |-> d, gen |-> gen[d]] : t \in TermsOf(text)}
                 \in SUBSET Posting
           /\ TermsOf(text) \in SUBSET Terms
           /\ bufferDocs \cup {d} \in SUBSET Docs
           /\ Len(text) \in Nat
<1>1. TermsOf(text) \in SUBSET Terms
  BY DEF TermsOf
<1>2. gen[d] \in Gens
  BY DEF TypeOK
<1>3. \A t \in TermsOf(text) :
         [term |-> t, doc |-> d, gen |-> gen[d]] \in Posting
  BY <1>1, <1>2 DEF Posting
<1>4. BufferWithout(d) \in SUBSET Posting
  BY DEF BufferWithout, TypeOK
<1> QED
  BY <1>1, <1>3, <1>4 DEF TypeOK

\* Flush leaves well-typed segments, buffer and merge state.
LEMMA FlushType ==
    ASSUME TypeOK, NEW postings \in SUBSET Posting, NEW docs \in SUBSET Docs,
           Flush(postings, docs)
    PROVE  /\ segments' \in Seq(Segment)
           /\ buffer' \in SUBSET Posting /\ bufferDocs' \in SUBSET Docs
           /\ merging' \in {0, 1}
           /\ phase' \in {"idle", "spawned", "captured", "swapped"}
           /\ merging' = 0 <=> phase' = "idle"
           /\ captured' \in Seq(Segment) /\ dropped' \in SUBSET Docs
<1>1. segments' \in Seq(Segment)
  BY SegmentType, AppendFacts DEF TypeOK, Flush
<1> QED
  BY <1>1 DEF TypeOK, Flush

\* Add and AddRaw keep the types.
LEMMA AddTokensType ==
    ASSUME TypeOK, NEW d \in Docs, NEW text \in Seq(Terms), AddTokens(d, text)
    PROVE  TypeOK'
<1> DEFINE postings == BufferWithout(d) \cup
              {[term |-> t, doc |-> d, gen |-> gen[d]] : t \in TermsOf(text)}
           docs     == bufferDocs \cup {d}
<1>1. /\ postings \in SUBSET Posting /\ docs \in SUBSET Docs
      /\ TermsOf(text) \in SUBSET Terms /\ Len(text) \in Nat
  BY AddedType DEF TypeOK
<1>2. /\ tombstones' \in SUBSET Docs /\ trie' \in SUBSET Terms
      /\ docCount' \in Int /\ gen' \in [Docs -> Gens]
      /\ live' \in SUBSET Docs /\ current' \in [Docs -> SUBSET Terms]
  BY <1>1 DEF AddTokens, TypeOK
<1>3. CASE /\ Flush(postings, docs) /\ tokenCount' = 0
  BY <1>1, <1>2, <1>3, FlushType DEF TypeOK
<1>4. CASE /\ buffer' = postings /\ bufferDocs' = docs
           /\ tokenCount' = tokenCount + Len(text)
           /\ UNCHANGED <<segments, mergeVars>>
  BY <1>1, <1>2, <1>4 DEF TypeOK, mergeVars
<1> HIDE DEF postings, docs
<1>5. \/ Flush(postings, docs) /\ tokenCount' = 0
      \/ /\ buffer' = postings /\ bufferDocs' = docs
         /\ tokenCount' = tokenCount + Len(text)
         /\ UNCHANGED <<segments, mergeVars>>
  BY DEF AddTokens, postings, docs
<1> QED
  BY <1>3, <1>4, <1>5 DEF postings, docs

\* Every write is a call of AddTokens or a deletion.
LEMMA WriteCases ==
    ASSUME Write
    PROVE  \E d \in Docs : \/ \E text \in Seq(Terms) : AddTokens(d, text)
                           \/ Delete(d)
<1> PICK d \in Docs : \/ \E text \in Texts : Add(d, text)
                      \/ \E t \in Terms : AddRaw(d, t)
                      \/ Delete(d)
  BY DEF Write
<1>1. CASE \E text \in Texts : Add(d, text)
  BY <1>1, TextsAssumption DEF Add
<1>2. CASE \E t \in Terms : AddRaw(d, t)
  <2> PICK t \in Terms : AddRaw(d, t)
    BY <1>2
  <2>1. <<t>> \in Seq(Terms)
    OBVIOUS
  <2> QED
    BY <2>1 DEF AddRaw
<1> QED
  BY <1>1, <1>2

\* The merge keeps the segments before it and puts its own in their place.
LEMMA SwapType ==
    ASSUME TypeOK, CapturedIsPrefix, MergeSwap
    PROVE  /\ Len(captured) \in Nat /\ Len(captured) <= Len(segments)
           /\ DOMAIN captured = 1..Len(captured)
           /\ Merged(captured, dropped) \in Segment
           /\ segments' \in Seq(Segment)
           /\ Len(segments') = Len(segments) - Len(captured) + 1
           /\ segments'[1] = Merged(captured, dropped)
           /\ \A k \in 2..(Len(segments) - Len(captured) + 1) :
                 segments'[k] = segments[k + Len(captured) - 1]
<1>1. /\ captured \in Seq(Segment) /\ segments \in Seq(Segment)
      /\ phase = "captured"
      /\ segments' = <<Merged(captured, dropped)>> \o
                     SubSeq(segments, Len(captured) + 1, Len(segments))
  BY DEF TypeOK, MergeSwap
<1>2. Len(captured) \in Nat /\ Len(captured) <= Len(segments)
      /\ DOMAIN captured = 1..Len(captured)
  BY <1>1 DEF CapturedIsPrefix
<1>3. Merged(captured, dropped) \in Segment
  BY <1>1, MergedType
<1> QED
  BY <1>1, <1>2, <1>3, ReplacePrefixFacts

\* New builds an index that is well formed and has no merge at work.
LEMMA InitType == Init => TypeOK /\ CapturedIsPrefix
<1> SUFFICES ASSUME Init PROVE TypeOK /\ CapturedIsPrefix
  OBVIOUS
<1>1. 0 \in Gens
  BY BoundAssumption DEF Gens
<1> QED
  BY <1>1 DEF Init, TypeOK, CapturedIsPrefix

\* Each step keeps the types.
LEMMA TypeStep ==
    TypeOK /\ CapturedIsPrefix /\ [Next]_vars => TypeOK'
<1> SUFFICES ASSUME TypeOK, CapturedIsPrefix, [Next]_vars PROVE TypeOK'
  OBVIOUS
<1>1. CASE Write
  <2> PICK d \in Docs : \/ \E text \in Seq(Terms) : AddTokens(d, text)
                        \/ Delete(d)
    BY <1>1, WriteCases
  <2>1. CASE \E text \in Seq(Terms) : AddTokens(d, text)
    BY <2>1, AddTokensType
  <2>2. CASE Delete(d)
    <3>1. gen[d] + 1 \in Gens
      BY <2>2, BoundAssumption DEF Delete, TypeOK, Gens
    <3>2. gen' \in [Docs -> Gens]
      BY <2>2, <3>1 DEF Delete, TypeOK
    <3>3. current' \in [Docs -> SUBSET Terms]
      BY <2>2 DEF Delete, TypeOK
    <3> QED
      BY <2>2, <3>2, <3>3 DEF Delete, TypeOK, mergeVars
  <2> QED
    BY <2>1, <2>2
<1>2. CASE TimerFlush
  <2>1. Flush(buffer, bufferDocs) /\ tokenCount' = 0
    BY <1>2 DEF TimerFlush
  <2>2. UNCHANGED <<tombstones, trie, docCount, ghostVars>>
    BY <1>2 DEF TimerFlush
  <2> QED
    BY <2>1, <2>2, FlushType DEF TypeOK, ghostVars
<1>3. CASE MergeCapture
  BY <1>3 DEF MergeCapture, TypeOK, indexVars, ghostVars
<1>4. CASE MergeSwap
  <2>1. segments' \in Seq(Segment)
    BY <1>4, SwapType
  <2>2. captured' \in Seq(Segment)
    BY <1>4 DEF MergeSwap
  <2> QED
    BY <1>4, <2>1, <2>2 DEF MergeSwap, TypeOK, ghostVars
<1>5. CASE MergeDone
  BY <1>5 DEF MergeDone, TypeOK, indexVars, ghostVars
<1>6. CASE UNCHANGED vars
  BY <1>6 DEF TypeOK, vars
<1> QED
  BY <1>1, <1>2, <1>3, <1>4, <1>5, <1>6 DEF Next, MergeStep

\* A flush adds one segment at the end; nobody else but the merge touches
\* the list, and only MergeCapture fills its copy.
LEMMA SegmentsGrow ==
    ASSUME TypeOK, [Next]_vars, ~ MergeSwap, ~ MergeCapture
    PROVE  /\ \/ segments' = segments
              \/ \E s \in Segment : segments' = Append(segments, s)
           /\ phase' = "captured" <=> phase = "captured"
           /\ captured' = captured /\ dropped' = dropped
<1>1. ASSUME NEW postings \in SUBSET Posting, NEW docs \in SUBSET Docs,
             Flush(postings, docs)
      PROVE  /\ \E s \in Segment : segments' = Append(segments, s)
             /\ phase' = "captured" <=> phase = "captured"
             /\ captured' = captured /\ dropped' = dropped
  BY <1>1, SegmentType DEF Flush, TypeOK
<1>2. CASE Write
  <2> PICK d \in Docs : \/ \E text \in Seq(Terms) : AddTokens(d, text)
                        \/ Delete(d)
    BY <1>2, WriteCases
  <2>1. ASSUME NEW text \in Seq(Terms), AddTokens(d, text)
        PROVE  \/ \E postings \in SUBSET Posting, docs \in SUBSET Docs :
                     Flush(postings, docs)
               \/ UNCHANGED <<segments, mergeVars>>
    BY <2>1, AddedType DEF AddTokens
  <2>2. CASE Delete(d)
    BY <2>2 DEF Delete, mergeVars
  <2> QED
    BY <1>1, <2>1, <2>2 DEF mergeVars
<1>3. CASE TimerFlush
  BY <1>1, <1>3 DEF TimerFlush, TypeOK
<1>4. CASE MergeDone
  BY <1>4 DEF MergeDone, indexVars
<1>5. CASE UNCHANGED vars
  BY <1>5 DEF vars
<1> QED
  BY <1>2, <1>3, <1>4, <1>5 DEF Next, MergeStep

\* Each step keeps the captured segments at the front.
LEMMA PrefixStep ==
    TypeOK /\ CapturedIsPrefix /\ [Next]_vars => CapturedIsPrefix'
<1> SUFFICES ASSUME TypeOK, CapturedIsPrefix, [Next]_vars
             PROVE  CapturedIsPrefix'
  OBVIOUS
<1>1. CASE MergeCapture
  BY <1>1 DEF MergeCapture, indexVars, CapturedIsPrefix, TypeOK
<1>2. CASE MergeSwap
  BY <1>2 DEF MergeSwap, CapturedIsPrefix
<1>3. CASE ~ MergeSwap /\ ~ MergeCapture
  <2>1. /\ phase' = "captured" <=> phase = "captured"
        /\ captured' = captured
    BY <1>3, SegmentsGrow
  <2>2. CASE segments' = segments
    BY <2>1, <2>2 DEF CapturedIsPrefix
  <2>3. CASE \E s \in Segment : segments' = Append(segments, s)
    <3> PICK s \in Segment : segments' = Append(segments, s)
      BY <2>3
    <3>1. /\ Len(segments) \in Nat
          /\ Len(segments') = Len(segments) + 1
          /\ \A i \in 1..Len(segments) : segments'[i] = segments[i]
      BY AppendFacts DEF TypeOK
    <3>2. Len(captured) \in Nat /\ DOMAIN captured = 1..Len(captured)
      BY DEF TypeOK
    <3> QED
      BY <2>1, <3>1, <3>2 DEF CapturedIsPrefix
  <2> QED
    BY <1>3, <2>2, <2>3, SegmentsGrow
<1> QED
  BY <1>1, <1>2, <1>3

\* The type invariant and CapturedIsPrefix hold in every reachable state:
\* the slice of line 422 never runs out of range, and the segments it cuts
\* off are the ones the merge has read.
THEOREM StructureCorrect == Spec => [](TypeOK /\ CapturedIsPrefix)
<1>1. TypeOK /\ CapturedIsPrefix /\ [Next]_vars => (TypeOK /\ CapturedIsPrefix)'
  BY TypeStep, PrefixStep
<1> QED
  BY InitType, <1>1, PTL DEF Spec

-----------------------------------------------------------------------------
(* The layers.                                                             *)

\* Layer i is the newest one that holds a posting of t for d, and it counts
\* the current text of d.
Fresh(t, d, i) ==
    /\ i \in DOMAIN Layers
    /\ [term |-> t, doc |-> d, gen |-> gen[d]] \in Layers[i].postings
    /\ \A j \in DOMAIN Layers : j > i => ~ Has(Layers[j], t, d)

\* A step that changes the layers only at the top: the segments stay, the
\* buffer's place is taken by a layer with these postings, and if it was
\* flushed an empty buffer follows.
TopBecomes(postings) ==
    /\ \A i \in 1..Len(segments) : Layers'[i] = Layers[i]
    /\ Layers'[Len(segments) + 1].postings = postings
    /\ 1..(Len(segments) + 1) \subseteq DOMAIN Layers'
    /\ \A i \in DOMAIN Layers' :
          \/ i \in 1..(Len(segments) + 1)
          \/ i = Len(segments) + 2 /\ Layers'[i].postings = {}

\* The layers are the segments and the buffer above them.
LEMMA LayersShape ==
    ASSUME NEW segs \in Seq(Segment), NEW postings \in SUBSET Posting,
           NEW docs \in SUBSET Docs,
           NEW layers, layers = Append(segs, newSegment(postings, docs))
    PROVE  /\ layers \in Seq(Segment)
           /\ Len(segs) \in Nat
           /\ DOMAIN layers = 1..(Len(segs) + 1)
           /\ \A i \in 1..Len(segs) : layers[i] = segs[i]
           /\ layers[Len(segs) + 1].postings = postings
           /\ layers[Len(segs) + 1].docs = docs
BY SegmentType, AppendFacts

\* The layers Lookup searches: every segment at its place, the write buffer
\* behind the newest one (lines 234-249 of index.go).
LEMMA LayersNow ==
    ASSUME TypeOK
    PROVE  /\ Layers \in Seq(Segment)
           /\ Len(segments) \in Nat
           /\ DOMAIN segments = 1..Len(segments)
           /\ DOMAIN Layers = 1..(Len(segments) + 1)
           /\ \A i \in 1..Len(segments) : Layers[i] = segments[i]
           /\ Layers[Len(segments) + 1].postings = buffer
           /\ Layers[Len(segments) + 1].docs = bufferDocs
<1>1. /\ segments \in Seq(Segment) /\ buffer \in SUBSET Posting
      /\ bufferDocs \in SUBSET Docs
  BY DEF TypeOK
<1>2. DOMAIN segments = 1..Len(segments)
  BY <1>1
<1>3. Layers = Append(segments, newSegment(buffer, bufferDocs))
  BY DEF Layers
<1> QED
  BY <1>1, <1>2, <1>3, LayersShape

\* The same of the layers after a step.
LEMMA LayersNext ==
    ASSUME TypeOK'
    PROVE  /\ Layers' \in Seq(Segment)
           /\ Len(segments') \in Nat
           /\ DOMAIN segments' = 1..Len(segments')
           /\ DOMAIN Layers' = 1..(Len(segments') + 1)
           /\ \A i \in 1..Len(segments') : Layers'[i] = segments'[i]
           /\ Layers'[Len(segments') + 1].postings = buffer'
           /\ Layers'[Len(segments') + 1].docs = bufferDocs'
<1>1. /\ segments' \in Seq(Segment) /\ buffer' \in SUBSET Posting
      /\ bufferDocs' \in SUBSET Docs
  BY DEF TypeOK
<1>2. DOMAIN segments' = 1..Len(segments')
  BY <1>1
<1>3. Layers' = Append(segments', newSegment(buffer', bufferDocs'))
  BY DEF Layers
<1> QED
  BY <1>1, <1>2, <1>3, LayersShape

\* A flush pushes the postings it is given below an empty buffer.
LEMMA FlushTop ==
    ASSUME TypeOK, TypeOK', NEW postings \in SUBSET Posting,
           NEW docs \in SUBSET Docs, Flush(postings, docs)
    PROVE  TopBecomes(postings)
<1>1. /\ segments' = Append(segments, newSegment(postings, docs))
      /\ buffer' = {}
  BY DEF Flush
<1>2. /\ Len(segments') = Len(segments) + 1
      /\ \A i \in 1..Len(segments) : segments'[i] = segments[i]
      /\ segments'[Len(segments) + 1].postings = postings
  <2>1. segments \in Seq(Segment) /\ newSegment(postings, docs) \in Segment
    BY SegmentType DEF TypeOK
  <2> QED
    BY <1>1, <2>1, AppendFacts, SegmentType
<1> QED
  BY <1>1, <1>2, LayersNow, LayersNext DEF TopBecomes

\* A step that leaves the segments alone changes the buffer in place.
LEMMA BufferTop ==
    ASSUME TypeOK, TypeOK', segments' = segments
    PROVE  TopBecomes(buffer')
BY LayersNow, LayersNext DEF TopBecomes

\* Adding puts the new postings in the top layer.
LEMMA AddTop ==
    ASSUME TypeOK, TypeOK', NEW d \in Docs, NEW text \in Seq(Terms),
           AddTokens(d, text)
    PROVE  TopBecomes(BufferWithout(d) \cup
               {[term |-> t, doc |-> d, gen |-> gen[d]] : t \in TermsOf(text)})
<1> DEFINE postings == BufferWithout(d) \cup
              {[term |-> t, doc |-> d, gen |-> gen[d]] : t \in TermsOf(text)}
<1>1. postings \in SUBSET Posting /\ bufferDocs \cup {d} \in SUBSET Docs
  BY AddedType
<1>2. \/ Flush(postings, bufferDocs \cup {d})
      \/ buffer' = postings /\ UNCHANGED <<segments, mergeVars>>
  BY DEF AddTokens
<1> HIDE DEF postings
<1>3. TopBecomes(postings)
  BY <1>1, <1>2, FlushTop, BufferTop
<1> QED
  BY <1>3 DEF postings

\* A fresh posting stays the newest if the step leaves the postings of its
\* term and document in the top layer as they were.
LEMMA FreshStays ==
    ASSUME TypeOK, NEW t \in Terms, NEW d \in Docs, NEW i, Fresh(t, d, i),
           NEW postings, TopBecomes(postings), gen'[d] = gen[d],
           \A p : p.term = t /\ p.doc = d => (p \in postings <=> p \in buffer)
    PROVE  Fresh(t, d, i)'
<1> DEFINE n == Len(segments)
           q == [term |-> t, doc |-> d, gen |-> gen[d]]
<1>1. /\ n \in Nat /\ DOMAIN Layers = 1..(n + 1)
      /\ Layers[n + 1].postings = buffer
  BY LayersNow
<1>2. i \in 1..(n + 1) /\ i \in DOMAIN Layers'
  BY <1>1 DEF Fresh, TopBecomes
<1>3. q \in Layers'[i].postings
  <2>1. q \in Layers[i].postings /\ q.term = t /\ q.doc = d
    BY DEF Fresh
  <2>2. CASE i \in 1..n
    BY <2>1, <2>2 DEF TopBecomes
  <2>3. CASE i = n + 1
    BY <1>1, <2>1, <2>3 DEF TopBecomes
  <2> QED
    BY <1>1, <1>2, <2>2, <2>3
<1>4. ASSUME NEW j \in DOMAIN Layers', j > i, Has(Layers'[j], t, d)
      PROVE  FALSE
  <2>1. j \in 1..(n + 1)
    BY <1>4 DEF TopBecomes, Has
  <2>2. ~ Has(Layers[j], t, d)
    BY <1>1, <1>4, <2>1 DEF Fresh
  <2>3. CASE j \in 1..n
    BY <1>4, <2>2, <2>3 DEF TopBecomes
  <2>4. CASE j = n + 1
    BY <1>1, <1>4, <2>2, <2>4 DEF TopBecomes, Has
  <2> QED
    BY <1>1, <2>1, <2>3, <2>4
<1> QED
  BY <1>2, <1>3, <1>4 DEF Fresh

-----------------------------------------------------------------------------
(* Lookup never misses a live document.                                    *)

\* A live document has no tombstone.
LiveUnmarked == \A d \in Docs : /\ d \in live => d \notin tombstones
                                /\ current[d] # {} => d \in live

\* The newest posting of a current term is current; and it is not among the
\* segments a merge read if the merge copied a tombstone of the document.
Kept ==
    \A d \in Docs : \A t \in current[d] :
        \E i : /\ Fresh(t, d, i)
               /\ phase = "captured" /\ d \in dropped => i > Len(captured)

\* No step leaves a live document marked deleted: clearTombstone runs before
\* the tokens of Add are counted, and a merge only removes tombstones.
LEMMA LiveStep ==
    TypeOK /\ CapturedIsPrefix /\ LiveUnmarked /\ [Next]_vars => LiveUnmarked'
<1> SUFFICES ASSUME TypeOK, LiveUnmarked, [Next]_vars PROVE LiveUnmarked'
  OBVIOUS
<1>1. CASE Write
  <2> PICK d \in Docs : \/ \E text \in Seq(Terms) : AddTokens(d, text)
                        \/ Delete(d)
    BY <1>1, WriteCases
  <2>1. CASE \E text \in Seq(Terms) : AddTokens(d, text)
    BY <2>1 DEF AddTokens, LiveUnmarked, TypeOK
  <2>2. CASE Delete(d)
    BY <2>2 DEF Delete, LiveUnmarked, TypeOK
  <2> QED
    BY <2>1, <2>2
<1>2. CASE TimerFlush
  BY <1>2 DEF TimerFlush, LiveUnmarked, ghostVars
<1>3. CASE MergeStep
  BY <1>3 DEF MergeStep, MergeCapture, MergeSwap, MergeDone, LiveUnmarked,
              indexVars, ghostVars
<1>4. CASE UNCHANGED vars
  BY <1>4 DEF vars, LiveUnmarked
<1> QED
  BY <1>1, <1>2, <1>3, <1>4 DEF Next

\* Adding keeps Kept: the added terms are on top, the others where they were.
LEMMA KeptAdd ==
    ASSUME TypeOK, TypeOK', CapturedIsPrefix, LiveUnmarked, Kept,
           [Next]_vars,
           NEW d \in Docs, NEW text \in Seq(Terms), AddTokens(d, text)
    PROVE  Kept'
<1> DEFINE new == {[term |-> t, doc |-> d, gen |-> gen[d]] : t \in TermsOf(text)}
           postings == BufferWithout(d) \cup new
<1>1. TopBecomes(postings)
  BY AddTop
<1>2. /\ gen' = gen
      /\ current' = [current EXCEPT ![d] = @ \cup TermsOf(text)]
  BY DEF AddTokens
<1>3. /\ phase' = "captured" <=> phase = "captured"
      /\ captured' = captured /\ dropped' = dropped
  <2>1. \/ Flush(postings, bufferDocs \cup {d})
        \/ UNCHANGED mergeVars
    BY DEF AddTokens
  <2> QED
    BY <2>1 DEF Flush, mergeVars, TypeOK
<1>4. ASSUME NEW t \in TermsOf(text)
      PROVE  \E i : /\ Fresh(t, d, i)'
                    /\ phase = "captured" => i > Len(captured)
  <2>1. [term |-> t, doc |-> d, gen |-> gen[d]] \in postings
    OBVIOUS
  <2>2. Len(segments) \in Nat /\ Len(captured) \in Nat
    BY DEF TypeOK
  <2> HIDE DEF postings
  <2> PICK n \in Nat : n = Len(segments) + 1
    BY <2>2
  <2>3. n \in DOMAIN Layers' /\ Layers'[n].postings = postings
    BY <1>1, <2>2 DEF TopBecomes
  <2>4. \A j \in DOMAIN Layers' : j > n => ~ Has(Layers'[j], t, d)
    BY <1>1, <2>2 DEF TopBecomes, Has
  <2>5. Fresh(t, d, n)'
    BY <1>2, <2>1, <2>3, <2>4 DEF Fresh
  <2>6. phase = "captured" => n > Len(captured)
    BY <2>2 DEF CapturedIsPrefix
  <2> QED
    BY <2>5, <2>6
<1>5. ASSUME NEW e \in Docs, NEW t \in current[e],
             e # d \/ t \notin TermsOf(text)
      PROVE  \E i : /\ Fresh(t, e, i)'
                    /\ phase = "captured" /\ e \in dropped => i > Len(captured)
  <2>1. PICK i : /\ Fresh(t, e, i)
                 /\ phase = "captured" /\ e \in dropped => i > Len(captured)
    BY DEF Kept
  <2>2. t \in Terms
    BY DEF TypeOK
  <2>3. e \notin tombstones
    BY DEF LiveUnmarked
  <2>4. \A p : p.term = t /\ p.doc = e => (p \in postings <=> p \in buffer)
    <3>1. \A p \in new : p.doc = d /\ p.term \in TermsOf(text)
      OBVIOUS
    <3>2. \A p : p.doc = e => (p \in BufferWithout(d) <=> p \in buffer)
      BY <2>3 DEF BufferWithout
    <3> QED
      BY <1>5, <3>1, <3>2
  <2> HIDE DEF postings
  <2>5. gen'[e] = gen[e]
    BY <1>2
  <2>6. Fresh(t, e, i)'
    BY <1>1, <2>1, <2>2, <2>4, <2>5, FreshStays
  <2> QED
    BY <2>1, <2>6
<1> QED
  <2> SUFFICES ASSUME NEW e \in Docs, NEW t \in current'[e]
               PROVE  \E i : /\ Fresh(t, e, i)'
                             /\ phase' = "captured" /\ e \in dropped' =>
                                   i > Len(captured')
    BY DEF Kept
  <2>1. CASE e = d /\ t \in TermsOf(text)
    BY <1>3, <1>4, <2>1
  <2>2. CASE ~ (e = d /\ t \in TermsOf(text))
    <3>1. t \in current[e]
      BY <1>2, <2>2 DEF TypeOK
    <3> QED
      BY <1>3, <1>5, <2>2, <3>1
  <2> QED
    BY <2>1, <2>2

\* What the merge keeps.
LEMMA MergedMember ==
    ASSUME NEW segs, NEW deleted, NEW p
    PROVE  p \in MergedPostings(segs, deleted) <=>
           \E i \in DOMAIN segs :
              /\ p \in segs[i].postings
              /\ p.doc \notin deleted
              /\ \A j \in DOMAIN segs : j > i => ~ Has(segs[j], p.term, p.doc)
BY DEF MergedPostings

\* The swap puts the merge in the place of the layers it read and moves the
\* others down.
LEMMA SwapLayers ==
    ASSUME TypeOK, TypeOK', CapturedIsPrefix, MergeSwap,
           NEW m, m = Len(captured), NEW n, n = Len(segments)
    PROVE  /\ m \in Nat /\ n \in Nat /\ m <= n
           /\ DOMAIN captured = 1..m /\ DOMAIN Layers = 1..(n + 1)
           /\ DOMAIN Layers' = 1..(n - m + 2)
           /\ \A i \in 1..m : Layers[i] = captured[i]
           /\ Layers'[1].postings = MergedPostings(captured, dropped)
           /\ \A k \in 2..(n - m + 2) :
                 Layers'[k].postings = Layers[k + m - 1].postings
<1>1. /\ m \in Nat /\ m <= n /\ DOMAIN captured = 1..m
      /\ Len(segments') = n - m + 1
      /\ segments'[1] = Merged(captured, dropped)
      /\ \A k \in 2..(n - m + 1) : segments'[k] = segments[k + m - 1]
  BY SwapType
<1>2. /\ n \in Nat /\ DOMAIN Layers = 1..(n + 1)
      /\ \A i \in 1..n : Layers[i] = segments[i]
      /\ Layers[n + 1].postings = buffer
  BY LayersNow
<1>3. /\ DOMAIN Layers' = 1..(n - m + 2)
      /\ \A i \in 1..(n - m + 1) : Layers'[i] = segments'[i]
      /\ Layers'[n - m + 2].postings = buffer'
  <2>1. n - m + 1 + 1 = n - m + 2
    BY <1>1, <1>2
  <2> QED
    BY <1>1, <2>1, LayersNext
<1>4. buffer' = buffer
  BY DEF MergeSwap
<1>5. \A i \in 1..m : Layers[i] = captured[i]
  <2>1. phase = "captured"
    BY DEF MergeSwap
  <2>2. \A i \in 1..m : segments[i] = captured[i]
    BY <1>1, <2>1 DEF CapturedIsPrefix
  <2>3. \A i \in 1..m : i \in 1..n
    BY <1>1, <1>2
  <2> QED
    BY <1>2, <2>2, <2>3
<1>6. Layers'[1].postings = MergedPostings(captured, dropped)
  BY <1>1, <1>2, <1>3 DEF Merged, newSegment
<1>7. ASSUME NEW k \in 2..(n - m + 2)
      PROVE  Layers'[k].postings = Layers[k + m - 1].postings
  <2>1. CASE k = n - m + 2
    BY <1>1, <1>2, <1>3, <1>4, <2>1
  <2>2. CASE k \in 2..(n - m + 1)
    <3>1. m \in Nat /\ n \in Nat /\ m <= n
      BY <1>1, <1>2
    <3>2. k \in 1..(n - m + 1) /\ k + m - 1 \in 1..n
      BY <2>2, <3>1
    <3>3. Layers'[k] = segments'[k]
      BY <1>3, <3>2
    <3>4. segments'[k] = segments[k + m - 1]
      BY <1>1, <2>2
    <3>5. Layers[k + m - 1] = segments[k + m - 1]
      BY <1>2, <3>2
    <3> QED
      BY <3>3, <3>4, <3>5
  <2> QED
    BY <1>1, <1>2, <2>1, <2>2
<1> QED
  BY <1>1, <1>2, <1>3, <1>5, <1>6, <1>7

\* A fresh posting survives the swap: in the merge, which keeps the newest of
\* what it read, or above it.
LEMMA KeptSwap ==
    ASSUME TypeOK, TypeOK', CapturedIsPrefix, Kept, MergeSwap
    PROVE  Kept'
<1> PICK m, n : m = Len(captured) /\ n = Len(segments)
  OBVIOUS
<1>1. /\ m \in Nat /\ n \in Nat /\ m <= n
      /\ DOMAIN captured = 1..m /\ DOMAIN Layers = 1..(n + 1)
      /\ DOMAIN Layers' = 1..(n - m + 2)
      /\ \A i \in 1..m : Layers[i] = captured[i]
      /\ Layers'[1].postings = MergedPostings(captured, dropped)
      /\ \A k \in 2..(n - m + 2) :
            Layers'[k].postings = Layers[k + m - 1].postings
  BY SwapLayers
<1>2. /\ gen' = gen /\ current' = current /\ phase' = "swapped"
      /\ phase = "captured"
  BY DEF MergeSwap, ghostVars
<1> SUFFICES ASSUME NEW d \in Docs, NEW t \in current[d]
             PROVE  \E k : Fresh(t, d, k)'
  BY <1>2 DEF Kept
<1>3. PICK i : Fresh(t, d, i) /\ (d \in dropped => i > m)
  BY <1>2 DEF Kept
<1> DEFINE q == [term |-> t, doc |-> d, gen |-> gen[d]]
<1>4. /\ i \in 1..(n + 1) /\ q \in Layers[i].postings
      /\ \A j \in 1..(n + 1) : j > i => ~ Has(Layers[j], t, d)
  BY <1>1, <1>3 DEF Fresh
<1>5. CASE i > m
  <2> PICK k \in 2..(n - m + 2) : k + m - 1 = i
    <3>1. i - m + 1 \in 2..(n - m + 2) /\ (i - m + 1) + m - 1 = i
      BY <1>1, <1>4, <1>5
    <3> QED
      BY <3>1
  <2>1. q \in Layers'[k].postings
    BY <1>1, <1>4
  <2>2. ASSUME NEW j \in 1..(n - m + 2), j > k PROVE ~ Has(Layers'[j], t, d)
    <3>1. /\ j \in 2..(n - m + 2) /\ j + m - 1 \in 1..(n + 1)
          /\ j + m - 1 > i
      BY <1>1, <2>2
    <3> QED
      BY <1>1, <1>4, <3>1 DEF Has
  <2>3. k \in DOMAIN Layers'
    BY <1>1
  <2> QED
    BY <1>1, <1>2, <2>1, <2>2, <2>3 DEF Fresh
<1>6. CASE i <= m
  <2>1. d \notin dropped /\ i \in 1..m
    BY <1>1, <1>3, <1>4, <1>6
  <2>2. q \in MergedPostings(captured, dropped)
    <3>1. q \in captured[i].postings /\ q.doc = d /\ q.term = t
      BY <1>1, <1>4, <2>1
    <3> HIDE DEF q
    <3>2. \A j \in 1..m : j > i => ~ Has(captured[j], q.term, q.doc)
      BY <1>1, <1>4, <3>1
    <3> QED
      BY <1>1, <2>1, <3>1, <3>2, MergedMember
  <2>3. ASSUME NEW j \in 1..(n - m + 2), j > 1 PROVE ~ Has(Layers'[j], t, d)
    <3>1. /\ j \in 2..(n - m + 2) /\ j + m - 1 \in 1..(n + 1)
          /\ j + m - 1 > i
      BY <1>1, <1>6, <2>3, <1>4
    <3> QED
      BY <1>1, <1>4, <3>1 DEF Has
  <2>4. 1 \in DOMAIN Layers'
    BY <1>1
  <2> QED
    BY <1>1, <1>2, <2>2, <2>3, <2>4 DEF Fresh
<1> QED
  BY <1>1, <1>4, <1>5, <1>6

\* Each step keeps the newest posting of a current term fresh.
LEMMA KeptStep ==
    TypeOK /\ CapturedIsPrefix /\ LiveUnmarked /\ Kept /\ [Next]_vars => Kept'
<1> SUFFICES ASSUME TypeOK, CapturedIsPrefix, LiveUnmarked, Kept, [Next]_vars
             PROVE  Kept'
  OBVIOUS
<1>0. TypeOK'
  BY TypeStep
<1>1. CASE Write
  <2> PICK d \in Docs : \/ \E text \in Seq(Terms) : AddTokens(d, text)
                        \/ Delete(d)
    BY <1>1, WriteCases
  <2>1. CASE \E text \in Seq(Terms) : AddTokens(d, text)
    BY <1>0, <2>1, KeptAdd
  <2>2. CASE Delete(d)
    <3>1. /\ \A e \in Docs : e # d => gen'[e] = gen[e] /\ current'[e] = current[e]
          /\ current'[d] = {}
      BY <2>2 DEF Delete, TypeOK
    <3>2. /\ Layers' = Layers /\ captured' = captured
          /\ phase' = phase /\ dropped' = dropped
      BY <2>2 DEF Delete, Layers, mergeVars
    <3> QED
      BY <3>1, <3>2 DEF Kept, Fresh
  <2> QED
    BY <2>1, <2>2
<1>2. CASE TimerFlush
  <2>1. TopBecomes(buffer)
    BY <1>0, <1>2, FlushTop DEF TimerFlush, TypeOK
  <2>2. /\ gen' = gen /\ current' = current
        /\ phase' = "captured" <=> phase = "captured"
        /\ captured' = captured /\ dropped' = dropped
    BY <1>2 DEF TimerFlush, Flush, ghostVars, TypeOK
  <2> SUFFICES ASSUME NEW e \in Docs, NEW t \in current[e]
               PROVE  \E i : /\ Fresh(t, e, i)'
                             /\ phase = "captured" /\ e \in dropped =>
                                   i > Len(captured)
    BY <2>2 DEF Kept
  <2>3. PICK i : /\ Fresh(t, e, i)
                 /\ phase = "captured" /\ e \in dropped => i > Len(captured)
    BY DEF Kept
  <2>4. t \in Terms
    BY DEF TypeOK
  <2>5. gen'[e] = gen[e]
    BY <2>2
  <2>6. Fresh(t, e, i)'
    BY <2>1, <2>3, <2>4, <2>5, FreshStays
  <2> QED
    BY <2>3, <2>6
<1>3. CASE MergeCapture
  <2>1. /\ gen' = gen /\ current' = current /\ Layers' = Layers
        /\ dropped' = tombstones
    BY <1>3 DEF MergeCapture, indexVars, ghostVars, Layers
  <2>2. \A d \in Docs : current[d] # {} => d \notin dropped'
    BY <2>1 DEF LiveUnmarked
  <2> QED
    BY <2>1, <2>2 DEF Kept, Fresh
<1>4. CASE MergeSwap
  BY <1>0, <1>4, KeptSwap
<1>5. CASE MergeDone
  BY <1>5 DEF MergeDone, indexVars, ghostVars, Kept, Fresh, Layers
<1>6. CASE UNCHANGED vars
  BY <1>6 DEF vars, Kept, Fresh, Layers
<1> QED
  BY <1>1, <1>2, <1>3, <1>4, <1>5, <1>6 DEF Next, MergeStep

\* What Lookup answers: the unmarked documents with a posting in some layer.
LEMMA LookupNow ==
    ASSUME TypeOK, NEW t \in Terms, NEW d \in Docs
    PROVE  d \in Lookup(t) <=>
              /\ d \notin tombstones
              /\ \E i \in DOMAIN Layers : Has(Layers[i], t, d)
<1> PICK n : n = Len(segments)
  OBVIOUS
<1>1. /\ n \in Nat /\ DOMAIN segments = 1..n /\ DOMAIN Layers = 1..(n + 1)
      /\ \A i \in 1..n : Layers[i] = segments[i]
  BY LayersNow
<1>2. LookupLayers(t, d) # {} <=> \E i \in 1..(n + 1) : Has(Layers[i], t, d)
  <2> DEFINE hits == {i \in DOMAIN segments : Has(segments[i], t, d)}
  <2>1. CASE hits # {}
    BY <1>1, <2>1 DEF LookupLayers
  <2>2. CASE hits = {}
    <3>1. \A i \in 1..n : ~ Has(Layers[i], t, d)
      BY <1>1, <2>2
    <3>2. LookupLayers(t, d) = {i \in {n + 1} : Has(Layers[i], t, d)}
      BY <2>2 DEF LookupLayers
    <3> QED
      BY <1>1, <3>1, <3>2
  <2> QED
    BY <2>1, <2>2
<1> QED
  BY <1>1, <1>2 DEF Lookup

\* Lookup never misses a live document, and the newest posting of a current
\* term counts the current text: in every reachable state, for every policy,
\* with a merge at any point.
THEOREM CompletenessCorrect == Spec => [](Completeness /\ NewestIsCurrent)
<1>1. Init => LiveUnmarked /\ Kept
  BY DEF Init, LiveUnmarked, Kept
<1>2. /\ TypeOK /\ CapturedIsPrefix /\ LiveUnmarked /\ Kept
      /\ [Next]_vars
      => LiveUnmarked' /\ Kept'
  BY LiveStep, KeptStep
<1>3. TypeOK /\ LiveUnmarked /\ Kept => Completeness /\ NewestIsCurrent
  <2> SUFFICES ASSUME TypeOK, LiveUnmarked, Kept,
                      NEW d \in Docs, NEW t \in current[d]
               PROVE  d \in Lookup(t) /\ Newest(t, d)
    BY DEF Completeness, NewestIsCurrent
  <2>1. t \in Terms /\ d \notin tombstones
    BY DEF TypeOK, LiveUnmarked
  <2>2. PICK i : Fresh(t, d, i)
    BY DEF Kept
  <2>3. Newest(t, d)
    BY <2>2 DEF Newest, Fresh
  <2>4. i \in DOMAIN Layers /\ Has(Layers[i], t, d)
    BY <2>2 DEF Fresh, Has
  <2> QED
    BY <2>1, <2>3, <2>4, LookupNow
<1> QED
  BY <1>1, <1>2, <1>3, StructureCorrect, PTL DEF Spec

(* The newest layer, buffer or segment, that knows a term of a live        *)
(* document counts it by the document's current text. Merge relies on it   *)
(* when it keeps the last posting of each document                         *)
(* (index/index.go:402-414).                                               *)
THEOREM NewestCorrect == Spec => []NewestIsCurrent
  BY CompletenessCorrect, PTL

-----------------------------------------------------------------------------
(* The documents of a segment cover its postings.                          *)

Cover == /\ \A i \in DOMAIN segments : \A p \in segments[i].postings :
                p.doc \in segments[i].docs
         /\ \A p \in buffer : p.doc \in bufferDocs

\* A flush that is handed covered postings keeps the segments covered.
LEMMA CoverFlush ==
    ASSUME TypeOK, Cover, NEW postings \in SUBSET Posting,
           NEW docs \in SUBSET Docs, Flush(postings, docs),
           \A p \in postings : p.doc \in docs
    PROVE  Cover'
<1>1. segments \in Seq(Segment) /\ newSegment(postings, docs) \in Segment
  BY SegmentType DEF TypeOK
<1>2. /\ segments' = Append(segments, newSegment(postings, docs))
      /\ buffer' = {}
  BY DEF Flush
<1>3. /\ Len(segments) \in Nat /\ DOMAIN segments = 1..Len(segments)
      /\ DOMAIN segments' = 1..(Len(segments) + 1)
      /\ \A i \in 1..Len(segments) : segments'[i] = segments[i]
      /\ segments'[Len(segments) + 1].postings = postings
      /\ segments'[Len(segments) + 1].docs = docs
  BY <1>1, <1>2, AppendFacts, SegmentType
<1>4. ASSUME NEW i \in DOMAIN segments', NEW p \in segments'[i].postings
      PROVE  p \in segments'[i].postings => p.doc \in segments'[i].docs
  <2>1. CASE i \in 1..Len(segments)
    BY <1>3, <1>4, <2>1 DEF Cover
  <2>2. CASE i = Len(segments) + 1
    BY <1>3, <1>4, <2>2
  <2> QED
    BY <1>3, <2>1, <2>2
<1> QED
  BY <1>2, <1>4 DEF Cover

\* Every step keeps the document set of each layer complete, a merge by
\* collecting the documents of the postings it keeps (line 411).
LEMMA CoverStep ==
    TypeOK /\ CapturedIsPrefix /\ Cover /\ [Next]_vars => Cover'
<1> SUFFICES ASSUME TypeOK, CapturedIsPrefix, Cover, [Next]_vars PROVE Cover'
  OBVIOUS
<1>1. CASE Write
  <2> PICK d \in Docs : \/ \E text \in Seq(Terms) : AddTokens(d, text)
                        \/ Delete(d)
    BY <1>1, WriteCases
  <2>1. ASSUME NEW text \in Seq(Terms), AddTokens(d, text) PROVE Cover'
    <3> DEFINE postings == BufferWithout(d) \cup
            {[term |-> t, doc |-> d, gen |-> gen[d]] : t \in TermsOf(text)}
               docs == bufferDocs \cup {d}
    <3>1. postings \in SUBSET Posting /\ docs \in SUBSET Docs
      BY AddedType
    <3>2. \A p \in postings : p.doc \in docs
      BY DEF BufferWithout, Cover
    <3>3. \/ Flush(postings, docs)
          \/ /\ buffer' = postings /\ bufferDocs' = docs
             /\ segments' = segments
      BY <2>1 DEF AddTokens
    <3> HIDE DEF postings, docs
    <3> QED
      BY <3>1, <3>2, <3>3, CoverFlush DEF Cover
  <2>2. CASE Delete(d)
    BY <2>2 DEF Delete, Cover
  <2> QED
    BY <2>1, <2>2
<1>2. CASE TimerFlush
  BY <1>2, CoverFlush DEF TimerFlush, Cover, TypeOK
<1>3. CASE MergeSwap
  <2> PICK m, n : m = Len(captured) /\ n = Len(segments)
    OBVIOUS
  <2>1. /\ m \in Nat /\ m <= n /\ n \in Nat
        /\ segments' \in Seq(Segment) /\ Len(segments') = n - m + 1
        /\ segments'[1] = Merged(captured, dropped)
        /\ \A k \in 2..(n - m + 1) : segments'[k] = segments[k + m - 1]
    <3>1. n \in Nat
      BY LayersNow
    <3> QED
      BY <1>3, <3>1, SwapType
  <2>2. DOMAIN segments' = 1..(n - m + 1) /\ DOMAIN segments = 1..n
    BY <2>1 DEF TypeOK
  <2>3. \A p \in segments'[1].postings : p.doc \in segments'[1].docs
    BY <2>1 DEF Merged, newSegment
  <2>4. \A k \in 2..(n - m + 1) : k + m - 1 \in 1..n
    BY <2>1
  <2>5. \A k \in 2..(n - m + 1) : \A p \in segments'[k].postings :
           p.doc \in segments'[k].docs
    BY <2>1, <2>2, <2>4 DEF Cover
  <2>6. \A k \in 1..(n - m + 1) : k = 1 \/ k \in 2..(n - m + 1)
    BY <2>1
  <2>7. buffer' = buffer /\ bufferDocs' = bufferDocs
    BY <1>3 DEF MergeSwap
  <2> QED
    BY <2>2, <2>3, <2>5, <2>6, <2>7 DEF Cover
<1>4. CASE MergeCapture \/ MergeDone
  BY <1>4 DEF MergeCapture, MergeDone, indexVars, Cover
<1>5. CASE UNCHANGED vars
  BY <1>5 DEF vars, Cover
<1> QED
  BY <1>1, <1>2, <1>3, <1>4, <1>5 DEF Next, MergeStep

\* Every layer's document set covers its postings, so clearing a tombstone
\* never skips a buffer that holds old postings of the document.
THEOREM CoverCorrect == Spec => []DocsCoverPostings
<1>1. Init => Cover
  BY DEF Init, Cover
<1>2. TypeOK /\ Cover => DocsCoverPostings
  <2> SUFFICES ASSUME TypeOK, Cover,
                      NEW i \in DOMAIN Layers, NEW p \in Layers[i].postings
               PROVE  p.doc \in Layers[i].docs
    BY DEF DocsCoverPostings
  <2>1. CASE i = Len(segments) + 1
    BY <2>1, LayersNow DEF Cover
  <2>2. CASE i \in 1..Len(segments)
    BY <2>2, LayersNow DEF Cover
  <2> QED
    BY <2>1, <2>2, LayersNow
<1> QED
  BY <1>1, <1>2, CoverStep, StructureCorrect, PTL DEF Spec

-----------------------------------------------------------------------------
(* A merge answers as the segments it read.                                *)

\* Every term and document with a posting in these segments has a last one.
\* (True of any finite list; as an invariant it needs no induction over it.)
Resolved(segs) ==
    \A t \in Terms : \A d \in Docs : \A i \in DOMAIN segs : Has(segs[i], t, d) =>
        \E l \in DOMAIN segs : /\ Has(segs[l], t, d)
                               /\ \A j \in DOMAIN segs : j > l => ~ Has(segs[j], t, d)

\* A new last segment is the last one for what it holds.
LEMMA ResolvedAppend ==
    ASSUME NEW segs \in Seq(Segment), NEW s \in Segment, Resolved(segs),
           NEW new, new = Append(segs, s)
    PROVE  Resolved(new)
<1> PICK n \in Nat : n = Len(segs)
  OBVIOUS
<1>1. /\ DOMAIN segs = 1..n /\ DOMAIN new = 1..(n + 1)
      /\ \A i \in 1..n : new[i] = segs[i]
      /\ new[n + 1] = s
  BY AppendFacts
<1> SUFFICES ASSUME NEW t \in Terms, NEW d \in Docs, NEW i \in 1..(n + 1),
                    Has(new[i], t, d)
             PROVE  \E l \in 1..(n + 1) :
                       /\ Has(new[l], t, d)
                       /\ \A j \in 1..(n + 1) : j > l => ~ Has(new[j], t, d)
  BY <1>1 DEF Resolved
<1>2. CASE Has(new[n + 1], t, d)
  <2>1. n + 1 \in 1..(n + 1) /\ \A j \in 1..(n + 1) : ~ (j > n + 1)
    OBVIOUS
  <2> QED
    BY <1>2, <2>1
<1>3. CASE ~ Has(new[n + 1], t, d)
  <2>1. i \in 1..n
    BY <1>3
  <2>2. PICK l \in 1..n : /\ Has(segs[l], t, d)
                          /\ \A j \in 1..n : j > l => ~ Has(segs[j], t, d)
    BY <1>1, <2>1 DEF Resolved
  <2>3. \A j \in 1..(n + 1) : j \in 1..n \/ j = n + 1
    OBVIOUS
  <2> QED
    BY <1>1, <1>3, <2>2, <2>3
<1> QED
  BY <1>2, <1>3

\* The segments after a swap: the last posting is above the merge, or in it.
LEMMA ResolvedSwap ==
    ASSUME TypeOK, CapturedIsPrefix, MergeSwap, Resolved(segments)
    PROVE  Resolved(segments')
<1> PICK m, n : m = Len(captured) /\ n = Len(segments)
  OBVIOUS
<1>1. n \in Nat /\ DOMAIN segments = 1..n
  BY LayersNow
<1>2. /\ m \in Nat /\ m <= n
      /\ segments' \in Seq(Segment) /\ Len(segments') = n - m + 1
      /\ \A k \in 2..(n - m + 1) : segments'[k] = segments[k + m - 1]
  BY <1>1, SwapType
<1>3. DOMAIN segments' = 1..(n - m + 1)
  BY <1>2
<1>ints. m \in Nat /\ n \in Nat /\ m <= n
  BY <1>1, <1>2
<1> SUFFICES ASSUME NEW t \in Terms, NEW d \in Docs, NEW i \in 1..(n - m + 1),
                    Has(segments'[i], t, d)
             PROVE  \E l \in 1..(n - m + 1) :
                       /\ Has(segments'[l], t, d)
                       /\ \A j \in 1..(n - m + 1) :
                             j > l => ~ Has(segments'[j], t, d)
  BY <1>3 DEF Resolved
<1>4. CASE \E k \in 2..(n - m + 1) : Has(segments'[k], t, d)
  <2> PICK k \in 2..(n - m + 1) : Has(segments'[k], t, d)
    BY <1>4
  <2>1. PICK g \in 1..n : g = k + m - 1 /\ Has(segments[g], t, d)
    <3>1. k + m - 1 \in 1..n /\ Has(segments[k + m - 1], t, d)
      BY <1>1, <1>2
    <3> QED
      BY <3>1
  <2>2. PICK l \in 1..n : /\ Has(segments[l], t, d)
                          /\ \A j \in 1..n : j > l => ~ Has(segments[j], t, d)
    BY <1>1, <2>1 DEF Resolved
  <2>3. l >= k + m - 1
    <3>1. ~ (g > l)
      BY <2>1, <2>2
    <3> QED
      BY <1>ints, <2>1, <3>1
  <2> PICK h \in 2..(n - m + 1) : h + m - 1 = l
    <3>1. l - m + 1 \in 2..(n - m + 1) /\ (l - m + 1) + m - 1 = l
      BY <1>ints, <2>3
    <3> QED
      BY <3>1
  <2>4. Has(segments'[h], t, d)
    BY <1>2, <2>2
  <2>5. ASSUME NEW j \in 1..(n - m + 1), j > h PROVE ~ Has(segments'[j], t, d)
    <3>1. j \in 2..(n - m + 1) /\ j + m - 1 \in 1..n /\ j + m - 1 > l
      BY <1>ints, <2>5
    <3> QED
      BY <1>2, <2>2, <3>1
  <2>6. h \in 1..(n - m + 1)
    BY <1>ints
  <2> QED
    BY <2>4, <2>5, <2>6
<1>5. CASE \A k \in 2..(n - m + 1) : ~ Has(segments'[k], t, d)
  <2>1. i = 1 /\ \A j \in 1..(n - m + 1) : j > 1 => j \in 2..(n - m + 1)
    BY <1>1, <1>2, <1>5
  <2> QED
    BY <1>5, <2>1
<1> QED
  BY <1>4, <1>5

\* Every step keeps, for each term and document some segment knows, the
\* existence of the last such segment: a flush adds a newer one, and the merge
\* puts the last one it read in front of those flushed since.
LEMMA ResolvedStep ==
    /\ TypeOK /\ CapturedIsPrefix /\ Resolved(segments) /\ Resolved(captured)
    /\ [Next]_vars
    => Resolved(segments') /\ Resolved(captured')
<1> SUFFICES ASSUME TypeOK, CapturedIsPrefix, Resolved(segments),
                    Resolved(captured), [Next]_vars
             PROVE  Resolved(segments') /\ Resolved(captured')
  OBVIOUS
<1>1. CASE MergeSwap
  <2>1. captured' = <<>>
    BY <1>1 DEF MergeSwap
  <2>2. Resolved(captured')
    BY <2>1 DEF Resolved
  <2> QED
    BY <1>1, <2>2, ResolvedSwap
<1>2. CASE MergeCapture
  BY <1>2 DEF MergeCapture, indexVars
<1>3. CASE ~ MergeSwap /\ ~ MergeCapture
  <2>1. /\ captured' = captured
        /\ \/ segments' = segments
           \/ \E s \in Segment : segments' = Append(segments, s)
    BY <1>3, SegmentsGrow
  <2>2. segments \in Seq(Segment)
    BY DEF TypeOK
  <2> QED
    BY <2>1, <2>2, ResolvedAppend
<1> QED
  BY <1>1, <1>2, <1>3

\* Across a swap, a document whose tombstone the merge did not copy has a
\* posting in some layer exactly if it had one.
LEMMA SwapKeepsPostings ==
    ASSUME TypeOK, TypeOK', CapturedIsPrefix, Resolved(captured), MergeSwap,
           NEW t \in Terms, NEW d \in Docs \ dropped
    PROVE  (\E k \in DOMAIN Layers' : Has(Layers'[k], t, d))
              <=> (\E i \in DOMAIN Layers : Has(Layers[i], t, d))
<1> PICK m, n : m = Len(captured) /\ n = Len(segments)
  OBVIOUS
<1>1. /\ m \in Nat /\ n \in Nat /\ m <= n
      /\ DOMAIN captured = 1..m /\ DOMAIN Layers = 1..(n + 1)
      /\ DOMAIN Layers' = 1..(n - m + 2)
      /\ \A i \in 1..m : Layers[i] = captured[i]
      /\ Layers'[1].postings = MergedPostings(captured, dropped)
      /\ \A k \in 2..(n - m + 2) :
            Layers'[k].postings = Layers[k + m - 1].postings
  BY SwapLayers
<1>2. ASSUME NEW k \in 1..(n - m + 2), Has(Layers'[k], t, d)
      PROVE  \E i \in 1..(n + 1) : Has(Layers[i], t, d)
  <2>1. CASE k = 1
    <3> PICK p \in MergedPostings(captured, dropped) : p.term = t /\ p.doc = d
      BY <1>1, <1>2, <2>1 DEF Has
    <3> PICK i \in 1..m : p \in captured[i].postings
      BY <1>1, MergedMember
    <3> QED
      BY <1>1 DEF Has
  <2>2. CASE k \in 2..(n - m + 2)
    <3>1. k + m - 1 \in 1..(n + 1)
      BY <1>1, <2>2
    <3> QED
      BY <1>1, <1>2, <2>2, <3>1 DEF Has
  <2> QED
    BY <1>1, <2>1, <2>2
<1>3. ASSUME NEW i \in 1..(n + 1), Has(Layers[i], t, d)
      PROVE  \E k \in 1..(n - m + 2) : Has(Layers'[k], t, d)
  <2>1. CASE i > m
    <3> PICK k \in 2..(n - m + 2) : k + m - 1 = i
      <4>1. i - m + 1 \in 2..(n - m + 2) /\ (i - m + 1) + m - 1 = i
        BY <1>1, <2>1
      <4> QED
        BY <4>1
    <3>1. Layers'[k].postings = Layers[i].postings
      BY <1>1
    <3>2. Has(Layers'[k], t, d)
      BY <1>3, <3>1 DEF Has
    <3>3. k \in 1..(n - m + 2)
      BY <1>1
    <3> QED
      BY <3>2, <3>3
  <2>2. CASE i \in 1..m
    <3>1. PICK l \in 1..m : /\ Has(captured[l], t, d)
                            /\ \A j \in 1..m : j > l => ~ Has(captured[j], t, d)
      BY <1>1, <1>3, <2>2 DEF Resolved
    <3>2. PICK p \in captured[l].postings : p.term = t /\ p.doc = d
      BY <3>1 DEF Has
    <3>3. \A j \in 1..m : j > l => ~ Has(captured[j], p.term, p.doc)
      BY <3>1, <3>2
    <3>4. p \in MergedPostings(captured, dropped)
      <4>1. l \in DOMAIN captured /\ p \in captured[l].postings
        BY <1>1, <3>2
      <4>2. p.doc \notin dropped
        BY <3>2
      <4>3. \A j \in DOMAIN captured :
               j > l => ~ Has(captured[j], p.term, p.doc)
        BY <1>1, <3>3
      <4> QED
        BY <4>1, <4>2, <4>3, MergedMember
    <3>5. 1 \in 1..(n - m + 2)
      BY <1>1
    <3> QED
      BY <1>1, <3>2, <3>4, <3>5 DEF Has
  <2> QED
    BY <1>1, <2>1, <2>2
<1> QED
  BY <1>1, <1>2, <1>3

\* Document d is unmarked and some layer has a posting of t for it.
Found(t, d) == /\ d \notin tombstones
               /\ \E i \in DOMAIN Layers : Has(Layers[i], t, d)

LookupIsFound ==
    TypeOK => \A t \in Terms : \A d \in Docs : d \in Lookup(t) <=> Found(t, d)

\* Lookup means Found before and after a step.
LEMMA LookupIff == LookupIsFound /\ LookupIsFound'
<1>1. LookupIsFound
  BY LookupNow DEF LookupIsFound, Found
<1>2. LookupIsFound'
  BY <1>1, PTL
<1> QED
  BY <1>1, <1>2

\* The swap is the only step from "captured" to "swapped".
LEMMA SwapsIsMergeSwap ==
    ASSUME TypeOK, [Next]_vars, Swaps
    PROVE  MergeSwap
<1>1. ~ MergeCapture
  BY DEF MergeCapture, Swaps
<1>2. ~ MergeSwap => (phase' = "captured" <=> phase = "captured")
  BY <1>1, SegmentsGrow
<1> QED
  BY <1>2 DEF Swaps

\* What the swap does to the answers.
LEMMA SwapAnswers ==
    ASSUME TypeOK, TypeOK', CapturedIsPrefix, Resolved(captured), MergeSwap,
           NEW t \in Terms
    PROVE  Lookup(t)' \ dropped = Lookup(t) \ dropped
<1>1. tombstones' = tombstones \ dropped
  BY DEF MergeSwap
<1>2. \A d \in Docs \ dropped : d \in Lookup(t)' <=> d \in Lookup(t)
  <2> TAKE d \in Docs \ dropped
  <2>1. Found(t, d)' <=> Found(t, d)
    BY <1>1, SwapKeepsPostings DEF Found
  <2> QED
    BY <2>1, LookupIff DEF LookupIsFound
<1>3. Lookup(t) \subseteq Docs /\ Lookup(t)' \subseteq Docs
  BY DEF Lookup
<1> QED
  BY <1>2, <1>3

\* Replacing the segments by their merge changes no answer about a document
\* whose tombstone the merge did not copy.
THEOREM MergeKeepsAnswersCorrect == Spec => MergeKeepsAnswers
<1>1. Init => Resolved(segments) /\ Resolved(captured)
  BY DEF Init, Resolved
<1> DEFINE R == Resolved(segments) /\ Resolved(captured)
<1>2. TypeOK /\ CapturedIsPrefix /\ R /\ [Next]_vars => R'
  BY ResolvedStep
<1>3. /\ TypeOK /\ TypeOK' /\ CapturedIsPrefix /\ R /\ [Next]_vars
      => [Swaps => \A t \in Terms : Lookup(t)' \ dropped = Lookup(t) \ dropped]_vars
  BY SwapsIsMergeSwap, SwapAnswers
<1> HIDE DEF R
<1>4. Init => R
  BY <1>1 DEF R
<1> QED
  BY <1>2, <1>3, <1>4, StructureCorrect, PTL DEF Spec, MergeKeepsAnswers

-----------------------------------------------------------------------------
(* What can show a deleted document again.                                 *)

\* A step that changes only the top, and puts no new posting of d there,
\* gives d no posting.
LEMMA NothingNew ==
    ASSUME TypeOK, NEW postings, TopBecomes(postings), NEW t, NEW d,
           \A p \in postings : p.doc = d => p \in buffer,
           NEW k \in DOMAIN Layers', Has(Layers'[k], t, d)
    PROVE  \E i \in DOMAIN Layers : Has(Layers[i], t, d)
<1> PICK n : n = Len(segments)
  OBVIOUS
<1>1. /\ n \in Nat /\ DOMAIN Layers = 1..(n + 1)
      /\ Layers[n + 1].postings = buffer
  BY LayersNow
<1>2. \/ k \in 1..n \/ k = n + 1 \/ Layers'[k].postings = {}
  BY <1>1 DEF TopBecomes
<1>3. CASE k \in 1..n
  BY <1>1, <1>3 DEF TopBecomes
<1>4. CASE k = n + 1
  <2>1. Layers'[k].postings = postings
    BY <1>4 DEF TopBecomes
  <2>2. PICK p \in postings : p.term = t /\ p.doc = d
    BY <2>1 DEF Has
  <2>3. p \in Layers[n + 1].postings /\ n + 1 \in DOMAIN Layers
    BY <1>1, <2>2
  <2> QED
    BY <2>2, <2>3 DEF Has
<1>5. CASE Layers'[k].postings = {}
  BY <1>5 DEF Has
<1> QED
  BY <1>2, <1>3, <1>4, <1>5

\* Steps other than the swap hide or keep hidden what is deleted.
LEMMA OthersHide ==
    ASSUME TypeOK, TypeOK', [Next]_vars, ~ MergeSwap,
           NEW t \in Terms, NEW d \in Docs \ live, d \notin live', Found(t, d)'
    PROVE  Found(t, d)
<1>1. CASE Write
  <2> PICK e \in Docs : \/ \E text \in Seq(Terms) : AddTokens(e, text)
                        \/ Delete(e)
    BY <1>1, WriteCases
  <2>1. ASSUME NEW text \in Seq(Terms), AddTokens(e, text) PROVE Found(t, d)
    <3> DEFINE postings == BufferWithout(e) \cup
            {[term |-> s, doc |-> e, gen |-> gen[e]] : s \in TermsOf(text)}
    <3>1. e # d /\ tombstones' = tombstones \ {e}
      BY <2>1 DEF AddTokens
    <3>2. TopBecomes(postings)
      BY <2>1, AddTop
    <3>3. \A p \in postings : p.doc = d => p \in buffer
      BY <3>1 DEF BufferWithout
    <3> HIDE DEF postings
    <3> QED
      BY <3>1, <3>2, <3>3, NothingNew DEF Found
  <2>2. CASE Delete(e)
    BY <2>2 DEF Delete, Found, Layers
  <2> QED
    BY <2>1, <2>2
<1>2. CASE TimerFlush
  <2>1. TopBecomes(buffer)
    BY <1>2, FlushTop DEF TimerFlush, TypeOK
  <2>2. tombstones' = tombstones
    BY <1>2 DEF TimerFlush
  <2> QED
    BY <2>1, <2>2, NothingNew DEF Found
<1>3. CASE MergeCapture \/ MergeDone
  BY <1>3 DEF MergeCapture, MergeDone, indexVars, Found, Layers
<1>4. CASE UNCHANGED vars
  BY <1>4 DEF vars, Found, Layers
<1> QED
  BY <1>1, <1>2, <1>3, <1>4 DEF Next, MergeStep

\* The swap shows a document only if it drops the tombstone and the document
\* has a posting the merge never read.
LEMMA SwapUnhides ==
    ASSUME TypeOK, TypeOK', CapturedIsPrefix, Resolved(captured), MergeSwap,
           NEW t \in Terms, NEW d \in Docs, Found(t, d)', ~ Found(t, d)
    PROVE  d \in dropped /\ Uncaptured(t, d)
<1> PICK m, n : m = Len(captured) /\ n = Len(segments)
  OBVIOUS
<1>1. /\ m \in Nat /\ n \in Nat /\ m <= n
      /\ DOMAIN captured = 1..m /\ DOMAIN Layers = 1..(n + 1)
      /\ DOMAIN Layers' = 1..(n - m + 2)
      /\ Layers'[1].postings = MergedPostings(captured, dropped)
      /\ \A k \in 2..(n - m + 2) :
            Layers'[k].postings = Layers[k + m - 1].postings
  BY SwapLayers
<1>2. tombstones' = tombstones \ dropped
  BY DEF MergeSwap
<1>3. d \in dropped
  <2> SUFFICES ASSUME d \notin dropped PROVE FALSE
    OBVIOUS
  <2> QED
    BY <1>2, SwapKeepsPostings DEF Found
<1>4. PICK k \in 1..(n - m + 2) : Has(Layers'[k], t, d)
  BY <1>1 DEF Found
<1>5. k # 1
  BY <1>1, <1>3, <1>4, MergedMember DEF Has
<1>6. k + m - 1 \in 1..(n + 1) /\ k + m - 1 > m /\ k \in 2..(n - m + 2)
  BY <1>1, <1>4, <1>5
<1>7. Has(Layers[k + m - 1], t, d)
  BY <1>1, <1>4, <1>6 DEF Has
<1> QED
  BY <1>1, <1>3, <1>6, <1>7 DEF Uncaptured

\* A deleted document stays hidden until it is added again, or a merge drops
\* its tombstone although it never read some of its postings.
THEOREM OnlyMergeUnhidesCorrect == Spec => OnlyMergeUnhides
<1> DEFINE R == Resolved(segments) /\ Resolved(captured)
           A == \A d \in Docs : d \notin live /\ d \notin live' =>
                    \A t \in Terms : d \in Lookup(t)' \ Lookup(t) =>
                        Swaps /\ d \in dropped /\ Uncaptured(t, d)
<1>1. Init => R
  BY DEF Init, Resolved
<1>2. TypeOK /\ CapturedIsPrefix /\ R /\ [Next]_vars => R'
  BY ResolvedStep
<1>3. TypeOK /\ TypeOK' /\ CapturedIsPrefix /\ R /\ [Next]_vars => A
  <2> SUFFICES ASSUME TypeOK, TypeOK', CapturedIsPrefix, R, [Next]_vars,
                      NEW d \in Docs, d \notin live, d \notin live',
                      NEW t \in Terms, d \in Lookup(t)' \ Lookup(t)
               PROVE  Swaps /\ d \in dropped /\ Uncaptured(t, d)
    OBVIOUS
  <2>1. Found(t, d)' /\ ~ Found(t, d)
    BY LookupIff DEF LookupIsFound
  <2>2. MergeSwap
    BY <2>1, OthersHide
  <2>3. Swaps
    BY <2>2 DEF MergeSwap, Swaps
  <2> QED
    BY <2>1, <2>2, <2>3, SwapUnhides
<1>4. TypeOK /\ TypeOK' /\ CapturedIsPrefix /\ R /\ [Next]_vars => [A]_vars
  BY <1>3
<1>5. [][A]_vars <=> OnlyMergeUnhides
  BY PTL DEF OnlyMergeUnhides
<1> HIDE DEF R, A
<1> QED
  BY <1>1, <1>2, <1>4, <1>5, StructureCorrect, PTL DEF Spec
=============================================================================
