---------------------------- MODULE SearchProofs ----------------------------
(***************************************************************************)
(* Proofs about what a query finds, for every set of documents, fields,    *)
(* words, synonyms and queries, and every bound.                           *)
(*                                                                         *)
(* The argument.  What a search sees of a document are postings that some  *)
(* layer of the index has of it.  A layer that is flushed or merged passes *)
(* its postings on (Carried), so two facts about them are inductive: one   *)
(* of a stored document has a posting of each word of its text (Kept), and *)
(* one written once has no others (Own).  The rest is about Match and the  *)
(* expansion alone, for whatever a search sees.                            *)
(***************************************************************************)
EXTENDS Search, SequenceFacts, TLAPS

-----------------------------------------------------------------------------
(* The index.                                                              *)

Layer == [Docs -> [Terms -> SUBSET Nat]]

Types ==
    /\ text \in [Docs -> Contents \cup {NoDoc}]
    /\ buffer \in Layer /\ segments \in Seq(Layer)
    /\ hidden \subseteq Docs /\ trie \subseteq Terms
    /\ writes \in [Docs -> Nat] /\ recent \subseteq Docs

\* The postings of a term in a document, of all layers.
Postings(d, t) == {segments[i][d][t] : i \in DOMAIN segments} \cup {buffer[d][t]}

\* A document that was never written has none.
Untouched(d) ==
    writes[d] = 0 => text[d] = NoDoc /\ d \notin hidden /\ \A t \in Terms : Postings(d, t) \subseteq {{}}

\* One written once has those of its text.
Own(d) ==
    text[d] # NoDoc /\ writes[d] = 1 =>
        \A t \in Terms : Postings(d, t) \subseteq {{}, PostingsOf(text[d])[t]}

\* A stored document is not hidden, and each word of its text has a posting.
Kept(d) ==
    text[d] # NoDoc =>
        /\ d \notin hidden
        /\ \A t \in Terms : PostingsOf(text[d])[t] # {} => \E p \in Postings(d, t) : p # {}

\* One that was indexed since the start has the words of its text in the trie.
Indexed(d) ==
    d \in recent => text[d] # NoDoc /\ \A t \in Terms : PostingsOf(text[d])[t] # {} => t \in trie

IInv ==
    /\ Types
    /\ \A d \in Docs : Untouched(d) /\ Own(d) /\ Kept(d) /\ Indexed(d)

\* The postings of a document have a position for each occurrence of a word.
LEMMA PostingsOfFacts ==
    ASSUME NEW doc \in Contents
    PROVE  /\ PostingsOf(doc) \in [Terms -> SUBSET Nat]
           /\ \A f \in Fields, w \in Words :
                 PostingsOf(doc)[<<f, w>>] = {i \in DOMAIN doc[f] : doc[f][i] = w}
<1>1. \A f \in Fields : doc[f] \in Seq(Words)
  BY ContentsAssumption
<1>2. \A t \in Terms : t[1] \in Fields /\ t[2] \in Words
  BY DEF Terms
<1>3. \A f \in Fields : DOMAIN doc[f] \subseteq Nat
  BY <1>1, LenProperties
<1>4. \A t \in Terms : {i \in DOMAIN doc[t[1]] : doc[t[1]][i] = t[2]} \in SUBSET Nat
  BY <1>2, <1>3
<1>5. \A f \in Fields, w \in Words : <<f, w>> \in Terms /\ <<f, w>>[1] = f /\ <<f, w>>[2] = w
  BY DEF Terms
<1> QED
  BY <1>4, <1>5 DEF PostingsOf

\* A call counts as one write of its document.
LEMMA WriteFacts ==
    ASSUME NEW d \in Docs, Write(d)
    PROVE  writes' = [writes EXCEPT ![d] = @ + 1]
BY DEF Write

\* The merge keeps a posting of the segments, and one that is not empty if
\* there is one of a document that is not hidden.
LEMMA MergedFacts ==
    ASSUME Types, NEW d \in Docs, NEW t \in Terms
    PROVE  /\ Merged(d, t) \in SUBSET Nat
           /\ Merged(d, t) = {} \/ \E i \in DOMAIN segments : Merged(d, t) = segments[i][d][t]
           /\ d \notin hidden /\ (\E i \in DOMAIN segments : segments[i][d][t] # {})
                 => Merged(d, t) # {}
<1> DEFINE holds == {i \in DOMAIN segments : segments[i][d][t] # {}}
<1>1. PICK n \in Nat : n = Len(segments) /\ DOMAIN segments = 1..n
  BY LenProperties DEF Types
<1>2. \A i \in 1..n : segments[i][d][t] \in SUBSET Nat
  BY <1>1, ElementOfSeq DEF Types, Layer
<1>3. holds \in SUBSET (1..n)
  BY <1>1
<1>4. Merged(d, t) = IF d \in hidden \/ holds = {} THEN {} ELSE segments[Max(holds)][d][t]
  BY DEF Merged
<1>5. holds # {} => Max(holds) \in 1..n /\ segments[Max(holds)][d][t] # {}
  <2>1. holds # {} => Max(holds) \in holds
    <3> HIDE DEF holds
    <3> QED
      BY <1>3, MaxFacts
  <2> QED
    BY <1>1, <2>1
<1>6. (\E i \in DOMAIN segments : segments[i][d][t] # {}) => holds # {}
  OBVIOUS
<1> HIDE DEF holds
<1> QED
  BY <1>1, <1>2, <1>4, <1>5, <1>6

\* A step passes on what the layers have of a document, unless it is hidden.
Carried(d) ==
    \A t \in Terms :
        /\ Postings(d, t)' \subseteq Postings(d, t) \cup {{}}
        /\ d \notin hidden /\ (\E p \in Postings(d, t) : p # {})
              => \E p \in Postings(d, t)' : p # {}

\* The empty buffer has no posting.
LEMMA EmptyFacts ==
    /\ Empty \in Layer /\ Nothing \in [Terms -> SUBSET Nat]
    /\ \A d \in Docs, t \in Terms : Empty[d][t] = {} /\ Nothing[t] = {}
<1>1. Nothing \in [Terms -> SUBSET Nat] /\ \A t \in Terms : Nothing[t] = {}
  BY DEF Nothing
<1> QED
  BY <1>1 DEF Empty, Layer

\* The segments have a layer more.
Pushed(L) ==
    /\ segments' \in Seq(Layer)
    /\ \A d \in Docs, t \in Terms :
          {segments'[i][d][t] : i \in DOMAIN segments'} =
              {segments[i][d][t] : i \in DOMAIN segments} \cup {L[d][t]}

\* Appending the layer does that.
LEMMA PushFacts ==
    ASSUME Types, NEW L \in Layer, segments' = Append(segments, L)
    PROVE  Pushed(L)
<1>1. PICK n \in Nat : n = Len(segments) /\ DOMAIN segments = 1..n
  BY LenProperties DEF Types
<1>2. /\ segments' \in Seq(Layer)
      /\ DOMAIN segments' = 1..(n + 1)
      /\ \A i \in 1..n : segments'[i] = segments[i]
      /\ segments'[n + 1] = L
  BY <1>1, AppendFacts DEF Types
<1>3. ASSUME NEW d \in Docs, NEW t \in Terms
      PROVE  {segments'[i][d][t] : i \in DOMAIN segments'} =
                 {segments[i][d][t] : i \in DOMAIN segments} \cup {L[d][t]}
  <2>1. ASSUME NEW i \in DOMAIN segments'
        PROVE  segments'[i][d][t] \in {segments[j][d][t] : j \in DOMAIN segments} \cup {L[d][t]}
    <3>1. i \in 1..n \/ i = n + 1
      BY <1>2
    <3> QED
      BY <1>1, <1>2, <3>1
  <2>2. ASSUME NEW i \in DOMAIN segments
        PROVE  segments[i][d][t] \in {segments'[j][d][t] : j \in DOMAIN segments'}
    <3>1. i \in DOMAIN segments' /\ segments'[i] = segments[i]
      BY <1>1, <1>2
    <3> QED
      BY <3>1
  <2>3. L[d][t] \in {segments'[j][d][t] : j \in DOMAIN segments'}
    <3>1. n + 1 \in DOMAIN segments'
      BY <1>2
    <3> QED
      BY <1>2, <3>1
  <2> QED
    BY <2>1, <2>2, <2>3
<1> QED
  BY <1>2, <1>3 DEF Pushed

\* Flush, also that of Save, carries everything.
LEMMA FlushCarries ==
    ASSUME Types,
           \/ segments' = Append(segments, buffer) /\ buffer' = Empty
           \/ UNCHANGED <<segments, buffer>>
    PROVE  /\ segments' \in Seq(Layer) /\ buffer' \in Layer
           /\ \A d \in Docs : Carried(d)
<1>1. CASE segments' = Append(segments, buffer) /\ buffer' = Empty
  <2>0. Pushed(buffer)
    <3>1. buffer \in Layer
      BY DEF Types
    <3> QED
      BY <1>1, <3>1, PushFacts
  <2>1. segments' \in Seq(Layer) /\ buffer' \in Layer
    BY <1>1, <2>0, EmptyFacts DEF Pushed
  <2>2. ASSUME NEW d \in Docs, NEW t \in Terms
        PROVE  Postings(d, t)' = Postings(d, t) \cup {{}}
    <3>1. {segments'[i][d][t] : i \in DOMAIN segments'} =
              {segments[i][d][t] : i \in DOMAIN segments} \cup {buffer[d][t]}
      BY <2>0 DEF Pushed
    <3>2. buffer'[d][t] = {}
      BY <1>1, EmptyFacts
    <3> QED
      BY <3>1, <3>2 DEF Postings
  <2>3. ASSUME NEW d \in Docs
        PROVE  Carried(d)
    BY <2>2 DEF Carried
  <2> QED
    BY <2>1, <2>3
<1>2. CASE UNCHANGED <<segments, buffer>>
  BY <1>2 DEF Types, Carried, Postings
<1> QED
  BY <1>1, <1>2

\* A merge carries what is not hidden.
LEMMA MergeCarries ==
    ASSUME Types, Merge
    PROVE  /\ segments' \in Seq(Layer) /\ buffer' \in Layer
           /\ \A d \in Docs : Carried(d)
<1> DEFINE M == [d \in Docs |-> [t \in Terms |-> Merged(d, t)]]
<1>1. segments' = <<M>> /\ buffer' = buffer
  BY DEF Merge
<1>2. M \in Layer /\ \A d \in Docs, t \in Terms : M[d][t] = Merged(d, t)
  BY MergedFacts DEF Layer
<1> HIDE DEF M
<1>3. segments' \in Seq(Layer) /\ DOMAIN segments' = {1} /\ segments'[1] = M
  BY <1>1, <1>2
<1>4. ASSUME NEW d \in Docs, NEW t \in Terms
      PROVE  Postings(d, t)' = {Merged(d, t), buffer[d][t]}
  BY <1>1, <1>2, <1>3 DEF Postings
<1>5. ASSUME NEW d \in Docs
      PROVE  Carried(d)
  <2> SUFFICES ASSUME NEW t \in Terms
               PROVE  /\ Postings(d, t)' \subseteq Postings(d, t) \cup {{}}
                      /\ d \notin hidden /\ (\E p \in Postings(d, t) : p # {})
                            => \E p \in Postings(d, t)' : p # {}
    BY DEF Carried
  <2>1. Merged(d, t) \in Postings(d, t) \cup {{}} /\ buffer[d][t] \in Postings(d, t)
    BY MergedFacts DEF Postings
  <2>2. ASSUME d \notin hidden, NEW p \in Postings(d, t), p # {}
        PROVE  \E q \in Postings(d, t)' : q # {}
    <3>1. p = buffer[d][t] \/ \E i \in DOMAIN segments : p = segments[i][d][t]
      BY DEF Postings
    <3>2. CASE p = buffer[d][t]
      BY <1>4, <2>2, <3>2
    <3>3. CASE \E i \in DOMAIN segments : p = segments[i][d][t]
      <4>1. Merged(d, t) # {}
        BY <2>2, <3>3, MergedFacts
      <4> QED
        BY <1>4, <4>1
    <3> QED
      BY <3>1, <3>2, <3>3
  <2> QED
    BY <1>4, <2>1, <2>2
<1> QED
  BY <1>1, <1>3, <1>5 DEF Types

\* Index gives its document the postings of the new text, some of them perhaps
\* in a segment of their own, and carries those of the others.
LEMMA IndexFacts ==
    ASSUME Types, NEW d \in Docs, NEW doc \in Contents,
           NEW early \in SUBSET Fields, Index(d, doc, early)
    PROVE  /\ segments' \in Seq(Layer) /\ buffer' \in Layer
           /\ \A e \in Docs \ {d} : Carried(e)
           /\ \A t \in Terms :
                 /\ PostingsOf(doc)[t] # {} => \E p \in Postings(d, t)' : p # {}
                 /\ Postings(d, t) \subseteq {{}} =>
                       Postings(d, t)' \subseteq {{}, PostingsOf(doc)[t]}
<1> DEFINE added   == PostingsOf(doc)
           old     == Buffered(d)
           part(F) == [t \in Terms |-> IF t[1] \in F THEN added[t] ELSE {}]
           with(p) == [buffer EXCEPT ![d] = [t \in Terms |-> old[t] \cup p[t]]]
<1>1. added \in [Terms -> SUBSET Nat]
  BY PostingsOfFacts
<1>2. old \in [Terms -> SUBSET Nat] /\ \A t \in Terms : old[t] \in {{}, buffer[d][t]}
  BY EmptyFacts DEF Types, Layer, Buffered
<1>3. \A t \in Terms : t[1] \in Fields
  BY DEF Terms
<1>4. \/ early = {} /\ buffer' = with(added) /\ UNCHANGED segments
      \/ /\ segments' = Append(segments, with(part(early)))
         /\ buffer' = [Empty EXCEPT ![d] = part(Fields \ early)]
  BY DEF Index
<1> HIDE DEF added, old
<1>5. ASSUME NEW p \in [Terms -> SUBSET Nat]
      PROVE  /\ with(p) \in Layer
             /\ \A t \in Terms : /\ with(p)[d][t] = old[t] \cup p[t]
                                 /\ \A e \in Docs \ {d} : with(p)[e][t] = buffer[e][t]
  <2>1. buffer \in [Docs -> [Terms -> SUBSET Nat]]
    BY DEF Types, Layer
  <2>2. [t \in Terms |-> old[t] \cup p[t]] \in [Terms -> SUBSET Nat]
    BY <1>2, <1>5
  <2> QED
    BY <2>1, <2>2 DEF Layer
<1>6. ASSUME NEW F
      PROVE  part(F) \in [Terms -> SUBSET Nat]
  BY <1>1
<1>7. CASE early = {} /\ buffer' = with(added) /\ UNCHANGED segments
  <2>1. buffer' \in Layer /\ segments' \in Seq(Layer)
    BY <1>1, <1>5, <1>7 DEF Types
  <2>2. \A t \in Terms : /\ buffer'[d][t] = old[t] \cup added[t]
                         /\ \A e \in Docs \ {d} : buffer'[e][t] = buffer[e][t]
    BY <1>1, <1>5, <1>7
  <2>3. ASSUME NEW e \in Docs \ {d}
        PROVE  Carried(e)
    BY <1>7, <2>2 DEF Carried, Postings
  <2>4. ASSUME NEW t \in Terms
        PROVE  /\ added[t] # {} => \E p \in Postings(d, t)' : p # {}
               /\ Postings(d, t) \subseteq {{}} => Postings(d, t)' \subseteq {{}, added[t]}
    <3>1. Postings(d, t)' = {segments[i][d][t] : i \in DOMAIN segments} \cup {old[t] \cup added[t]}
      BY <1>7, <2>2 DEF Postings
    <3>2. Postings(d, t) \subseteq {{}} => old[t] = {}
      BY <1>2 DEF Postings
    <3> QED
      BY <3>1, <3>2 DEF Postings
  <2> QED
    BY <2>1, <2>3, <2>4 DEF added
<1>8. CASE /\ segments' = Append(segments, with(part(early)))
           /\ buffer' = [Empty EXCEPT ![d] = part(Fields \ early)]
  <2> DEFINE L == with(part(early))
  <2>1. /\ L \in Layer
        /\ \A t \in Terms : /\ L[d][t] = old[t] \cup (IF t[1] \in early THEN added[t] ELSE {})
                            /\ \A e \in Docs \ {d} : L[e][t] = buffer[e][t]
    <3>1. part(early) \in [Terms -> SUBSET Nat]
      BY <1>6
    <3>2. \A t \in Terms : part(early)[t] = IF t[1] \in early THEN added[t] ELSE {}
      OBVIOUS
    <3> HIDE DEF part
    <3> QED
      BY <1>5, <3>1, <3>2
  <2>2. segments' = Append(segments, L)
    BY <1>8
  <2> HIDE DEF L
  <2>3. /\ segments' \in Seq(Layer)
        /\ \A e \in Docs, t \in Terms :
              {segments'[i][e][t] : i \in DOMAIN segments'} =
                  {segments[i][e][t] : i \in DOMAIN segments} \cup {L[e][t]}
    <3>1. Pushed(L)
      BY <2>1, <2>2, PushFacts
    <3> QED
      BY <3>1 DEF Pushed
  <2>4. /\ buffer' \in Layer
        /\ \A t \in Terms : /\ buffer'[d][t] = IF t[1] \in early THEN {} ELSE added[t]
                            /\ \A e \in Docs \ {d} : buffer'[e][t] = {}
    <3>1. Empty \in [Docs -> [Terms -> SUBSET Nat]] /\ part(Fields \ early) \in [Terms -> SUBSET Nat]
      BY <1>6, EmptyFacts DEF Layer
    <3> QED
      BY <1>3, <1>8, <3>1, EmptyFacts DEF Layer
  <2>5. \A e \in Docs, t \in Terms :
           Postings(e, t)' = {segments[i][e][t] : i \in DOMAIN segments} \cup {L[e][t], buffer'[e][t]}
    BY <2>3 DEF Postings
  <2>6. ASSUME NEW e \in Docs \ {d}
        PROVE  Carried(e)
    <3>1. ASSUME NEW t \in Terms
          PROVE  Postings(e, t)' = Postings(e, t) \cup {{}}
      <4>1. L[e][t] = buffer[e][t] /\ buffer'[e][t] = {}
        BY <2>1, <2>4
      <4>2. Postings(e, t)' = {segments[i][e][t] : i \in DOMAIN segments} \cup {buffer[e][t], {}}
        BY <2>5, <4>1
      <4>3. Postings(e, t) = {segments[i][e][t] : i \in DOMAIN segments} \cup {buffer[e][t]}
        BY DEF Postings
      <4> QED
        BY <4>2, <4>3
    <3> QED
      BY <3>1 DEF Carried
  <2>7. ASSUME NEW t \in Terms
        PROVE  /\ added[t] # {} => \E p \in Postings(d, t)' : p # {}
               /\ Postings(d, t) \subseteq {{}} => Postings(d, t)' \subseteq {{}, added[t]}
    <3>1. Postings(d, t) \subseteq {{}} => old[t] = {}
      BY <1>2 DEF Postings
    <3>2. L[d][t] \in Postings(d, t)' /\ buffer'[d][t] \in Postings(d, t)'
      BY <2>5
    <3>3. \/ L[d][t] = old[t] \cup added[t] /\ buffer'[d][t] = {}
          \/ L[d][t] = old[t] \cup {} /\ buffer'[d][t] = added[t]
      BY <2>1, <2>4
    <3>4. ASSUME added[t] # {}
          PROVE  \E p \in Postings(d, t)' : p # {}
      <4>1. L[d][t] # {} \/ buffer'[d][t] # {}
        BY <3>3, <3>4
      <4> QED
        BY <3>2, <4>1
    <3>5. ASSUME Postings(d, t) \subseteq {{}}
          PROVE  Postings(d, t)' \subseteq {{}, added[t]}
      <4>1. L[d][t] \in {{}, added[t]} /\ buffer'[d][t] \in {{}, added[t]}
        BY <3>1, <3>3, <3>5
      <4>2. {segments[i][d][t] : i \in DOMAIN segments} \subseteq {{}}
        BY <3>5 DEF Postings
      <4>3. Postings(d, t)' = {segments[i][d][t] : i \in DOMAIN segments} \cup {L[d][t], buffer'[d][t]}
        BY <2>5
      <4> QED
        BY <4>1, <4>2, <4>3
    <3> QED
      BY <3>4, <3>5
  <2> QED
    BY <2>3, <2>4, <2>6, <2>7 DEF added
<1> QED
  BY <1>4, <1>7, <1>8

\* Every step keeps the types.
LEMMA TypesStep ==
    ASSUME Types, [Next]_vars
    PROVE  Types'
<1>1. ASSUME NEW d \in Docs, NEW doc \in Contents, NEW early \in SUBSET Fields, Index(d, doc, early)
      PROVE  Types'
  <2>1. segments' \in Seq(Layer) /\ buffer' \in Layer
    BY <1>1, IndexFacts
  <2>2. writes' \in [Docs -> Nat]
    <3>1. Write(d)
      BY <1>1 DEF Index
    <3> QED
      BY <3>1, WriteFacts DEF Types
  <2>3. /\ text' = [text EXCEPT ![d] = doc] /\ hidden' = hidden \ {d}
        /\ trie' \subseteq trie \cup Terms /\ recent' = recent \cup {d}
    BY <1>1 DEF Index
  <2> QED
    BY <2>1, <2>2, <2>3 DEF Types
<1>2. ASSUME NEW d \in Docs, Delete(d)
      PROVE  Types'
  <2>1. writes' \in [Docs -> Nat]
    <3>1. Write(d)
      BY <1>2 DEF Delete
    <3> QED
      BY <3>1, WriteFacts DEF Types
  <2> QED
    BY <1>2, <2>1 DEF Types, Delete
<1>3. CASE Flush
  BY <1>3, FlushCarries DEF Flush, Types
<1>4. CASE Merge
  BY <1>4, MergeCarries DEF Merge, Types
<1>5. CASE Restart
  <2>1. \/ segments' = Append(segments, buffer) /\ buffer' = Empty
        \/ UNCHANGED <<segments, buffer>>
    BY <1>5 DEF Restart
  <2> QED
    BY <1>5, <2>1, FlushCarries DEF Restart, Types
<1>6. CASE UNCHANGED vars
  BY <1>6 DEF vars, Types
<1> QED
  BY <1>1, <1>2, <1>3, <1>4, <1>5, <1>6 DEF Next

\* A step that is not a call on a document leaves it as it should be.
LEMMA CarriedStep ==
    ASSUME IInv, NEW d \in Docs, Carried(d),
           text'[d] = text[d], writes'[d] = writes[d], d \in hidden' => d \in hidden,
           d \in recent' => d \in recent /\ trie \subseteq trie'
    PROVE  Untouched(d)' /\ Own(d)' /\ Kept(d)' /\ Indexed(d)'
<1>1. \A t \in Terms : Postings(d, t)' \subseteq Postings(d, t) \cup {{}}
  BY DEF Carried
<1>2. d \notin hidden => \A t \in Terms : (\E p \in Postings(d, t) : p # {}) => \E p \in Postings(d, t)' : p # {}
  BY DEF Carried
<1>3. Untouched(d) /\ Own(d) /\ Kept(d) /\ Indexed(d)
  BY DEF IInv
<1>4. Untouched(d)'
  <2> SUFFICES ASSUME writes'[d] = 0
               PROVE  text'[d] = NoDoc /\ d \notin hidden' /\ \A t \in Terms : Postings(d, t)' \subseteq {{}}
    BY DEF Untouched
  <2>1. text[d] = NoDoc /\ d \notin hidden /\ \A t \in Terms : Postings(d, t) \subseteq {{}}
    BY <1>3 DEF Untouched
  <2> QED
    BY <1>1, <2>1
<1>5. Own(d)'
  <2> SUFFICES ASSUME text'[d] # NoDoc, writes'[d] = 1, NEW t \in Terms
               PROVE  Postings(d, t)' \subseteq {{}, PostingsOf(text'[d])[t]}
    BY DEF Own, PostingsOf
  <2>1. Postings(d, t) \subseteq {{}, PostingsOf(text[d])[t]}
    BY <1>3 DEF Own
  <2> QED
    BY <1>1, <2>1
<1>6. Kept(d)'
  <2> SUFFICES ASSUME text'[d] # NoDoc
               PROVE  /\ d \notin hidden'
                      /\ \A t \in Terms : PostingsOf(text'[d])[t] # {} => \E p \in Postings(d, t)' : p # {}
    BY DEF Kept, PostingsOf
  <2>1. /\ d \notin hidden
        /\ \A t \in Terms : PostingsOf(text[d])[t] # {} => \E p \in Postings(d, t) : p # {}
    BY <1>3 DEF Kept
  <2> QED
    BY <1>2, <2>1
<1>7. Indexed(d)'
  <2> SUFFICES ASSUME d \in recent'
               PROVE  text'[d] # NoDoc /\ \A t \in Terms : PostingsOf(text'[d])[t] # {} => t \in trie'
    BY DEF Indexed, PostingsOf
  <2> QED
    BY <1>3 DEF Indexed
<1> QED
  BY <1>4, <1>5, <1>6, <1>7

\* Every step keeps the invariant: Index establishes it for its document, with no
\* posting left over if it is the first call on it; Delete takes the text away.
LEMMA Inductive ==
    ASSUME IInv, [Next]_vars
    PROVE  IInv'
<1>1. Types /\ Types'
  BY TypesStep DEF IInv
<1>2. ASSUME NEW d \in Docs, NEW doc \in Contents, NEW early \in SUBSET Fields, Index(d, doc, early),
             NEW e \in Docs
      PROVE  Untouched(e)' /\ Own(e)' /\ Kept(e)' /\ Indexed(e)'
  <2>1. /\ text' = [text EXCEPT ![d] = doc] /\ hidden' = hidden \ {d}
        /\ trie' = trie \cup {t \in Terms : PostingsOf(doc)[t] # {}} /\ recent' = recent \cup {d}
        /\ writes' = [writes EXCEPT ![d] = @ + 1]
    BY <1>2, WriteFacts DEF Index
  <2>2. text \in [Docs -> Contents \cup {NoDoc}] /\ writes \in [Docs -> Nat]
    BY <1>1 DEF Types
  <2>3. CASE e # d
    <3>1. Carried(e)
      BY <1>1, <1>2, <2>3, IndexFacts
    <3>2. /\ text'[e] = text[e] /\ writes'[e] = writes[e] /\ (e \in hidden' => e \in hidden)
          /\ e \in recent' => e \in recent /\ trie \subseteq trie'
      BY <2>1, <2>2, <2>3
    <3> QED
      BY <3>1, <3>2, CarriedStep
  <2>4. CASE e = d
    <3>1. text'[d] = doc /\ writes'[d] = writes[d] + 1 /\ writes[d] \in Nat
      BY <2>1, <2>2
    <3>2. \A t \in Terms :
             /\ PostingsOf(doc)[t] # {} => \E p \in Postings(d, t)' : p # {}
             /\ Postings(d, t) \subseteq {{}} =>
                   Postings(d, t)' \subseteq {{}, PostingsOf(doc)[t]}
      BY <1>1, <1>2, IndexFacts
    <3>3. Untouched(d)'
      BY <3>1 DEF Untouched
    <3>4. Own(d)'
      <4> SUFFICES ASSUME writes[d] = 0, NEW t \in Terms
                   PROVE  Postings(d, t)' \subseteq {{}, PostingsOf(text'[d])[t]}
        BY <3>1 DEF Own, PostingsOf
      <4>1. Postings(d, t) \subseteq {{}}
        BY DEF IInv, Untouched
      <4> QED
        BY <3>1, <3>2, <4>1
    <3>5. Kept(d)'
      <4>1. d \notin hidden'
        BY <2>1
      <4> QED
        BY <3>1, <3>2, <4>1 DEF Kept, PostingsOf
    <3>6. Indexed(d)'
      <4>1. doc # NoDoc
        BY ContentsAssumption
      <4> QED
        BY <2>1, <3>1, <4>1 DEF Indexed, PostingsOf
    <3> QED
      BY <2>4, <3>3, <3>4, <3>5, <3>6
  <2> QED
    BY <2>3, <2>4
<1>3. ASSUME NEW d \in Docs, Delete(d), NEW e \in Docs
      PROVE  Untouched(e)' /\ Own(e)' /\ Kept(e)' /\ Indexed(e)'
  <2>1. /\ text' = [text EXCEPT ![d] = NoDoc] /\ hidden' = hidden \cup {d}
        /\ recent' = recent \ {d} /\ UNCHANGED <<buffer, segments, trie>>
        /\ writes' = [writes EXCEPT ![d] = @ + 1]
    BY <1>3, WriteFacts DEF Delete
  <2>2. text \in [Docs -> Contents \cup {NoDoc}] /\ writes \in [Docs -> Nat]
    BY <1>1 DEF Types
  <2>3. CASE e # d
    <3>1. Carried(e)
      BY <2>1 DEF Carried, Postings
    <3>2. /\ text'[e] = text[e] /\ writes'[e] = writes[e] /\ (e \in hidden' => e \in hidden)
          /\ e \in recent' => e \in recent /\ trie \subseteq trie'
      BY <2>1, <2>2, <2>3
    <3> QED
      BY <3>1, <3>2, CarriedStep
  <2>4. CASE e = d
    <3>1. text'[d] = NoDoc /\ writes'[d] # 0 /\ d \notin recent'
      BY <2>1, <2>2
    <3> QED
      BY <2>4, <3>1 DEF Untouched, Own, Kept, Indexed
  <2> QED
    BY <2>3, <2>4
<1>4. ASSUME NEW d \in Docs, Flush
      PROVE  Untouched(d)' /\ Own(d)' /\ Kept(d)' /\ Indexed(d)'
  <2>1. Carried(d)
    BY <1>1, <1>4, FlushCarries DEF Flush
  <2> QED
    BY <1>4, <2>1, CarriedStep DEF Flush
<1>5. ASSUME NEW d \in Docs, Merge
      PROVE  Untouched(d)' /\ Own(d)' /\ Kept(d)' /\ Indexed(d)'
  <2>1. Carried(d)
    BY <1>1, <1>5, MergeCarries
  <2> QED
    BY <1>5, <2>1, CarriedStep DEF Merge
<1>6. ASSUME NEW d \in Docs, Restart
      PROVE  Untouched(d)' /\ Own(d)' /\ Kept(d)' /\ Indexed(d)'
  <2>1. \/ segments' = Append(segments, buffer) /\ buffer' = Empty
        \/ UNCHANGED <<segments, buffer>>
    BY <1>6 DEF Restart
  <2>2. Carried(d)
    BY <1>1, <2>1, FlushCarries
  <2> QED
    BY <1>6, <2>2, CarriedStep DEF Restart
<1>7. ASSUME NEW d \in Docs, UNCHANGED vars
      PROVE  Untouched(d)' /\ Own(d)' /\ Kept(d)' /\ Indexed(d)'
  <2>1. Carried(d)
    BY <1>7 DEF vars, Carried, Postings
  <2> QED
    BY <1>7, <2>1, CarriedStep DEF vars
<1> QED
  BY <1>1, <1>2, <1>3, <1>4, <1>5, <1>6, <1>7 DEF Next, IInv

\* It holds at the start.
LEMMA Initially ==
    ASSUME Init
    PROVE  IInv
<1>1. Types
  BY EmptyFacts DEF Init, Types
<1>2. ASSUME NEW d \in Docs
      PROVE  text[d] = NoDoc /\ d \notin hidden /\ d \notin recent
             /\ \A t \in Terms : Postings(d, t) \subseteq {{}}
  <2>1. text[d] = NoDoc /\ d \notin hidden /\ d \notin recent
    BY DEF Init
  <2>2. \A t \in Terms : Postings(d, t) = {{}}
    <3>1. DOMAIN segments = {}
      BY DEF Init
    <3>2. \A t \in Terms : buffer[d][t] = {}
      BY EmptyFacts DEF Init
    <3> QED
      BY <3>1, <3>2 DEF Postings
  <2> QED
    BY <2>1, <2>2
<1> QED
  BY <1>1, <1>2 DEF IInv, Untouched, Own, Kept, Indexed

\* What Lookup finds, and what Index and the merges leave for it, in every
\* reachable state: a stored document has a posting of each word of its text, and
\* one written once has no others.
THEOREM InvariantCorrect == Spec => []IInv
<1>1. Init => IInv
  BY Initially
<1>2. IInv /\ [Next]_vars => IInv'
  BY Inductive
<1> QED
  BY <1>1, <1>2, PTL DEF Spec

-----------------------------------------------------------------------------
(* What a search sees.                                                     *)

\* A clause is for a word, or a phrase.
LEMMA ClauseFacts ==
    ASSUME NEW c \in Clause
    PROVE  /\ c.type \in {"must", "should", "must_not", "phrase"}
           /\ c.field \in Fields /\ c.words \in Seq(Words)
           /\ c.type # "phrase" => /\ c.words[1] \in Words
                                   /\ c.words = <<c.words[1]>>
                                   /\ <<c.field, c.words[1]>> \in Terms
<1>1. CASE c \in [type : {"phrase"}, field : Fields, words : Seq(Words)]
  BY <1>1
<1>2. CASE c \in [type : {"must", "should", "must_not"}, field : Fields, words : {<<w>> : w \in Words}]
  <2>1. PICK w \in Words : c.words = <<w>>
    BY <1>2
  <2>2. <<w>> \in Seq(Words) /\ <<w>>[1] = w
    OBVIOUS
  <2>3. c.type \in {"must", "should", "must_not"} /\ c.field \in Fields
    BY <1>2
  <2> QED
    BY <2>1, <2>2, <2>3 DEF Terms
<1> QED
  BY <1>1, <1>2 DEF Clause

\* The clauses of a query asked are clauses.
LEMMA QueryFacts ==
    ASSUME NEW q \in Queries
    PROVE  /\ q \in Query /\ q.clauses \in Seq(Clause)
           /\ \A i \in DOMAIN q.clauses : q.clauses[i] \in Clause
<1>1. q \in Query
  BY QueriesAssumption
<1>2. q.clauses \in Seq(Clause)
  BY <1>1 DEF Query
<1>3. \A i \in DOMAIN q.clauses : q.clauses[i] \in Clause
  BY <1>2, ElementOfSeq, LenProperties
<1> QED
  BY <1>1, <1>2, <1>3

\* A word is in a text if and only if the text has a posting of it.
LEMMA InTextFacts ==
    ASSUME NEW doc \in Contents, NEW f \in Fields, NEW w \in Words
    PROVE  w \in ToSet(doc[f]) <=> PostingsOf(doc)[<<f, w>>] # {}
<1>1. PostingsOf(doc)[<<f, w>>] = {i \in DOMAIN doc[f] : doc[f][i] = w}
  BY PostingsOfFacts
<1>2. w \in ToSet(doc[f]) <=> \E i \in DOMAIN doc[f] : doc[f][i] = w
  BY DEF ToSet
<1> QED
  BY <1>1, <1>2

\* Lookup returns postings of the text a document has now if there are any, and
\* only them if it was written once.
LEMMA LookupFacts ==
    ASSUME IInv, NEW d \in Stored, NEW t \in Terms
    PROVE  /\ text[d] \in Contents /\ d \in Docs
           /\ PostingsOf(text[d])[t] # {} => {} \notin Lookup(d, t)
           /\ writes[d] = 1 => Lookup(d, t) \subseteq {PostingsOf(text[d])[t]}
<1>1. /\ d \in Docs /\ text[d] # NoDoc /\ text[d] \in Contents
      /\ Own(d) /\ Kept(d)
  BY DEF IInv, Types, Stored
<1>2. /\ d \notin hidden
      /\ PostingsOf(text[d])[t] # {} => \E p \in Postings(d, t) : p # {}
  BY <1>1 DEF Kept
<1>3. writes[d] = 1 => Postings(d, t) \subseteq {{}, PostingsOf(text[d])[t]}
  BY <1>1 DEF Own
<1> DEFINE layers  == {segments[i][d][t] : i \in DOMAIN segments}
           flushed == layers \ {{}}
<1>4. Lookup(d, t) = IF flushed # {} THEN flushed ELSE {buffer[d][t]}
  BY <1>2 DEF Lookup
<1>5. Postings(d, t) = layers \cup {buffer[d][t]}
  BY DEF Postings
<1> HIDE DEF layers
<1>6. ASSUME PostingsOf(text[d])[t] # {}
      PROVE  {} \notin Lookup(d, t)
  BY <1>2, <1>4, <1>5, <1>6
<1>7. ASSUME writes[d] = 1
      PROVE  Lookup(d, t) \subseteq {PostingsOf(text[d])[t]}
  BY <1>2, <1>3, <1>4, <1>5, <1>7
<1> QED
  BY <1>1, <1>6, <1>7

\* A view shows of each term what Lookup may return.
LEMMA ViewFacts ==
    ASSUME NEW d, NEW v \in Views(d), NEW t \in Terms
    PROVE  v[t] \in Lookup(d, t)
BY DEF Views

\* An update takes no word of the current text from a query without MustNot and
\* phrases (CurrentTextFound of Search): Kept is enough.
THEOREM CurrentTextCorrect == Spec => []CurrentTextFound
<1>1. ASSUME IInv
      PROVE  CurrentTextFound
  <2> SUFFICES ASSUME NEW d \in Stored, NEW v \in Views(d), NEW q \in PlainQueries, Satisfies(q, d)
               PROVE  Hit(q, d, v)
    BY DEF CurrentTextFound
  <2>1. q \in Queries /\ Positive(q) /\ Of(q, {"must_not", "phrase"}) = {}
    BY DEF PlainQueries
  <2>2. \A i \in DOMAIN q.clauses : q.clauses[i] \in Clause /\ q.clauses[i].type \in {"must", "should"}
    BY <2>1, QueryFacts, ClauseFacts DEF Of
  <2>3. ASSUME NEW i \in DOMAIN q.clauses, InText(text[d], q.clauses[i])
        PROVE  Has(q.clauses[i], v)
    <3> DEFINE c == q.clauses[i]
               t == <<c.field, c.words[1]>>
    <3>1. c.field \in Fields /\ c.words[1] \in Words /\ t \in Terms
      BY <2>2, ClauseFacts
    <3>2. PostingsOf(text[d])[t] # {}
      BY <1>1, <2>3, <3>1, InTextFacts, LookupFacts DEF InText
    <3>3. {} \notin Lookup(d, t) /\ v[t] \in Lookup(d, t)
      BY <1>1, <3>1, <3>2, LookupFacts, ViewFacts
    <3> QED
      BY <3>3 DEF Has
  <2>4. /\ \A i \in Of(q, {"must"}) : Has(q.clauses[i], v)
        /\ Of(q, {"must"}) = {} /\ Of(q, {"should"}) # {} => \E i \in Of(q, {"should"}) : Has(q.clauses[i], v)
        /\ q.range => d \in InRange
        /\ q.filter => d \in Passes
    BY <2>3 DEF Satisfies, Of
  <2>5. Match(q, v)
    BY <2>1, <2>4 DEF Match, Of
  <2>6. Candidate(q, d, v)
    <3>1. CASE q.clauses = <<>> /\ q.range
      BY <2>4, <3>1 DEF Candidate
    <3>2. CASE Of(q, {"must", "should", "phrase"}) # {}
      <4>1. \E i \in Of(q, {"must", "should", "must_not"}) : Has(q.clauses[i], v)
        BY <2>1, <2>4, <3>2 DEF Of
      <4> QED
        BY <2>4, <4>1 DEF Candidate
    <3> QED
      BY <2>1, <3>1, <3>2 DEF Positive
  <2> QED
    BY <2>4, <2>5, <2>6 DEF Hit, Scored
<1> QED
  BY <1>1, InvariantCorrect, PTL

-----------------------------------------------------------------------------
(* Exact matches.                                                          *)

\* Where each phrase keeps to its own words, the positions it is given for a word
\* are those in its field.
LEMMA WordPositionsFacts ==
    ASSUME NEW q \in Queries, Apart(q), NEW j \in Of(q, {"phrase"}),
           NEW w \in ToSet(q.clauses[j].words), NEW v
    PROVE  WordPositions(q, v, w) = v[<<q.clauses[j].field, w>>]
<1> DEFINE found == {i \in Of(q, {"phrase"}) : w \in ToSet(q.clauses[i].words)
                                                 /\ v[<<q.clauses[i].field, w>>] # {}}
<1>1. \A i \in found : q.clauses[i].field = q.clauses[j].field
  BY DEF Apart
<1>2. WordPositions(q, v, w) = IF found = {} THEN {} ELSE v[<<q.clauses[Max(found)].field, w>>]
  BY DEF WordPositions
<1>3. found # {} => Max(found) \in found
  <2>1. PICK n \in Nat : DOMAIN q.clauses = 1..n
    BY QueryFacts, LenProperties
  <2>2. found \in SUBSET (1..n)
    BY <2>1 DEF Of
  <2> HIDE DEF found
  <2> QED
    BY <2>2, MaxFacts
<1>4. found = {} => v[<<q.clauses[j].field, w>>] = {}
  OBVIOUS
<1> QED
  BY <1>1, <1>2, <1>3, <1>4

\* A phrase is in a text if and only if its words have positions there that
\* follow each other.
LEMMA PhraseFacts ==
    ASSUME NEW txt \in Seq(Words), NEW words \in Seq(Words), Len(words) > 0
    PROVE  (\E i \in 0..Len(txt) : /\ i + Len(words) <= Len(txt)
                                   /\ SubSeq(txt, i + 1, i + Len(words)) = words)
           <=> \E p \in DOMAIN txt : /\ txt[p] = words[1]
                                     /\ \A i \in DOMAIN words :
                                           p + i - 1 \in DOMAIN txt /\ txt[p + i - 1] = words[i]
<1>1. PICK n \in Nat : n = Len(txt) /\ DOMAIN txt = 1..n
  BY LenProperties
<1>2. PICK k \in Nat : k = Len(words) /\ DOMAIN words = 1..k /\ k > 0
  BY LenProperties
<1>3. ASSUME NEW i \in 0..n, i + k <= n
      PROVE  (SubSeq(txt, i + 1, i + k) = words)
             <=> \A j \in 1..k : txt[i + j] = words[j]
  <2>1. i + 1 \in Int /\ i + k \in Int
    BY <1>3
  <2>2. \A j \in (i + 1)..(i + k) : txt[j] \in Words
    BY <1>1, <1>3, ElementOfSeq
  <2>3. PICK sub : sub = SubSeq(txt, i + 1, i + k)
    OBVIOUS
  <2>4. /\ sub \in Seq(Words)
        /\ Len(sub) = IF i + 1 <= i + k THEN i + k - (i + 1) + 1 ELSE 0
        /\ \A j \in 1..(i + k - (i + 1) + 1) : sub[j] = txt[i + 1 + j - 1]
    BY <2>1, <2>2, <2>3, SubSeqProperties
  <2>5. i + k - (i + 1) + 1 = k /\ \A j \in 1..k : i + 1 + j - 1 = i + j
    BY <1>2, <1>3
  <2>6. Len(sub) = k /\ \A j \in 1..k : sub[j] = txt[i + j]
    BY <1>2, <2>4, <2>5
  <2>7. sub = words <=> \A j \in 1..k : sub[j] = words[j]
    BY <1>2, <2>4, <2>6, SeqEqual
  <2> QED
    BY <2>3, <2>6, <2>7
<1>4. ASSUME NEW i \in 0..n, i + k <= n, SubSeq(txt, i + 1, i + k) = words
      PROVE  \E p \in 1..n : /\ txt[p] = words[1]
                             /\ \A j \in 1..k : p + j - 1 \in 1..n /\ txt[p + j - 1] = words[j]
  <2>1. \A j \in 1..k : txt[i + j] = words[j]
    BY <1>3, <1>4
  <2>2. PICK p \in 1..n : p = i + 1
    BY <1>2, <1>4
  <2>3. \A j \in 1..k : p + j - 1 = i + j /\ i + j \in 1..n
    BY <1>2, <1>4, <2>2
  <2>4. txt[p] = words[1]
    BY <1>2, <2>1, <2>2
  <2>5. \A j \in 1..k : p + j - 1 \in 1..n /\ txt[p + j - 1] = words[j]
    BY <2>1, <2>3
  <2> QED
    BY <2>4, <2>5
<1>5. ASSUME NEW p \in 1..n, \A j \in 1..k : p + j - 1 \in 1..n /\ txt[p + j - 1] = words[j]
      PROVE  \E i \in 0..n : i + k <= n /\ SubSeq(txt, i + 1, i + k) = words
  <2>1. PICK i \in 0..n : i = p - 1
    BY <1>5
  <2>2. k \in 1..k
    BY <1>2
  <2>3. p + k - 1 \in 1..n
    BY <1>5, <2>2
  <2>4. i + k <= n
    BY <1>2, <2>1, <2>3
  <2>5. \A j \in 1..k : p + j - 1 = i + j
    BY <1>2, <2>1
  <2>6. \A j \in 1..k : txt[i + j] = words[j]
    BY <1>5, <2>5
  <2> QED
    BY <1>3, <2>4, <2>6
<1> QED
  BY <1>1, <1>2, <1>4, <1>5

\* A document written once is found by exactly the queries with something to look
\* for that its text, its ranges and its filters satisfy (WrittenOnceExact of
\* Search): every view of it is its text's postings, by Own and Kept, and over
\* them Match and PhraseMatch say what the text says.
THEOREM WrittenOnceCorrect == Spec => []WrittenOnceExact
<1>1. ASSUME IInv
      PROVE  WrittenOnceExact
  <2> SUFFICES ASSUME NEW d \in Stored, writes[d] = 1, NEW v \in Views(d), NEW q \in ExactQueries
               PROVE  Hit(q, d, v) <=> Satisfies(q, d)
    BY DEF WrittenOnceExact
  <2>1. q \in Queries /\ Positive(q) /\ Apart(q)
    BY DEF ExactQueries
  <2>2. \A i \in DOMAIN q.clauses : q.clauses[i] \in Clause
    BY <2>1, QueryFacts
  <2>3. text[d] \in Contents /\ \A t \in Terms : v[t] = PostingsOf(text[d])[t]
    <3>1. \A t \in Terms : v[t] \in Lookup(d, t) /\ Lookup(d, t) \subseteq {PostingsOf(text[d])[t]}
      BY <1>1, LookupFacts, ViewFacts
    <3>2. text[d] \in Contents
      BY <1>1 DEF IInv, Types, Stored
    <3> QED
      BY <3>1, <3>2
  <2>4. ASSUME NEW i \in DOMAIN q.clauses, q.clauses[i].type # "phrase"
        PROVE  Has(q.clauses[i], v) <=> InText(text[d], q.clauses[i])
    <3> DEFINE c == q.clauses[i]
    <3>1. c.field \in Fields /\ c.words[1] \in Words /\ <<c.field, c.words[1]>> \in Terms
      BY <2>2, <2>4, ClauseFacts
    <3> QED
      BY <2>3, <3>1, InTextFacts DEF Has, InText
  <2>5. ASSUME NEW i \in Of(q, {"phrase"})
        PROVE  /\ PhraseMatch(q, q.clauses[i], v) <=> PhraseInText(text[d], q.clauses[i])
               /\ PhraseMatch(q, q.clauses[i], v) =>
                     \E w \in ToSet(q.clauses[i].words) : v[<<q.clauses[i].field, w>>] # {}
    <3> PICK c : c = q.clauses[i]
      OBVIOUS
    <3>1. c.field \in Fields /\ c.words \in Seq(Words)
      BY <2>2, ClauseFacts DEF Of
    <3>2. PICK txt \in Seq(Words) : txt = text[d][c.field]
      BY <2>3, <3>1, ContentsAssumption
    <3>3. ASSUME NEW w \in ToSet(c.words)
          PROVE  /\ WordPositions(q, v, w) = v[<<c.field, w>>]
                 /\ v[<<c.field, w>>] = {p \in DOMAIN txt : txt[p] = w}
      <4>1. w \in Words
        BY <3>1, ElementOfSeq, LenProperties DEF ToSet
      <4>2. <<c.field, w>> \in Terms
        BY <3>1, <4>1 DEF Terms
      <4>3. v[<<c.field, w>>] = {p \in DOMAIN txt : txt[p] = w}
        <5>1. PICK doc \in Contents : doc = text[d] /\ v[<<c.field, w>>] = PostingsOf(doc)[<<c.field, w>>]
          BY <2>3, <4>2
        <5>2. PostingsOf(doc)[<<c.field, w>>] = {p \in DOMAIN doc[c.field] : doc[c.field][p] = w}
          BY <3>1, <4>1, PostingsOfFacts
        <5> QED
          BY <3>2, <5>1, <5>2
      <4>4. WordPositions(q, v, w) = v[<<c.field, w>>]
        BY <2>1, <3>3, WordPositionsFacts
      <4> QED
        BY <4>3, <4>4
    <3>4. \A j \in DOMAIN c.words : c.words[j] \in ToSet(c.words)
      BY DEF ToSet
    <3>5. CASE Len(c.words) > 0
      <4>1. 1 \in DOMAIN c.words
        BY <3>1, <3>5, LenProperties
      <4>2. PhraseMatch(q, c, v) <=>
               \E p \in WordPositions(q, v, c.words[1]) :
                  \A j \in DOMAIN c.words : p + j - 1 \in WordPositions(q, v, c.words[j])
        BY <3>5 DEF PhraseMatch
      <4>3. \A j \in DOMAIN c.words : WordPositions(q, v, c.words[j]) = {p \in DOMAIN txt : txt[p] = c.words[j]}
        BY <3>3, <3>4
      <4>4. PhraseMatch(q, c, v) <=>
               \E p \in DOMAIN txt :
                  /\ txt[p] = c.words[1]
                  /\ \A j \in DOMAIN c.words : p + j - 1 \in DOMAIN txt /\ txt[p + j - 1] = c.words[j]
        <5> DEFINE pos(j) == {p \in DOMAIN txt : txt[p] = c.words[j]}
        <5>1. PhraseMatch(q, c, v) <=>
                 \E p \in pos(1) : \A j \in DOMAIN c.words : p + j - 1 \in pos(j)
          <6>1. \A j \in DOMAIN c.words : WordPositions(q, v, c.words[j]) = pos(j)
            BY <4>3
          <6> HIDE DEF pos
          <6> QED
            BY <4>1, <4>2, <6>1
        <5>2. \A p, j : p \in pos(j) <=> p \in DOMAIN txt /\ txt[p] = c.words[j]
          OBVIOUS
        <5> HIDE DEF pos
        <5>3. ASSUME PhraseMatch(q, c, v)
              PROVE  \E p \in DOMAIN txt :
                        /\ txt[p] = c.words[1]
                        /\ \A j \in DOMAIN c.words : p + j - 1 \in DOMAIN txt /\ txt[p + j - 1] = c.words[j]
          <6>1. PICK p \in pos(1) : \A j \in DOMAIN c.words : p + j - 1 \in pos(j)
            BY <5>1, <5>3
          <6>2. p \in DOMAIN txt /\ txt[p] = c.words[1]
            BY <5>2, <6>1
          <6>3. \A j \in DOMAIN c.words : p + j - 1 \in DOMAIN txt /\ txt[p + j - 1] = c.words[j]
            BY <5>2, <6>1, Zenon
          <6> QED
            BY <6>2, <6>3
        <5>4. ASSUME NEW p \in DOMAIN txt, txt[p] = c.words[1],
                     \A j \in DOMAIN c.words : p + j - 1 \in DOMAIN txt /\ txt[p + j - 1] = c.words[j]
              PROVE  PhraseMatch(q, c, v)
          <6>1. p \in pos(1) /\ \A j \in DOMAIN c.words : p + j - 1 \in pos(j)
            BY <5>2, <5>4, Zenon
          <6> QED
            BY <5>1, <6>1
        <5> QED
          BY <5>3, <5>4
      <4>5. PhraseInText(text[d], c) <=>
               \E p \in 0..Len(txt) : /\ p + Len(c.words) <= Len(txt)
                                      /\ SubSeq(txt, p + 1, p + Len(c.words)) = c.words
        BY <3>2, <3>5 DEF PhraseInText
      <4>6. PhraseMatch(q, c, v) <=> PhraseInText(text[d], c)
        <5>1. PICK words \in Seq(Words) : words = c.words
          BY <3>1
        <5>2. (\E p \in 0..Len(txt) : /\ p + Len(words) <= Len(txt)
                                      /\ SubSeq(txt, p + 1, p + Len(words)) = words)
              <=> \E p \in DOMAIN txt :
                     /\ txt[p] = words[1]
                     /\ \A j \in DOMAIN words : p + j - 1 \in DOMAIN txt /\ txt[p + j - 1] = words[j]
          <6>1. Len(words) > 0
            BY <3>5, <5>1
          <6> QED
            BY <6>1, PhraseFacts, Zenon
        <5> QED
          BY <4>4, <4>5, <5>1, <5>2
      <4>7. PhraseMatch(q, c, v) => v[<<c.field, c.words[1]>>] # {}
        BY <3>3, <3>4, <4>1, <4>2
      <4> QED
        BY <3>4, <4>1, <4>6, <4>7
    <3>6. CASE ~ (Len(c.words) > 0)
      BY <3>6 DEF PhraseMatch, PhraseInText
    <3> QED
      BY <3>5, <3>6
  <2>6. Match(q, v) <=>
           /\ \A i \in DOMAIN q.clauses :
                 LET c == q.clauses[i]
                 IN  /\ c.type = "must" => InText(text[d], c)
                     /\ c.type = "must_not" => ~ InText(text[d], c)
                     /\ c.type = "phrase" => PhraseInText(text[d], c)
           /\ Of(q, {"must"}) = {} /\ Of(q, {"should"}) # {}
                 => \E i \in Of(q, {"should"}) : InText(text[d], q.clauses[i])
    <3>1. (\A i \in Of(q, {"must"}) : Has(q.clauses[i], v))
          <=> \A i \in DOMAIN q.clauses : q.clauses[i].type = "must" => InText(text[d], q.clauses[i])
      BY <2>4 DEF Of
    <3>2. (\A i \in Of(q, {"must_not"}) : ~ Has(q.clauses[i], v))
          <=> \A i \in DOMAIN q.clauses : q.clauses[i].type = "must_not" => ~ InText(text[d], q.clauses[i])
      BY <2>4 DEF Of
    <3>3. (\A i \in Of(q, {"phrase"}) : PhraseMatch(q, q.clauses[i], v))
          <=> \A i \in DOMAIN q.clauses : q.clauses[i].type = "phrase" => PhraseInText(text[d], q.clauses[i])
      BY <2>5 DEF Of
    <3>4. (\E i \in Of(q, {"should"}) : Has(q.clauses[i], v))
          <=> \E i \in Of(q, {"should"}) : InText(text[d], q.clauses[i])
      BY <2>4 DEF Of
    <3> QED
      BY <3>1, <3>2, <3>3, <3>4, Zenon DEF Match
  <2>7. ASSUME Match(q, v), q.range => d \in InRange
        PROVE  Candidate(q, d, v)
    <3>1. CASE q.clauses = <<>> /\ q.range
      BY <2>7, <3>1 DEF Candidate
    <3>2. CASE Of(q, {"phrase"}) # {}
      <4>1. \E i \in Of(q, {"phrase"}) : \E w \in ToSet(q.clauses[i].words) : v[<<q.clauses[i].field, w>>] # {}
        BY <2>5, <2>7, <3>2 DEF Match
      <4> QED
        BY <2>7, <4>1 DEF Candidate
    <3>3. CASE Of(q, {"must", "should"}) # {}
      <4>1. \E i \in Of(q, {"must", "should", "must_not"}) : Has(q.clauses[i], v)
        BY <2>7, <3>3 DEF Match, Of
      <4> QED
        BY <2>7, <4>1 DEF Candidate
    <3> QED
      BY <2>1, <3>1, <3>2, <3>3 DEF Positive, Of
  <2>8. Candidate(q, d, v) => (q.range => d \in InRange)
    BY DEF Candidate
  <2> QED
    BY <2>6, <2>7, <2>8 DEF Hit, Scored, Satisfies
<1> QED
  BY <1>1, InvariantCorrect, PTL

-----------------------------------------------------------------------------
(* Searches by pattern.                                                    *)

\* The query for any of some words hits a document that is stored and has one.
AnyOfHits(f, W, d, v) ==
    Hit(AnyOf[<<f, W>>], d, v) <=> d \in Stored /\ \E w \in W : v[<<f, w>>] # {}

\* The queries for any of some words do that.
LEMMA AnyOfFacts ==
    ASSUME NEW f \in Fields, NEW W \in SUBSET Words, NEW d \in Docs, NEW v \in Views(d)
    PROVE  AnyOfHits(f, W, d, v)
<1> DEFINE clause(w) == [type |-> "should", field |-> f, words |-> <<w>>]
           S == {clause(w) : w \in W}
<1> PICK q : q = AnyOf[<<f, W>>]
  OBVIOUS
<1>1. q = [clauses |-> SetToSeq(S), range |-> FALSE, filter |-> FALSE]
  BY DEF AnyOf
<1>2. IsFiniteSet(S)
  <2>1. IsFiniteSet(W)
    BY WordsAssumption, FS_Subset
  <2>2. [w \in W |-> clause(w)] \in Surjection(W, S)
    BY DEF Surjection
  <2> QED
    BY <2>1, <2>2, FS_Surjection
<1>3. /\ q.range = FALSE /\ q.filter = FALSE
      /\ \A i \in DOMAIN q.clauses : \E w \in W : q.clauses[i] = clause(w)
      /\ \A w \in W : \E i \in DOMAIN q.clauses : q.clauses[i] = clause(w)
  <2> HIDE DEF S, clause
  <2>1. /\ SetToSeq(S) \in Seq(S)
        /\ \A x \in S : \E i \in DOMAIN SetToSeq(S) : SetToSeq(S)[i] = x
    BY <1>2, SetToSeqFacts
  <2>2. \A i \in DOMAIN SetToSeq(S) : SetToSeq(S)[i] \in S
    BY <2>1, ElementOfSeq, LenProperties
  <2>3. q.range = FALSE /\ q.filter = FALSE /\ q.clauses = SetToSeq(S)
    BY <1>1
  <2>4. \A w \in W : \E i \in DOMAIN q.clauses : q.clauses[i] = clause(w)
    BY <2>1, <2>3 DEF S
  <2>5. \A i \in DOMAIN q.clauses : \E w \in W : q.clauses[i] = clause(w)
    BY <2>2, <2>3 DEF S
  <2> QED
    BY <2>3, <2>4, <2>5
<1>4. \A i \in DOMAIN q.clauses : q.clauses[i].type = "should"
  <2>1. \A w \in W : clause(w).type = "should"
    OBVIOUS
  <2> HIDE DEF clause
  <2> QED
    BY <1>3, <2>1
<1>5. /\ Of(q, {"must"}) = {} /\ Of(q, {"must_not"}) = {} /\ Of(q, {"phrase"}) = {}
      /\ Of(q, {"should"}) = DOMAIN q.clauses
      /\ Of(q, {"must", "should", "must_not"}) = DOMAIN q.clauses
  BY <1>4 DEF Of
<1>6. (\E i \in DOMAIN q.clauses : Has(q.clauses[i], v)) <=> \E w \in W : v[<<f, w>>] # {}
  <2>1. \A w \in W : Has(clause(w), v) <=> v[<<f, w>>] # {}
    BY DEF Has
  <2> HIDE DEF clause
  <2> QED
    BY <1>3, <2>1
<1>7. Match(q, v) <=> (DOMAIN q.clauses # {} => \E i \in DOMAIN q.clauses : Has(q.clauses[i], v))
  BY <1>5 DEF Match
<1>8. Candidate(q, d, v) <=> \E i \in DOMAIN q.clauses : Has(q.clauses[i], v)
  BY <1>3, <1>5 DEF Candidate
<1>9. Scored(q, d) <=> d \in Stored
  BY <1>3 DEF Scored
<1> QED
  BY <1>6, <1>7, <1>8, <1>9 DEF Hit, AnyOfHits

\* FuzzySearch, WildcardSearch and PrefixSearch agree with Search on the words
\* that resemble their pattern (PatternsAgree of Search), PrefixSearch as far as
\* the trie goes, which Indexed says.
THEOREM PatternsCorrect == Spec => []PatternsAgree
<1>1. ASSUME IInv
      PROVE  PatternsAgree
  <2> SUFFICES ASSUME NEW d \in Docs, NEW f \in Fields, NEW W \in (SUBSET Words) \ {{}}, NEW v \in Views(d)
               PROVE  /\ PatternFinds(f, W, d, v) <=> Hit(AnyOf[<<f, W>>], d, v)
                      /\ PrefixFinds(f, W, d, v) => Hit(AnyOf[<<f, W>>], d, v)
                      /\ d \in recent /\ W \cap ToSet(text[d][f]) # {} => PrefixFinds(f, W, d, v)
    BY DEF PatternsAgree
  <2>1. Hit(AnyOf[<<f, W>>], d, v) <=> d \in Stored /\ \E w \in W : v[<<f, w>>] # {}
    <3>1. AnyOfHits(f, W, d, v)
      BY AnyOfFacts
    <3> QED
      BY <3>1 DEF AnyOfHits
  <2>2. ASSUME NEW w \in W, v[<<f, w>>] # {}
        PROVE  buffer[d][<<f, w>>] # {} \/ \E i \in DOMAIN segments : segments[i][d][<<f, w>>] # {}
    <3>1. PICK t \in Terms : t = <<f, w>>
      BY DEF Terms
    <3>2. v[t] \in Lookup(d, t) /\ v[t] # {}
      BY <2>2, <3>1, ViewFacts
    <3>3. v[t] \in {segments[i][d][t] : i \in DOMAIN segments} \cup {buffer[d][t]}
      BY <3>2 DEF Lookup
    <3> QED
      BY <3>1, <3>2, <3>3
  <2>3. PatternFinds(f, W, d, v) <=> Hit(AnyOf[<<f, W>>], d, v)
    BY <2>1, <2>2 DEF PatternFinds
  <2>4. PrefixFinds(f, W, d, v) => Hit(AnyOf[<<f, W>>], d, v)
    BY <2>1 DEF PrefixFinds
  <2>5. ASSUME d \in recent, W \cap ToSet(text[d][f]) # {}
        PROVE  PrefixFinds(f, W, d, v)
    <3>1. Indexed(d)
      BY <1>1 DEF IInv
    <3>2. d \in Stored /\ \A t \in Terms : PostingsOf(text[d])[t] # {} => t \in trie
      BY <2>5, <3>1 DEF Indexed, Stored
    <3>3. PICK w \in W : w \in ToSet(text[d][f])
      BY <2>5
    <3>4. PICK t \in Terms : t = <<f, w>>
      BY DEF Terms
    <3>5. text[d] \in Contents
      BY <1>1, <3>2, LookupFacts
    <3>6. PostingsOf(text[d])[t] # {}
      BY <3>3, <3>4, <3>5, InTextFacts
    <3>7. {} \notin Lookup(d, t) /\ v[t] \in Lookup(d, t)
      BY <1>1, <3>2, <3>6, LookupFacts, ViewFacts
    <3> QED
      BY <3>2, <3>4, <3>6, <3>7 DEF PrefixFinds
  <2> QED
    BY <2>3, <2>4, <2>5
<1> QED
  BY <1>1, InvariantCorrect, PTL

-----------------------------------------------------------------------------
(* Synonyms.                                                               *)

\* What a clause is expanded to.
LEMMA ExpandClauseFacts ==
    ASSUME NEW c \in Clause
    PROVE  /\ ExpandClause(c) \in Seq(Clause)
           /\ \A j \in DOMAIN ExpandClause(c) :
                 \/ ExpandClause(c)[j] = c
                 \/ ExpandClause(c)[j].type = "should" /\ c.type \notin {"must_not", "phrase"}
           /\ c.type \in {"must_not", "phrase"} => ExpandClause(c) = <<c>>
           /\ \E j \in DOMAIN ExpandClause(c) :
                 /\ ExpandClause(c)[j].field = c.field
                 /\ ExpandClause(c)[j].words = c.words
                 /\ ExpandClause(c)[j] = c \/ ExpandClause(c)[j].type = "should"
<1>1. <<c>> \in Seq(Clause) /\ DOMAIN <<c>> = {1} /\ <<c>>[1] = c
  OBVIOUS
<1>2. CASE ExpandClause(c) = <<c>>
  <2>1. 1 \in DOMAIN ExpandClause(c) /\ ExpandClause(c)[1] = c
    BY <1>1, <1>2
  <2>2. \A j \in DOMAIN ExpandClause(c) : ExpandClause(c)[j] = c
    BY <1>1, <1>2
  <2> QED
    BY <1>1, <1>2, <2>1, <2>2
<1>3. CASE ExpandClause(c) # <<c>>
  <2> DEFINE syn == Synonyms[c.words[1]]
             any == c.words \o syn
             new(i) == [c EXCEPT !.type = "should", !.words = <<any[i]>>]
  <2>1. c.type \notin {"must_not", "phrase"} /\ ExpandClause(c) = [i \in DOMAIN any |-> new(i)]
    BY <1>3 DEF ExpandClause
  <2>2. c.words[1] \in Words /\ c.words = <<c.words[1]>> /\ c.field \in Fields /\ c.words \in Seq(Words)
    BY <2>1, ClauseFacts
  <2>3. syn \in Seq(Words)
    BY <2>2, SynonymsAssumption
  <2> HIDE DEF syn
  <2>4. PICK n \in Nat : n = Len(any) /\ DOMAIN any = 1..n /\ n > 0 /\ any \in Seq(Words) /\ any[1] = c.words[1]
    <3>1. PICK w \in Words : w = c.words[1] /\ c.words = <<w>>
      BY <2>2
    <3>2. any = <<w>> \o syn
      BY <3>1
    <3>3. /\ any \in Seq(Words) /\ Len(any) = Len(syn) + 1
          /\ DOMAIN any = 1..(Len(syn) + 1) /\ any[1] = w
      BY <2>3, <3>2, ConsFacts
    <3>4. Len(syn) \in Nat
      BY <2>3, LenProperties
    <3> QED
      BY <3>1, <3>3, <3>4
  <2>5. ASSUME NEW i \in 1..n
        PROVE  /\ new(i).type = "should" /\ new(i).field = c.field /\ new(i).words = <<any[i]>>
               /\ new(i) \in Clause
    <3>1. any[i] \in Words
      BY <2>4, ElementOfSeq
    <3>2. /\ c.type \in {"must", "should", "must_not"}
          /\ c \in [type : {"must", "should", "must_not"}, field : Fields, words : {<<w>> : w \in Words}]
      BY <2>1 DEF Clause
    <3> QED
      BY <3>1, <3>2 DEF Clause
  <2> HIDE DEF any
  <2>6. PICK e : e = ExpandClause(c)
    OBVIOUS
  <2>7. e = [i \in 1..n |-> new(i)] /\ DOMAIN e = 1..n /\ \A i \in 1..n : e[i] = new(i)
    BY <2>1, <2>4, <2>6
  <2> HIDE DEF new
  <2>8. e \in Seq(Clause)
    BY <2>5, <2>7, IsASeq
  <2>9. 1 \in DOMAIN e /\ e[1].field = c.field /\ e[1].words = c.words /\ e[1].type = "should"
    BY <2>2, <2>4, <2>5, <2>7
  <2>10. \A j \in DOMAIN e : e[j].type = "should"
    BY <2>5, <2>7
  <2> QED
    BY <2>1, <2>6, <2>8, <2>9, <2>10
<1> QED
  BY <1>2, <1>3

Expanded(q) == [i \in DOMAIN q.clauses |-> ExpandClause(q.clauses[i])]

\* The clauses of an expanded query come from those of the query, in order.
LEMMA ExpandFacts ==
    ASSUME NEW q, q.clauses \in Seq(Clause), Expand(q) # q
    PROVE  /\ Expand(q).clauses \in Seq(Clause)
           /\ Expand(q).range = FALSE /\ Expand(q).filter = FALSE
           /\ \E src : SourceMap(src, Expanded(q), Expand(q).clauses)
<1> DEFINE ss == Expanded(q)
<1>1. Expand(q) = [clauses |-> FlattenSeq(ss), range |-> FALSE, filter |-> FALSE]
  BY DEF Expand, Expanded
<1>2. ss \in Seq(Seq(Clause))
  <2>1. PICK n \in Nat : DOMAIN q.clauses = 1..n
    BY LenProperties
  <2>2. \A i \in 1..n : q.clauses[i] \in Clause
    BY <2>1, ElementOfSeq, LenProperties
  <2>3. \A i \in 1..n : ExpandClause(q.clauses[i]) \in Seq(Clause)
    BY <2>2, ExpandClauseFacts
  <2>4. ss = [i \in 1..n |-> ExpandClause(q.clauses[i])]
    BY <2>1 DEF Expanded
  <2> HIDE DEF ss
  <2> QED
    BY <2>3, <2>4, IsASeq
<1> HIDE DEF ss
<1>3. FlattenSeq(ss) \in Seq(Clause) /\ \E src : SourceMap(src, ss, FlattenSeq(ss))
  BY <1>2, FlattenType, FlattenSource
<1>4. /\ Expand(q).clauses = FlattenSeq(ss)
      /\ Expand(q).range = FALSE /\ Expand(q).filter = FALSE
  BY <1>1
<1> QED
  BY <1>3, <1>4 DEF ss

\* What the expansion means clause by clause: where each new clause is from.
\* A phrase and a MustNot are from themselves.
Traced(src, q, e) ==
    /\ \A k \in DOMAIN e.clauses :
          /\ src[k] \in DOMAIN q.clauses
          /\ \/ e.clauses[k] = q.clauses[src[k]]
             \/ e.clauses[k].type = "should" /\ q.clauses[src[k]].type \notin {"must_not", "phrase"}
    /\ \A k, m \in DOMAIN e.clauses : k <= m => src[k] <= src[m]
    /\ \A i \in DOMAIN q.clauses : q.clauses[i].type \in {"must_not", "phrase"} =>
          \E k \in DOMAIN e.clauses : src[k] = i /\ e.clauses[k] = q.clauses[i]
    /\ \A i \in DOMAIN q.clauses : \E k \in DOMAIN e.clauses :
          /\ e.clauses[k].field = q.clauses[i].field
          /\ e.clauses[k].words = q.clauses[i].words
          /\ e.clauses[k] = q.clauses[i] \/ e.clauses[k].type = "should"

\* FlattenSeq and ExpandClause trace each new clause back.
LEMMA SourceFacts ==
    ASSUME NEW q, q.clauses \in Seq(Clause), NEW e, e.clauses \in Seq(Clause), NEW src,
           SourceMap(src, Expanded(q), e.clauses)
    PROVE  Traced(src, q, e)
<1> DEFINE ss == Expanded(q)
<1>1. DOMAIN ss = DOMAIN q.clauses /\ \A i \in DOMAIN q.clauses : ss[i] = ExpandClause(q.clauses[i])
  BY DEF Expanded
<1> HIDE DEF ss
<1>2. /\ src \in [DOMAIN e.clauses -> DOMAIN q.clauses]
      /\ \A k \in DOMAIN e.clauses : \E j \in DOMAIN ss[src[k]] : e.clauses[k] = ss[src[k]][j]
      /\ \A k, m \in DOMAIN e.clauses : k <= m => src[k] <= src[m]
      /\ \A i \in DOMAIN q.clauses : \A j \in DOMAIN ss[i] :
            \E k \in DOMAIN e.clauses : src[k] = i /\ e.clauses[k] = ss[i][j]
  <2>1. SourceMap(src, ss, e.clauses)
    BY DEF ss
  <2> QED
    BY <1>1, <2>1 DEF SourceMap
<1>3. \A i \in DOMAIN q.clauses : q.clauses[i] \in Clause
  BY ElementOfSeq, LenProperties
<1>4. ASSUME NEW k \in DOMAIN e.clauses
      PROVE  /\ src[k] \in DOMAIN q.clauses
             /\ \/ e.clauses[k] = q.clauses[src[k]]
                \/ e.clauses[k].type = "should" /\ q.clauses[src[k]].type \notin {"must_not", "phrase"}
  <2>1. src[k] \in DOMAIN q.clauses /\ q.clauses[src[k]] \in Clause
    BY <1>2, <1>3
  <2>2. PICK c \in Clause : c = q.clauses[src[k]]
    BY <2>1
  <2>3. PICK j \in DOMAIN ExpandClause(c) : e.clauses[k] = ExpandClause(c)[j]
    <3>1. PICK j \in DOMAIN ss[src[k]] : e.clauses[k] = ss[src[k]][j]
      BY <1>2
    <3>2. ss[src[k]] = ExpandClause(c)
      BY <1>1, <2>1, <2>2
    <3> QED
      BY <3>1, <3>2
  <2>4. \/ e.clauses[k] = c
        \/ e.clauses[k].type = "should" /\ c.type \notin {"must_not", "phrase"}
    BY <2>3, ExpandClauseFacts
  <2> QED
    BY <2>1, <2>2, <2>4
<1>5. ASSUME NEW i \in DOMAIN q.clauses, q.clauses[i].type \in {"must_not", "phrase"}
      PROVE  \E k \in DOMAIN e.clauses : src[k] = i /\ e.clauses[k] = q.clauses[i]
  <2>1. ss[i] = <<q.clauses[i]>>
    BY <1>1, <1>3, <1>5, ExpandClauseFacts
  <2>2. 1 \in DOMAIN ss[i] /\ ss[i][1] = q.clauses[i]
    BY <2>1
  <2> QED
    BY <1>2, <2>2
<1>6. ASSUME NEW i \in DOMAIN q.clauses
      PROVE  \E k \in DOMAIN e.clauses :
                /\ e.clauses[k].field = q.clauses[i].field
                /\ e.clauses[k].words = q.clauses[i].words
                /\ e.clauses[k] = q.clauses[i] \/ e.clauses[k].type = "should"
  <2>1. PICK j \in DOMAIN ss[i] :
           /\ ss[i][j].field = q.clauses[i].field
           /\ ss[i][j].words = q.clauses[i].words
           /\ ss[i][j] = q.clauses[i] \/ ss[i][j].type = "should"
    <3>1. PICK c \in Clause : c = q.clauses[i] /\ ss[i] = ExpandClause(c)
      BY <1>1, <1>3
    <3>2. PICK j \in DOMAIN ExpandClause(c) :
             /\ ExpandClause(c)[j].field = c.field
             /\ ExpandClause(c)[j].words = c.words
             /\ ExpandClause(c)[j] = c \/ ExpandClause(c)[j].type = "should"
      BY ExpandClauseFacts
    <3> QED
      BY <3>1, <3>2
  <2>2. PICK k \in DOMAIN e.clauses : e.clauses[k] = ss[i][j]
    BY <1>2
  <2> QED
    BY <2>1, <2>2
<1> QED
  BY <1>2, <1>4, <1>5, <1>6 DEF Traced

\* The expansion moves no phrase past another, so the positions of a word are
\* still those of the last phrase that found it.
LEMMA SamePositions ==
    ASSUME NEW q, q.clauses \in Seq(Clause), NEW e, e.clauses \in Seq(Clause), NEW src,
           Traced(src, q, e),
           NEW v, NEW w
    PROVE  WordPositions(e, v, w) = WordPositions(q, v, w)
<1> DEFINE foundQ == {i \in Of(q, {"phrase"}) : w \in ToSet(q.clauses[i].words)
                                                  /\ v[<<q.clauses[i].field, w>>] # {}}
           foundE == {i \in Of(e, {"phrase"}) : w \in ToSet(e.clauses[i].words)
                                                  /\ v[<<e.clauses[i].field, w>>] # {}}
<1>1. \A k \in foundE : src[k] \in foundQ /\ e.clauses[k] = q.clauses[src[k]]
  <2> SUFFICES ASSUME NEW k \in foundE
               PROVE  src[k] \in foundQ /\ e.clauses[k] = q.clauses[src[k]]
    OBVIOUS
  <2>1. k \in DOMAIN e.clauses /\ e.clauses[k].type = "phrase"
    BY DEF Of
  <2>2. src[k] \in DOMAIN q.clauses /\ e.clauses[k] = q.clauses[src[k]]
    BY <2>1 DEF Traced
  <2> QED
    BY <2>1, <2>2 DEF Of
<1>2. \A i \in foundQ : \E k \in foundE : src[k] = i
  <2> SUFFICES ASSUME NEW i \in foundQ
               PROVE  \E k \in foundE : src[k] = i
    OBVIOUS
  <2>1. i \in DOMAIN q.clauses /\ q.clauses[i].type = "phrase"
    BY DEF Of
  <2>2. PICK k \in DOMAIN e.clauses : src[k] = i /\ e.clauses[k] = q.clauses[i]
    BY <2>1 DEF Traced
  <2> QED
    BY <2>1, <2>2 DEF Of
<1>3. foundQ # {} => Max(foundQ) \in foundQ /\ \A i \in foundQ : i <= Max(foundQ)
  <2>1. PICK n \in Nat : DOMAIN q.clauses = 1..n
    BY LenProperties
  <2>2. foundQ \in SUBSET (1..n)
    BY <2>1 DEF Of
  <2> HIDE DEF foundQ
  <2> QED
    BY <2>2, MaxFacts
<1>4. foundE # {} => Max(foundE) \in foundE /\ \A k \in foundE : k <= Max(foundE)
  <2>1. PICK n \in Nat : DOMAIN e.clauses = 1..n
    BY LenProperties
  <2>2. foundE \in SUBSET (1..n)
    BY <2>1 DEF Of
  <2> HIDE DEF foundE
  <2> QED
    BY <2>2, MaxFacts
<1>5. /\ WordPositions(q, v, w) = IF foundQ = {} THEN {} ELSE v[<<q.clauses[Max(foundQ)].field, w>>]
      /\ WordPositions(e, v, w) = IF foundE = {} THEN {} ELSE v[<<e.clauses[Max(foundE)].field, w>>]
  BY DEF WordPositions
<1>6. foundQ \subseteq Int /\ foundE \subseteq DOMAIN e.clauses
  BY LenProperties DEF Of
<1>7. \A k, m \in foundE : k <= m => src[k] <= src[m]
  <2>1. \A k, m \in DOMAIN e.clauses : k <= m => src[k] <= src[m]
    BY DEF Traced
  <2> QED
    BY <1>6, <2>1
<1> HIDE DEF foundQ, foundE
<1>8. CASE foundQ = {}
  BY <1>1, <1>5, <1>8
<1>9. CASE foundQ # {}
  <2>1. PICK k \in foundE : src[k] = Max(foundQ)
    BY <1>2, <1>3, <1>9
  <2>2. foundE # {} /\ Max(foundE) \in foundE /\ k <= Max(foundE)
    BY <1>4, <2>1
  <2>3. src[k] <= src[Max(foundE)] /\ src[Max(foundE)] \in foundQ
    BY <1>1, <1>7, <2>2
  <2>4. src[Max(foundE)] <= Max(foundQ)
    BY <1>3, <1>9, <2>3
  <2>5. src[Max(foundE)] = Max(foundQ)
    <3>1. PICK a \in Int, b \in Int : a = src[Max(foundE)] /\ b = Max(foundQ)
      BY <1>3, <1>6, <1>9, <2>3
    <3> QED
      BY <2>1, <2>3, <2>4, <3>1
  <2> QED
    BY <1>1, <1>5, <1>9, <2>2, <2>5
<1> QED
  BY <1>8, <1>9

\* One expansion, whatever a search sees.
LEMMA ExpandWidens ==
    ASSUME NEW q, q.clauses \in Seq(Clause), q.clauses # <<>>, Expand(q) # q,
           NEW d, NEW v, Hit(q, d, v)
    PROVE  Hit(Expand(q), d, v)
<1> PICK e : e = Expand(q)
  OBVIOUS
<1>1. e.clauses \in Seq(Clause) /\ e.range = FALSE /\ e.filter = FALSE
  BY ExpandFacts
<1>2. PICK src : Traced(src, q, e)
  <2>1. PICK src : SourceMap(src, Expanded(q), e.clauses)
    BY ExpandFacts
  <2>2. Traced(src, q, e)
    BY <1>1, <2>1, SourceFacts
  <2> QED
    BY <2>2
<1>3. \A k \in DOMAIN e.clauses :
         /\ src[k] \in DOMAIN q.clauses
         /\ \/ e.clauses[k] = q.clauses[src[k]]
            \/ e.clauses[k].type = "should" /\ q.clauses[src[k]].type \notin {"must_not", "phrase"}
  BY <1>2 DEF Traced
<1>4. \A i \in DOMAIN q.clauses : q.clauses[i].type \in {"must_not", "phrase"} =>
         \E k \in DOMAIN e.clauses : src[k] = i /\ e.clauses[k] = q.clauses[i]
  BY <1>2 DEF Traced
<1>5. \A i \in DOMAIN q.clauses : \E k \in DOMAIN e.clauses :
         /\ e.clauses[k].field = q.clauses[i].field
         /\ e.clauses[k].words = q.clauses[i].words
         /\ e.clauses[k] = q.clauses[i] \/ e.clauses[k].type = "should"
  BY <1>2 DEF Traced
<1>6. \A i \in DOMAIN q.clauses : q.clauses[i] \in Clause
  BY ElementOfSeq, LenProperties
<1>7. Match(q, v) /\ Candidate(q, d, v) /\ Scored(q, d)
  BY DEF Hit
\* A clause that finds a word is followed by one that finds it.
<1>8. ASSUME NEW i \in DOMAIN q.clauses, Has(q.clauses[i], v)
      PROVE  \E k \in DOMAIN e.clauses :
                Has(e.clauses[k], v) /\ (e.clauses[k] = q.clauses[i] \/ e.clauses[k].type = "should")
  BY <1>5, <1>8 DEF Has
<1>9. Match(e, v)
  <2>1. \A k \in Of(e, {"must"}) : Has(e.clauses[k], v)
    BY <1>3, <1>7 DEF Match, Of
  <2>2. \A k \in Of(e, {"must_not"}) : ~ Has(e.clauses[k], v)
    BY <1>3, <1>7 DEF Match, Of
  <2>3. ASSUME NEW k \in Of(e, {"phrase"})
        PROVE  PhraseMatch(e, e.clauses[k], v)
    <3>1. src[k] \in Of(q, {"phrase"}) /\ e.clauses[k] = q.clauses[src[k]]
      BY <1>3 DEF Of
    <3>2. PhraseMatch(q, e.clauses[k], v)
      BY <1>7, <3>1 DEF Match
    <3>3. \A w : WordPositions(e, v, w) = WordPositions(q, v, w)
      BY <1>1, <1>2, SamePositions
    <3> QED
      BY <3>2, <3>3 DEF PhraseMatch
  <2>4. ASSUME Of(e, {"must"}) = {}, Of(e, {"should"}) # {}
        PROVE  \E k \in Of(e, {"should"}) : Has(e.clauses[k], v)
    <3>1. PICK m \in Of(e, {"should"}) : TRUE
      BY <2>4
    <3>2. src[m] \in DOMAIN q.clauses /\ q.clauses[src[m]].type \notin {"must_not", "phrase"}
      BY <1>3, <3>1 DEF Of
    <3>3. src[m] \in Of(q, {"must"}) \/ src[m] \in Of(q, {"should"})
      BY <1>6, <3>2, ClauseFacts DEF Of
    <3>4. PICK i \in DOMAIN q.clauses : Has(q.clauses[i], v) /\ q.clauses[i].type \in {"must", "should"}
      BY <1>7, <3>3 DEF Match, Of
    <3>5. PICK k \in DOMAIN e.clauses :
             Has(e.clauses[k], v) /\ (e.clauses[k] = q.clauses[i] \/ e.clauses[k].type = "should")
      BY <1>8, <3>4
    <3> QED
      BY <2>4, <3>4, <3>5 DEF Of
  <2> QED
    BY <2>1, <2>2, <2>3, <2>4 DEF Match
<1>10. Candidate(e, d, v)
  <2>1. CASE \E i \in Of(q, {"must", "should", "must_not"}) : Has(q.clauses[i], v)
    <3>1. PICK i \in DOMAIN q.clauses :
             Has(q.clauses[i], v) /\ q.clauses[i].type \in {"must", "should", "must_not"}
      BY <2>1 DEF Of
    <3>2. PICK k \in DOMAIN e.clauses :
             Has(e.clauses[k], v) /\ (e.clauses[k] = q.clauses[i] \/ e.clauses[k].type = "should")
      BY <1>8, <3>1
    <3>3. k \in Of(e, {"must", "should", "must_not"})
      BY <3>1, <3>2 DEF Of
    <3> QED
      BY <1>1, <3>2, <3>3 DEF Candidate
  <2>2. CASE \E i \in Of(q, {"phrase"}) : \E w \in ToSet(q.clauses[i].words) : v[<<q.clauses[i].field, w>>] # {}
    <3>1. PICK i \in Of(q, {"phrase"}) : \E w \in ToSet(q.clauses[i].words) : v[<<q.clauses[i].field, w>>] # {}
      BY <2>2
    <3>2. PICK k \in DOMAIN e.clauses : e.clauses[k] = q.clauses[i]
      BY <1>4 DEF Of
    <3>3. k \in Of(e, {"phrase"})
      BY <3>2 DEF Of
    <3> QED
      BY <1>1, <3>1, <3>2, <3>3 DEF Candidate
  <2> QED
    BY <1>7, <2>1, <2>2 DEF Candidate
<1>11. Scored(e, d)
  BY <1>1, <1>7 DEF Scored
<1> QED
  BY <1>9, <1>10, <1>11 DEF Hit

\* Nothing becomes of nothing: without clauses, and without its ranges, a query has
\* no candidates.
LEMMA ExpandLoses ==
    ASSUME NEW q, q.clauses = <<>>, Expand(q) # q, NEW d, NEW v
    PROVE  ~ Hit(Expand(q), d, v)
<1>1. q.clauses \in Seq(Clause)
  BY EmptySeq
<1>2. PICK e : e = Expand(q)
  OBVIOUS
<1>3. e.clauses \in Seq(Clause) /\ e.range = FALSE
  BY <1>1, <1>2, ExpandFacts
<1>4. PICK src : SourceMap(src, Expanded(q), e.clauses)
  BY <1>1, <1>2, ExpandFacts
<1>5. DOMAIN e.clauses = {}
  <2>1. src \in [DOMAIN e.clauses -> DOMAIN Expanded(q)]
    BY <1>4 DEF SourceMap
  <2>2. DOMAIN Expanded(q) = {}
    <3>1. DOMAIN Expanded(q) = DOMAIN q.clauses
      BY DEF Expanded
    <3>2. DOMAIN <<>> = {}
      BY EmptySeq
    <3> QED
      BY <3>1, <3>2
  <2> QED
    BY <2>1, <2>2
<1>6. ~ Candidate(e, d, v)
  BY <1>3, <1>5 DEF Candidate, Of
<1> QED
  BY <1>2, <1>6 DEF Hit

\* An engine with synonyms finds all it would find without, also when HybridSearch
\* expands what Search expands again, by a query with a clause; by ranges alone it
\* finds nothing (ExpandedHits of Search).  This is so whatever is in the index: the
\* proof needs no invariant.
THEOREM SynonymsCorrect == Spec => []ExpandedHits
<1>1. ExpandedHits
  <2> SUFFICES ASSUME NEW d \in Stored, NEW v \in Views(d), NEW w \in Replaced
               PROVE  IF w[1].clauses = <<>> THEN ~ Hit(w[2], d, v)
                      ELSE Hit(w[1], d, v) => Hit(w[2], d, v)
    BY DEF ExpandedHits
  <2>1. w[1] # w[2]
    BY DEF Replaced
  <2>2. w[2] = Expand(w[1]) /\ w[1].clauses \in Seq(Clause)
    <3>1. CASE w \in Expansions
      <4>1. PICK q \in Queries : w = <<q, Expand(q)>>
        BY <3>1 DEF Expansions
      <4> QED
        BY <4>1, QueryFacts
    <3>2. CASE w \in {<<e[2], Expand(e[2])>> : e \in Expansions}
      <4>1. PICK q \in Queries : w = <<Expand(q), Expand(Expand(q))>>
        BY <3>2 DEF Expansions
      <4>2. Expand(q).clauses \in Seq(Clause)
        BY QueryFacts, ExpandFacts
      <4> QED
        BY <4>1, <4>2
    <3> QED
      BY <3>1, <3>2 DEF Replaced
  <2>3. CASE w[1].clauses = <<>>
    BY <2>1, <2>2, <2>3, ExpandLoses
  <2>4. CASE w[1].clauses # <<>>
    BY <2>1, <2>2, <2>4, ExpandWidens
  <2> QED
    BY <2>3, <2>4
<1> QED
  BY <1>1, PTL
=============================================================================
