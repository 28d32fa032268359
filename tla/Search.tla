------------------------------- MODULE Search -------------------------------
(***************************************************************************)
(* What a query finds: the candidates that Search of engine/search.go      *)
(* collects from the postings of the clauses, Match and PhraseMatch of     *)
(* package query over them, the filters of scoreDoc, the expansion by      *)
(* synonyms, and the searches by pattern, over an index that documents are *)
(* added to, updated in and deleted from.                                  *)
(*                                                                         *)
(* Abstractions.  Calls hold e.mu, and each is one step; so is a merge,    *)
(* whose interleavings are InvertedIndex's.  A text is the sequence of     *)
(* words the analyzer makes of it, and the words of a query are analyzed.  *)
(* Whether a document lies in the ranges of a query and passes its term    *)
(* and regex filters is given for each document (RangeIndex has the ranges *)
(* themselves); the order of the hits is SortedPages'.                     *)
(*                                                                         *)
(* A definition marked Slip is a mistake the code could have made in the   *)
(* definition that follows it; nothing here uses it.                       *)
(***************************************************************************)
EXTENDS Integers, Sequences, SequencesExt, FiniteSetsExt

CONSTANTS
    Docs,
    Fields,      \* text fields
    Words,
    Contents,    \* documents: the analyzed text of each field
    NoDoc,       \* a document that does not exist
    Synonyms,    \* the synonyms of each word, as a sequence
    Queries,     \* the queries asked
    InRange,     \* documents in the ranges a query may have
    Passes,      \* documents that pass the filters a query may have
    MaxSegments, \* MergePolicy.MaxSegments; bound: a merge keeps up with flushes
    MaxWrites    \* bound: calls of Index and Delete

Terms == Fields \X Words

\* A clause asks for one word, a phrase for any number of them.
Clause == [type : {"must", "should", "must_not"}, field : Fields, words : {<<w>> : w \in Words}]
              \cup [type : {"phrase"}, field : Fields, words : Seq(Words)]
Query == [clauses : Seq(Clause), range : BOOLEAN, filter : BOOLEAN]

ASSUME WordsAssumption == IsFiniteSet(Words)
ASSUME ContentsAssumption == Contents \subseteq [Fields -> Seq(Words)] /\ NoDoc \notin Contents
ASSUME SynonymsAssumption == Synonyms \in [Words -> Seq(Words)]
ASSUME QueriesAssumption == Queries \subseteq Query
ASSUME AttributesAssumption == InRange \subseteq Docs /\ Passes \subseteq Docs
ASSUME BoundAssumption == MaxSegments \in Nat /\ MaxWrites \in Nat

VARIABLES
    text,      \* the document in the store
    buffer,    \* the write buffer: the positions of each term in each document
    segments,  \* the segments flushed from it, oldest first
    hidden,    \* tombstones
    trie,      \* terms known to prefix search
    writes,    \* calls on each document so far
    recent     \* ghost: documents indexed since the last start

vars == <<text, buffer, segments, hidden, trie, writes, recent>>

Stored == {d \in Docs : text[d] # NoDoc}

Nothing == [t \in Terms |-> {}]
Empty == [d \in Docs |-> Nothing]

PostingsOf(doc) == [t \in Terms |-> {i \in DOMAIN doc[t[1]] : doc[t[1]][i] = t[2]}]

-----------------------------------------------------------------------------
(* The index.                                                              *)

Init ==
    /\ text = [d \in Docs |-> NoDoc]
    /\ buffer = Empty /\ segments = <<>> /\ hidden = {} /\ trie = {}
    /\ writes = [d \in Docs |-> 0] /\ recent = {}

Write(d) ==
    /\ MapThenSumSet(LAMBDA e : writes[e], Docs) < MaxWrites
    /\ writes' = [writes EXCEPT ![d] = @ + 1]

Room == Len(segments) <= MaxSegments

\* clearTombstone: the postings of d the buffer keeps when d is added again.
Buffered(d) == IF d \in hidden \cup Stored THEN Nothing ELSE buffer[d]

\* Index: the old postings are hidden and come back with the new ones, except
\* for those of the buffer.  The buffer may be flushed between the fields.
Index(d, doc, early) ==
    LET added   == PostingsOf(doc)
        part(F) == [t \in Terms |-> IF t[1] \in F THEN added[t] ELSE {}]
        with(p) == [buffer EXCEPT ![d] = [t \in Terms |-> Buffered(d)[t] \cup p[t]]]
    IN  /\ Write(d)
        /\ text' = [text EXCEPT ![d] = doc]
        /\ hidden' = hidden \ {d}
        /\ trie' = trie \cup {t \in Terms : added[t] # {}}
        /\ \/ /\ early = {}
              /\ buffer' = with(added) /\ UNCHANGED segments
           \/ /\ early # {} /\ Room
              /\ segments' = Append(segments, with(part(early)))
              /\ buffer' = [Empty EXCEPT ![d] = part(Fields \ early)]
        /\ recent' = recent \cup {d}

Delete(d) ==
    /\ Write(d)
    /\ text' = [text EXCEPT ![d] = NoDoc]
    /\ hidden' = hidden \cup {d}
    /\ recent' = recent \ {d}
    /\ UNCHANGED <<buffer, segments, trie>>

Flush ==
    /\ buffer # Empty /\ Room
    /\ segments' = Append(segments, buffer)
    /\ buffer' = Empty
    /\ UNCHANGED <<text, hidden, trie, writes, recent>>

\* The posting of a term in the merged segment: the last one.
Merged(d, t) ==
    LET holds == {i \in DOMAIN segments : segments[i][d][t] # {}}
    IN  IF d \in hidden \/ holds = {} THEN {} ELSE segments[Max(holds)][d][t]

\* Merge drops every tombstone, also of documents in the buffer.
Merge ==
    /\ Len(segments) > MaxSegments
    /\ segments' = <<[d \in Docs |-> [t \in Terms |-> Merged(d, t)]]>>
    /\ hidden' = {}
    /\ UNCHANGED <<text, buffer, trie, writes, recent>>

\* Save, which flushes, and a start from the snapshot: Restore fills no trie.
Restart ==
    /\ buffer # Empty => Room
    /\ segments' = IF buffer = Empty THEN segments ELSE Append(segments, buffer)
    /\ buffer' = Empty /\ trie' = {} /\ recent' = {}
    /\ UNCHANGED <<text, hidden, writes>>

Next ==
    \/ \E d \in Docs, doc \in Contents, early \in (SUBSET Fields) \ {Fields} : Index(d, doc, early)
    \/ \E d \in Docs : Delete(d)
    \/ Flush \/ Merge \/ Restart

Spec == Init /\ [][Next]_vars

-----------------------------------------------------------------------------
(* Search.                                                                 *)

\* The postings Lookup may give: of any segment that has one, or else of the
\* buffer.
Lookup(d, t) ==
    LET flushed == {segments[i][d][t] : i \in DOMAIN segments} \ {{}}
    IN  IF d \in hidden THEN {{}} ELSE IF flushed # {} THEN flushed ELSE {buffer[d][t]}

\* What one search may see of a document.
Views(d) == {v \in [Terms -> UNION {Lookup(d, t) : t \in Terms}] : \A t \in Terms : v[t] \in Lookup(d, t)}

Of(q, types) == {i \in DOMAIN q.clauses : q.clauses[i].type \in types}

Has(c, v) == v[<<c.field, c.words[1]>>] # {}

\* Phrases keep their postings by word, without the field: the positions are
\* those of the last phrase that found the word.
WordPositions(q, v, w) ==
    LET found == {i \in Of(q, {"phrase"}) : w \in ToSet(q.clauses[i].words)
                                              /\ v[<<q.clauses[i].field, w>>] # {}}
    IN  IF found = {} THEN {} ELSE v[<<q.clauses[Max(found)].field, w>>]

PhraseMatch(q, c, v) ==
    /\ Len(c.words) > 0
    /\ \E p \in WordPositions(q, v, c.words[1]) :
          \A i \in DOMAIN c.words : p + i - 1 \in WordPositions(q, v, c.words[i])

\* Slip: Should clauses are optional beside a Phrase.
MatchPhraseForShould(q, v) ==
    /\ \A i \in Of(q, {"must"}) : Has(q.clauses[i], v)
    /\ \A i \in Of(q, {"must_not"}) : ~ Has(q.clauses[i], v)
    /\ \A i \in Of(q, {"phrase"}) : PhraseMatch(q, q.clauses[i], v)
    /\ Of(q, {"must", "phrase"}) = {} /\ Of(q, {"should"}) # {}
          => \E i \in Of(q, {"should"}) : Has(q.clauses[i], v)

Match(q, v) ==
    /\ \A i \in Of(q, {"must"}) : Has(q.clauses[i], v)
    /\ \A i \in Of(q, {"must_not"}) : ~ Has(q.clauses[i], v)
    /\ \A i \in Of(q, {"phrase"}) : PhraseMatch(q, q.clauses[i], v)
    /\ Of(q, {"must"}) = {} /\ Of(q, {"should"}) # {}
          => \E i \in Of(q, {"should"}) : Has(q.clauses[i], v)

\* Slip: the clauses' candidates come only from those that must match.
CandidateOfMust(q, d, v) ==
    /\ \/ \E i \in Of(q, {"must"}) : Has(q.clauses[i], v)
       \/ \E i \in Of(q, {"phrase"}) : \E w \in ToSet(q.clauses[i].words) :
              v[<<q.clauses[i].field, w>>] # {}
       \/ q.clauses = <<>> /\ q.range
    /\ q.range => d \in InRange

\* The candidates are documents that some clause finds, those of a MustNot
\* included, or without clauses those of the ranges.
Candidate(q, d, v) ==
    /\ \/ \E i \in Of(q, {"must", "should", "must_not"}) : Has(q.clauses[i], v)
       \/ \E i \in Of(q, {"phrase"}) : \E w \in ToSet(q.clauses[i].words) :
              v[<<q.clauses[i].field, w>>] # {}
       \/ q.clauses = <<>> /\ q.range
    /\ q.range => d \in InRange

\* What scoreDoc asks of a document.
Scored(q, d) == d \in Stored /\ (q.filter => d \in Passes)

Hit(q, d, v) == Candidate(q, d, v) /\ Match(q, v) /\ Scored(q, d)

\* Slip: the synonyms take the place of the word.
ExpandClauseAway(c) ==
    IF c.type \in {"must_not", "phrase"} \/ Synonyms[c.words[1]] = <<>> THEN <<c>>
    ELSE [i \in DOMAIN Synonyms[c.words[1]] |->
             [c EXCEPT !.type = "should", !.words = <<Synonyms[c.words[1]][i]>>]]

ExpandClause(c) ==
    IF c.type \in {"must_not", "phrase"} \/ Synonyms[c.words[1]] = <<>> THEN <<c>>
    ELSE LET any == c.words \o Synonyms[c.words[1]]
         IN  [i \in DOMAIN any |-> [c EXCEPT !.type = "should", !.words = <<any[i]>>]]

\* expandQueryWithSynonyms: ranges and filters do not survive it.
Expand(q) ==
    IF \A w \in Words : Synonyms[w] = <<>> THEN q
    ELSE [clauses |-> FlattenSeq([i \in DOMAIN q.clauses |-> ExpandClause(q.clauses[i])]),
          range |-> FALSE, filter |-> FALSE]

\* Slip: the store is not asked.
PatternFindsUnstored(f, W, d, v) ==
    \E w \in W : /\ \E e \in Docs : buffer[e][<<f, w>>] # {}
                        \/ \E i \in DOMAIN segments : segments[i][e][<<f, w>>] # {}
                  /\ v[<<f, w>>] # {}

\* FuzzySearch and WildcardSearch: the indexed terms that resemble one, here any
\* set of words, deleted documents' included.
PatternFinds(f, W, d, v) ==
    /\ d \in Stored
    /\ \E w \in W : /\ \E e \in Docs : buffer[e][<<f, w>>] # {}
                          \/ \E i \in DOMAIN segments : segments[i][e][<<f, w>>] # {}
                    /\ v[<<f, w>>] # {}

\* PrefixSearch: the same, of the terms in the trie.
PrefixFinds(f, W, d, v) ==
    d \in Stored /\ \E w \in W : <<f, w>> \in trie /\ v[<<f, w>>] # {}

-----------------------------------------------------------------------------
(* What the stored text says of a query.                                   *)

InText(doc, c) == c.words[1] \in ToSet(doc[c.field])

PhraseInText(doc, c) ==
    \E i \in 0..Len(doc[c.field]) : /\ Len(c.words) > 0
                                    /\ i + Len(c.words) <= Len(doc[c.field])
                                    /\ SubSeq(doc[c.field], i + 1, i + Len(c.words)) = c.words

Satisfies(q, d) ==
    /\ \A i \in DOMAIN q.clauses :
          LET c == q.clauses[i]
          IN  /\ c.type = "must" => InText(text[d], c)
              /\ c.type = "must_not" => ~ InText(text[d], c)
              /\ c.type = "phrase" => PhraseInText(text[d], c)
    /\ Of(q, {"must"}) = {} /\ Of(q, {"should"}) # {}
          => \E i \in Of(q, {"should"}) : InText(text[d], q.clauses[i])
    /\ q.range => d \in InRange
    /\ q.filter => d \in Passes

\* Queries with something to look for.
Positive(q) == Of(q, {"must", "should", "phrase"}) # {} \/ (q.clauses = <<>> /\ q.range)

\* Phrases of different fields have no word in common.
Apart(q) ==
    \A i, j \in Of(q, {"phrase"}) : q.clauses[i].field # q.clauses[j].field
        => ToSet(q.clauses[i].words) \cap ToSet(q.clauses[j].words) = {}

\* The queries of the properties, and what an engine with the synonyms searches
\* for instead: Search expands once, HybridSearch before it calls Search as well.
ExactQueries == {q \in Queries : Positive(q) /\ Apart(q)}
PlainQueries == {q \in Queries : Positive(q) /\ Of(q, {"must_not", "phrase"}) = {}}
Expansions == {<<q, Expand(q)>> : q \in Queries}
Replaced ==
    {w \in Expansions \cup {<<e[2], Expand(e[2])>> : e \in Expansions} : w[1] # w[2]}

\* The query for any of some words in a field.
AnyOf ==
    [p \in Fields \X SUBSET Words |->
        [clauses |-> SetToSeq({[type |-> "should", field |-> p[1], words |-> <<w>>] : w \in p[2]}),
         range |-> FALSE, filter |-> FALSE]]

-----------------------------------------------------------------------------
\* A document written once is found by a query with something to look for if and
\* only if its text, its ranges and its filters satisfy the query: the
\* candidates of Search leave no match out, and what scoreDoc lets pass is right,
\* wherever the postings are.  Left out are phrases of two fields that share a
\* word, which Search mixes up.
WrittenOnceExact ==
    \A d \in Stored : writes[d] = 1 =>
        \A v \in Views(d), q \in ExactQueries :
            Hit(q, d, v) <=> Satisfies(q, d)

\* A document is found by the text it has now, however often it was updated: an
\* update never takes words away from a query without MustNot and phrases.
CurrentTextFound ==
    \A d \in Stored :
        \A v \in Views(d), q \in PlainQueries :
            Satisfies(q, d) => Hit(q, d, v)

\* What an expansion does to the hits of a query, that of HybridSearch's expanded
\* query included: a query with a clause keeps all it found and may find more, since
\* filters are dropped and a Must clause becomes a Should (README.md:285 says that
\* it is left alone); one without, of ranges only, loses every hit, as its ranges
\* are dropped.
ExpandedHits ==
    \A d \in Stored :
        \A v \in Views(d), w \in Replaced :
            IF w[1].clauses = <<>> THEN ~ Hit(w[2], d, v)
            ELSE Hit(w[1], d, v) => Hit(w[2], d, v)

\* A search by pattern finds what Search finds by the words that resemble it, and
\* PrefixSearch no more than that; of the documents indexed since the start it
\* finds those with a word in their text, whatever a snapshot kept from the trie.
PatternsAgree ==
    \A d \in Docs, f \in Fields, W \in (SUBSET Words) \ {{}} :
        \A v \in Views(d) :
            /\ PatternFinds(f, W, d, v) <=> Hit(AnyOf[<<f, W>>], d, v)
            /\ PrefixFinds(f, W, d, v) => Hit(AnyOf[<<f, W>>], d, v)
            /\ d \in recent /\ W \cap ToSet(text[d][f]) # {} => PrefixFinds(f, W, d, v)

\* query/query.go: a terms filter is mandatory.
FiltersAreMandatory ==
    \A d \in Stored : \A v \in Views(d), e \in Expansions :
        Hit(e[2], d, v) /\ e[1].filter => d \in Passes
=============================================================================
