----------------------------- MODULE SortedPages -----------------------------
(***************************************************************************)
(* Sorted results in pages: the entries that index/field_index.go keeps of *)
(* one sort field, sortFirstSearch and applyPagination of engine/search.go *)
(* over them, and a client that follows NextCursor from page to page while *)
(* documents are indexed and deleted.                                      *)
(*                                                                         *)
(* Calls hold e.mu, so each is one step.  The query matches every document *)
(* and its scores are given; SortValues and Sort leave the order of equal  *)
(* values open, as sort.Slice does.  Values are numbers the code compares  *)
(* as numbers: not 0 and no mixture with strings.  Without entries Search  *)
(* falls back to Engine.Sort, which orders by score then, as Found does.   *)
(*                                                                         *)
(* A definition marked Slip is a mistake the code could have made in the   *)
(* definition that follows it; nothing here uses it.                       *)
(***************************************************************************)
EXTENDS Integers, Sequences, SequencesExt, FiniteSetsExt

CONSTANTS
    Docs,
    Values,    \* values of the sort field
    NoValue,   \* a document without the field
    NoDoc,     \* a document that does not exist
    NoCursor,
    Score,     \* the score of each document
    Size,      \* documents on a page
    MaxCalls   \* bound: calls of Index and Delete

ASSUME ValuesAssumption == Values \subseteq Int /\ {NoValue, NoDoc} \cap Int = {} /\ NoValue # NoDoc
ASSUME DocsAssumption == IsFiniteSet(Docs)
ASSUME ScoreAssumption ==
    /\ Score \in [Docs -> Int]
    /\ \A d, e \in Docs : Score[d] = Score[e] => d = e
ASSUME SizeAssumption == Size \in Nat \ {0}
\* Up to 20 results, and there are no more entries than calls, sort.SliceStable is
\* the insertion sort that Ranked describes.
ASSUME BoundAssumption == MaxCalls \in 0..20

VARIABLES
    entries,    \* fi.entries of the field
    deleted,    \* fi.deleted
    stored,     \* the value of each document in the store
    cursor,     \* the client: the last document it got
    client,     \* "idle", "paging" or "done"
    desc,       \* the order it asked for
    got,        \* ghost: how often it got each document
    clean,      \* ghost: documents with one entry and a value of their own,
                \* and not written, since the first page
    broken,     \* ghost: whether it came back with a cursor that was not clean
    calls

vars == <<entries, deleted, stored, cursor, client, desc, got, clean, broken, calls>>

Entry == [doc : Docs, value : Values]

-----------------------------------------------------------------------------
(* One page.                                                               *)

\* The members of a finite set in a strict order, given as a set of pairs.
ListBy(S, order) ==
    [p \in 1..Cardinality(S) |->
        CHOOSE x \in S : Cardinality({y \in S : <<y, x>> \in order}) = p - 1]

Cut(s, limit) == IF limit > 0 /\ Len(s) > limit THEN SubSeq(s, 1, limit) ELSE s

\* Where the entries are that SortValues returns, and in which order.
SortValues == {i \in DOMAIN entries : entries[i].doc \notin deleted}

Direction(down) ==
    {p \in (DOMAIN entries) \X (DOMAIN entries) : IF down THEN p[1] > p[2] ELSE p[1] < p[2]}

\* The entries of documents the store has, up to the limit.
Walk(down, limit) ==
    LET at == ListBy({i \in SortValues : stored[entries[i].doc] # NoDoc}, Direction(down))
    IN  Cut([p \in DOMAIN at |-> entries[at[p]].doc], limit)

\* sort.SliceStable by score of neighbours with the same value: it moves nothing
\* past a document with another.
Together(s, i, j) ==
    \A k \in DOMAIN s : (i <= k /\ k <= j) \/ (j <= k /\ k <= i) => stored[s[k]] = stored[s[i]]

Before(s, i, j) ==
    IF Together(s, i, j) THEN Score[s[i]] > Score[s[j]] \/ (s[i] = s[j] /\ i < j)
    ELSE i < j

Ranked(s) ==
    LET at == ListBy(DOMAIN s, {p \in (DOMAIN s) \X (DOMAIN s) : Before(s, p[1], p[2])})
    IN  [p \in DOMAIN s |-> s[at[p]]]

\* Slip: documents with an entry are appended too.
RestOfAll == ListBy({d \in Docs : stored[d] # NoDoc},
                    {p \in Docs \X Docs : Score[p[1]] > Score[p[2]]})

\* Documents without an entry, by score.
Rest == ListBy({d \in Docs : stored[d] # NoDoc /\ \A i \in SortValues : entries[i].doc # d},
               {p \in Docs \X Docs : Score[p[1]] > Score[p[2]]})

\* sortFirstSearch; all in all, at most limit documents unless it is 0.
Found(walked, limit) == Cut(Ranked(walked) \o Rest, limit)

Results(down, limit) == Found(Walk(down, limit), limit)

\* Slip: the cursor's document is on the next page as well.
FromCursor(s, after) ==
    LET at == {i \in DOMAIN s : s[i] = after}
    IN  IF at = {} THEN <<>> ELSE SubSeq(s, Min(at), Len(s))

\* applyPagination: the results behind the cursor's document.
AfterCursor(s, after) ==
    LET at == {i \in DOMAIN s : s[i] = after}
    IN  IF at = {} THEN <<>> ELSE SubSeq(s, Min(at) + 1, Len(s))

\* Slip: the search stops after the documents of one page.
OffsetStopsEarly(down, from) ==
    LET s == Results(down, Size)
    IN  IF from > Len(s) THEN <<>> ELSE SubSeq(s, from + 1, Len(s))

\* From and Size; a From behind the end gives no page.
Offset(down, from) ==
    LET s == Results(down, from + Size)
    IN  IF from > Len(s) THEN <<>> ELSE SubSeq(s, from + 1, Len(s))

-----------------------------------------------------------------------------
Init ==
    /\ entries = <<>> /\ deleted = {}
    /\ stored = [d \in Docs |-> NoDoc]
    /\ cursor = NoCursor /\ client = "idle" /\ desc = FALSE
    /\ got = [d \in Docs |-> 0]
    /\ clean = {} /\ broken = FALSE
    /\ calls = 0

Clean(d, s) ==
    LET own == {i \in DOMAIN s : s[i].doc = d}
    IN  /\ Cardinality(own) = 1
        /\ \A i \in own, j \in DOMAIN s \ own : s[i].value # s[j].value

Write(d) ==
    /\ calls < MaxCalls /\ calls' = calls + 1
    /\ clean' = {e \in clean \ {d} : Clean(e, entries')}
    /\ UNCHANGED <<cursor, client, desc, got, broken>>

\* Slip: the new entry stays at the end.
SortedNot(s) == {s}

\* Sort: any order of equal values.
Sorted(s) ==
    {t \in {[i \in DOMAIN s |-> s[p[i]]] :
               p \in {q \in [DOMAIN s -> DOMAIN s] : ToSet(q) = DOMAIN s}} :
        \A i \in 1..(Len(s) - 1) : t[i].value <= t[i + 1].value}

\* Slip: a document stays deleted.
IndexStaysDeleted(d, v) ==
    /\ stored' = [stored EXCEPT ![d] = v]
    /\ entries' \in Sorted(Append(entries, [doc |-> d, value |-> v]))
    /\ UNCHANGED deleted
    /\ Write(d)

\* Index: Add appends an entry, also when the document has one, and takes the
\* document out of the deleted ones.
Index(d, v) ==
    /\ stored' = [stored EXCEPT ![d] = v]
    /\ entries' \in Sorted(Append(entries, [doc |-> d, value |-> v]))
    /\ deleted' = deleted \ {d}
    /\ Write(d)

\* Index of a document without the field.  With another field that can be
\* sorted by, Add takes it out of the deleted ones and Sort sorts all fields.
IndexOther(d) ==
    /\ stored' = [stored EXCEPT ![d] = NoValue]
    /\ \/ UNCHANGED <<entries, deleted>>
       \/ deleted' = deleted \ {d} /\ entries' \in Sorted(entries)
    /\ Write(d)

\* Delete marks the entries only.
Delete(d) ==
    /\ stored' = [stored EXCEPT ![d] = NoDoc]
    /\ deleted' = deleted \cup {d}
    /\ UNCHANGED entries
    /\ Write(d)

\* How often a document is in a list.
Times(s, d) == Cardinality({i \in DOMAIN s : s[i] = d})

\* The client takes a page; NextCursor is its last document, and there is none
\* on an empty page.
Take(page) ==
    /\ got' = [d \in Docs |-> Min({2, got[d] + Times(page, d)})]
    /\ client' = IF page = <<>> THEN "done" ELSE "paging"
    /\ cursor' = IF page = <<>> THEN NoCursor ELSE Last(page)

\* The first page stops early.
FirstPage ==
    /\ client = "idle"
    /\ desc' \in BOOLEAN
    /\ \E page \in {Results(desc', Size)} : Take(page)
    /\ clean' = {d \in Docs : stored[d] \in Values /\ Clean(d, entries)}
    /\ UNCHANGED <<entries, deleted, stored, broken, calls>>

\* With a cursor the search goes through all entries.
NextPage ==
    /\ client = "paging"
    /\ UNCHANGED <<entries, deleted, stored, desc, clean, calls>>
    /\ \E walked \in {Walk(desc, 0)} :
          \E page \in {Cut(AfterCursor(Found(walked, 0), cursor), Size)} : Take(page)
    /\ broken' = (broken \/ cursor \notin clean)

Writes == \E d \in Docs : Delete(d) \/ IndexOther(d) \/ \E v \in Values : Index(d, v)

Next == Writes \/ FirstPage \/ NextPage

Spec == Init /\ [][Next]_vars

\* A client that has begun goes on.
FairSpec == Spec /\ WF_vars(NextPage)

-----------------------------------------------------------------------------
(* Properties.                                                             *)

TypeOK ==
    /\ entries \in Seq(Entry) /\ deleted \subseteq Docs
    /\ \A i \in 1..(Len(entries) - 1) : entries[i].value <= entries[i + 1].value
    /\ stored \in [Docs -> Values \cup {NoValue, NoDoc}]
    /\ cursor \in Docs \cup {NoCursor}
    /\ client \in {"idle", "paging", "done"} /\ desc \in BOOLEAN
    /\ got \in [Docs -> 0..2]
    /\ clean \subseteq Docs /\ broken \in BOOLEAN
    /\ calls \in 0..MaxCalls

\* The entries of a document say what the store says.
Plain(d) ==
    IF stored[d] \in Values THEN Clean(d, entries)
    ELSE d \in deleted \/ \A i \in DOMAIN entries : entries[i].doc # d

\* The entries of a document that SortValues returns.
Own(d) == {i \in SortValues : entries[i].doc = d}

\* What all results together are, whatever was updated, deleted and indexed again:
\* each document of the store once for every entry it has, and once if it has none,
\* and nothing else; those whose entries are plain come in the order of their values,
\* before those without the field.  So an updated document is there twice, or at the
\* place of its old value, where README.md:107 has it replaced.
ResultsInOrder ==
    LET s     == Results(FALSE, 0)
        plain == {i \in DOMAIN s : Plain(s[i])}
    IN  /\ \A d \in Docs :
              Times(s, d) = IF stored[d] = NoDoc THEN 0
                            ELSE IF Own(d) = {} THEN 1 ELSE Cardinality(Own(d))
        /\ \A i, j \in plain :
              i < j /\ stored[s[j]] \in Values =>
                  stored[s[i]] \in Values /\ stored[s[i]] < stored[s[j]]

\* While all entries are plain, stopping early does not change a page: those
\* of From and Size are the results cut up.
OffsetPagesFit ==
    (\A d \in Docs : stored[d] # NoDoc => Plain(d)) =>
        \A down \in BOOLEAN, from \in 0..Cardinality(Docs) :
            Offset(down, from) = SubSeq(Results(down, 0), from + 1,
                                        Min({from + Size, Len(Results(down, 0))}))

\* "stable under concurrent writes" (README.md:223), as far as it goes: a
\* client that always comes back with a clean cursor gets every document that
\* stays clean exactly once, whatever happens to the others.
CleanOnce ==
    /\ \A d \in clean : ~ broken => got[d] <= 1
    /\ client = "done" /\ ~ broken => \A d \in clean : got[d] = 1

\* It comes to the end then.  With a cursor whose document has two entries it
\* may be sent back to the first of them for ever.
PagingEnds == client = "paging" ~> (client = "done" \/ broken)
=============================================================================
